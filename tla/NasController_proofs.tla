------------------------ MODULE NasController_proofs ------------------------
(***************************************************************************)
(* Proofs about NasController, for every number of requests and volumes:   *)
(* the types are kept, one volume is made by one request at a time, in the *)
(* mounted export, and what was answered as made is kept.  The inductive   *)
(* invariant says that a lock in use stays in the table: its count is the  *)
(* number of requests that refer to it (CountOK), and these refer to what  *)
(* the table has (LockOK).  KeptInv adds that who answers, or stores, that *)
(* a volume is made has seen its marker.                                   *)
(***************************************************************************)
EXTENDS NasController, FiniteSetTheorems, TLAPS

Refers == {"cLock", "cForget"} \union Locked
Making == {"cMkdir", "cMarker", "cWrite", "cChmod"}
Users(l) == {p \in Proc : lockOf[p] = l}

(* A request refers to the lock of its volume from the count to the        *)
(* discount, and has its mutex where it should.                            *)
LockOK ==
    \A p \in Proc :
        /\ pc[p] # "idle" => pvOf[p] \in Pv
        /\ pc[p] \in Refers <=> lockOf[p] # NoLock
        /\ lockOf[p] # NoLock => locks[pvOf[p]] = lockOf[p]
        /\ pc[p] \in Locked => holder[lockOf[p]] = p

CountOK == \A l \in Lock : references[l] = Cardinality(Users(l))

IInv == TypeOK /\ LockOK /\ CountOK /\ MadeInExport

----------------------------------------------------------------------------
(* The users of a lock are as many as there are requests at most, and one  *)
(* more or fewer of them is one more or fewer.                             *)
LEMMA UsersCount ==
  ASSUME NEW S \in SUBSET Proc, NEW p \in Proc
  PROVE  /\ IsFiniteSet(S) /\ Cardinality(S) \in Nat
         /\ p \notin S => Cardinality(S \union {p}) = Cardinality(S) + 1
         /\ p \in S => Cardinality(S \ {p}) = Cardinality(S) - 1
         /\ p \in S => Cardinality(S) > 0
         /\ p \in S /\ Cardinality(S) = 1 => S = {p}
  <1>1. IsFiniteSet(S)
    BY NasAssumption, FS_Subset
  <1>2. Cardinality(S) \in Nat
    BY <1>1, FS_CardinalityType
  <1>3. p \notin S => Cardinality(S \union {p}) = Cardinality(S) + 1
    BY <1>1, FS_AddElement
  <1>4. p \in S => Cardinality(S \ {p}) = Cardinality(S) - 1
    BY <1>1, FS_RemoveElement
  <1>5. p \in S => Cardinality(S) > 0
    BY <1>1, <1>2, FS_EmptySet
  <1>6. ASSUME p \in S, Cardinality(S) = 1
        PROVE  S = {p}
    <2>1. IsFiniteSet(S \ {p}) /\ Cardinality(S \ {p}) = 0
      BY <1>1, <1>4, <1>6, FS_RemoveElement
    <2>2. S \ {p} = {}
      BY <2>1, FS_EmptySet
    <2> QED BY <1>6, <2>2
  <1> QED BY <1>1, <1>2, <1>3, <1>4, <1>5, <1>6

(* A controller that starts has no locks and no requests.                  *)
LEMMA InitIInv == Init => IInv
  <1> SUFFICES ASSUME Init PROVE IInv
    OBVIOUS
  <1>1. TypeOK
    BY NasAssumption DEF Init, TypeOK, Location
  <1>2. LockOK /\ MadeInExport
    BY DEF Init, LockOK, MadeInExport, Refers, Locked
  <1>3. \A l \in Lock : Users(l) = {}
    BY NasAssumption DEF Init, Users
  <1>4. CountOK
    BY <1>3, FS_EmptySet DEF Init, CountOK
  <1> QED BY <1>1, <1>2, <1>4 DEF IInv

----------------------------------------------------------------------------
(* Types.                                                                  *)

(* A step of a handler that is not one of the lock's keeps the types ...   *)
LEMMA CreateTypeOK ==
  ASSUME TypeOK, LockOK, NEW p \in Proc,
         \/ CreateLoad(p) \/ CreateAgain(p) \/ CreateMarked(p) \/ CreateUnmount(p)
         \/ CreateMount(p) \/ CreateMkdir(p) \/ CreateMarker(p) \/ CreateWrite(p) \/ CreateChmod(p)
         \/ CreateEnd(p) \/ CreateStore(p)
  PROVE  TypeOK'
  <1> USE DEF TypeOK, Location, Locked, Goto, End, Fail, Creating, Tries, lockVars, server, kubernetes
  <1>v. pc[p] # "idle" => pvOf[p] \in Pv
    BY DEF LockOK
  <1>1. CASE CreateLoad(p) \/ CreateAgain(p) \/ CreateMarked(p) \/ CreateChmod(p)
    BY <1>1, <1>v DEF CreateLoad, CreateAgain, CreateMarked, CreateChmod
  <1>2. CASE CreateUnmount(p) \/ CreateMount(p)
    BY <1>2, <1>v DEF CreateUnmount, CreateMount
  <1>3. CASE CreateMkdir(p) \/ CreateMarker(p) \/ CreateWrite(p)
    BY <1>3, <1>v DEF CreateMkdir, CreateMarker, CreateWrite
  <1>4. CASE CreateEnd(p) \/ CreateStore(p)
    BY <1>4, <1>v DEF CreateEnd, CreateStore
  <1> QED BY <1>1, <1>2, <1>3, <1>4

(* ... those of DeleteVolume do, ...                                       *)
LEMMA DeleteTypeOK ==
  ASSUME TypeOK, LockOK, NEW p \in Proc, DeleteVolume(p)
  PROVE  TypeOK'
  <1> USE DEF TypeOK, Location, Locked, Goto, End, Fail, Deleting, DeleteTries, lockVars, server, kubernetes
  <1>v. volumeID(pvOf[p]) \in Id
    BY DEF volumeID, Id
  <1>1. CASE DeleteFind(p) \/ DeleteForget(p)
    BY <1>1, <1>v DEF DeleteFind, DeleteForget
  <1>2. CASE DeleteUnmount(p) \/ DeleteMount(p) \/ DeleteEnd(p)
    BY <1>2, <1>v DEF DeleteUnmount, DeleteMount, DeleteEnd
  <1>3. CASE DeleteRemove(p)
    BY <1>3, <1>v DEF DeleteRemove
  <1> QED BY <1>1, <1>2, <1>3 DEF DeleteVolume

(* ... and so do the lock's: no count falls below zero.                    *)
LEMMA LockTypeOK ==
  ASSUME TypeOK, LockOK, CountOK, NEW p \in Proc,
         LockRefer(p) \/ LockAcquire(p) \/ LockRelease(p) \/ LockForget(p)
  PROVE  TypeOK'
  <1> USE DEF TypeOK, Location, Locked, Goto, server, kubernetes
  <1>v. pc[p] # "idle" => pvOf[p] \in Pv
    BY DEF LockOK
  <1>l. pc[p] \in Refers => lockOf[p] \in Lock
    BY DEF LockOK
  <1>1. CASE LockRefer(p)
    BY <1>1, <1>v, NasAssumption DEF LockRefer
  <1>2. CASE LockAcquire(p) \/ LockRelease(p)
    BY <1>2, <1>l DEF LockAcquire, LockRelease, Refers
  <1>3. CASE LockForget(p)
    <2>1. lockOf[p] \in Lock /\ references[lockOf[p]] > 0
      <3>1. lockOf[p] \in Lock
        BY <1>3, <1>l DEF LockForget, Refers
      <3>2. Users(lockOf[p]) \in SUBSET Proc /\ p \in Users(lockOf[p])
        BY DEF Users
      <3>3. Cardinality(Users(lockOf[p])) > 0
        BY <3>2, UsersCount
      <3> QED BY <3>1, <3>3 DEF CountOK
    <2>2. references' \in [Lock -> Nat]
      BY <1>3, <2>1 DEF LockForget
    <2> QED BY <1>3, <1>v, <2>2 DEF LockForget, Answered
  <1> QED BY <1>1, <1>2, <1>3

----------------------------------------------------------------------------
(* The table of locks.                                                     *)

OthersKept(p) == \A q \in Proc : q # p => pc'[q] = pc[q] /\ pvOf'[q] = pvOf[q]

(* What a step that is not the lock's does with it: nothing.               *)
LockKept(p) ==
    /\ OthersKept(p) /\ UNCHANGED lockVars
    /\ pc'[p] \in Refers <=> pc[p] \in Refers
    /\ pc'[p] \in Locked => pc[p] \in Locked
    /\ pc[p] \in Refers => pvOf'[p] = pvOf[p]
    /\ pc'[p] # "idle" => pvOf'[p] \in Pv

(* Such a step keeps the table in order.                                   *)
LEMMA KeptLockOK ==
  ASSUME LockOK, CountOK, NEW p \in Proc, LockKept(p)
  PROVE  LockOK' /\ CountOK'
  <1>1. LockOK'
    BY DEF LockOK, LockKept, OthersKept, lockVars
  <1>2. CountOK'
    BY DEF CountOK, Users, LockKept, lockVars
  <1> QED BY <1>1, <1>2

(* The steps of CreateVolume between the lock's are such steps ...         *)
LEMMA CreateLockKept ==
  ASSUME TypeOK, LockOK, NEW p \in Proc,
         \/ CreateLoad(p) \/ CreateAgain(p) \/ CreateMarked(p) \/ CreateUnmount(p)
         \/ CreateMount(p) \/ CreateMkdir(p) \/ CreateMarker(p) \/ CreateWrite(p) \/ CreateChmod(p)
         \/ CreateEnd(p) \/ CreateStore(p)
  PROVE  LockKept(p)
  <1> USE DEF TypeOK, Refers, Locked, Goto, End, Fail, Creating, Tries, lockVars, LockKept, OthersKept
  <1>v. pc[p] # "idle" => pvOf[p] \in Pv
    BY DEF LockOK
  <1>1. CASE CreateLoad(p) \/ CreateAgain(p) \/ CreateMarked(p) \/ CreateChmod(p)
    BY <1>1, <1>v DEF CreateLoad, CreateAgain, CreateMarked, CreateChmod
  <1>2. CASE CreateUnmount(p) \/ CreateMount(p) \/ CreateMkdir(p)
    BY <1>2, <1>v DEF CreateUnmount, CreateMount, CreateMkdir
  <1>3. CASE CreateMarker(p) \/ CreateWrite(p) \/ CreateEnd(p) \/ CreateStore(p)
    BY <1>3, <1>v DEF CreateMarker, CreateWrite, CreateEnd, CreateStore
  <1> QED BY <1>1, <1>2, <1>3

(* ... as are those of DeleteVolume and the ends of a request.             *)
LEMMA DeleteLockKept ==
  ASSUME TypeOK, LockOK, NEW p \in Proc,
         DeleteVolume(p) \/ Answer(p) \/ \E v \in Pv : Create(p, v) \/ Delete(p, v)
  PROVE  LockKept(p)
  <1> USE DEF TypeOK, Refers, Locked, Goto, End, Fail, Deleting, DeleteTries, lockVars, LockKept,
              OthersKept
  <1>v. pc[p] # "idle" => pvOf[p] \in Pv
    BY DEF LockOK
  <1>1. CASE DeleteFind(p) \/ DeleteUnmount(p) \/ DeleteMount(p)
    BY <1>1, <1>v DEF DeleteFind, DeleteUnmount, DeleteMount
  <1>2. CASE DeleteRemove(p) \/ DeleteEnd(p) \/ DeleteForget(p)
    BY <1>2, <1>v DEF DeleteRemove, DeleteEnd, DeleteForget
  <1>3. CASE Answer(p) \/ \E v \in Pv : Create(p, v) \/ Delete(p, v)
    BY <1>3 DEF Answer, Create, Delete
  <1> QED BY <1>1, <1>2, <1>3 DEF DeleteVolume

(* A request refers to its volume's lock, or makes one nobody refers to.   *)
LEMMA ReferLockOK ==
  ASSUME TypeOK, LockOK, CountOK, NEW p \in Proc, LockRefer(p)
  PROVE  LockOK' /\ CountOK'
  <1>1. pc[p] = "cRefer" /\ pvOf[p] \in Pv /\ lockOf[p] = NoLock
    BY DEF LockRefer, LockOK, Refers, Locked
  <1>2. PICK l \in Lock :
           /\ IF locks[pvOf[p]] # NoLock
              THEN l = locks[pvOf[p]] /\ references' = [references EXCEPT ![l] = @ + 1] /\ UNCHANGED holder
              ELSE /\ \A q \in Proc : lockOf[q] # l
                   /\ references' = [references EXCEPT ![l] = 1]
                   /\ holder' = [holder EXCEPT ![l] = NoProc]
           /\ locks' = [locks EXCEPT ![pvOf[p]] = l]
           /\ lockOf' = [lockOf EXCEPT ![p] = l]
    BY DEF LockRefer
  <1>3. /\ pc'[p] = "cLock" /\ pvOf' = pvOf /\ lockOf'[p] = l /\ locks'[pvOf[p]] = l
        /\ \A q \in Proc : q # p => pc'[q] = pc[q] /\ lockOf'[q] = lockOf[q]
    BY <1>1, <1>2 DEF LockRefer, Goto, TypeOK
  <1>4. l # NoLock
    BY NasAssumption
  <1>5. LockOK'
    <2>1. ASSUME NEW q \in Proc, q # p, lockOf[q] # NoLock
          PROVE  locks'[pvOf[q]] = lockOf[q] /\ holder'[lockOf[q]] = holder[lockOf[q]]
      <3>1. locks[pvOf[q]] = lockOf[q] /\ pvOf[q] \in Pv /\ lockOf[q] \in Lock
        BY <2>1 DEF LockOK, Refers, Locked, TypeOK
      <3>2. CASE locks[pvOf[p]] # NoLock
        BY <1>1, <1>2, <3>1, <3>2 DEF TypeOK
      <3>3. CASE locks[pvOf[p]] = NoLock
        <4>1. pvOf[q] # pvOf[p]
          BY <2>1, <3>1, <3>3
        <4>2. lockOf[q] # l
          BY <1>2, <3>3
        <4> QED BY <1>2, <3>1, <3>3, <4>1, <4>2 DEF TypeOK
      <3> QED BY <3>2, <3>3
    <2>2. \A q \in Proc : pc[q] \in Locked => lockOf[q] # NoLock
      BY DEF LockOK, Refers
    <2> QED BY <1>1, <1>3, <1>4, <2>1, <2>2 DEF LockOK, Refers, Locked
  <1>6. CountOK'
    <2>1. Users(l)' = Users(l) \union {p} /\ p \notin Users(l)
      BY <1>1, <1>3, <1>4 DEF Users
    <2>2. \A k \in Lock : k # l => Users(k)' = Users(k)
      BY <1>1, <1>3, NasAssumption DEF Users
    <2>3. Cardinality(Users(l)') = Cardinality(Users(l)) + 1
      BY <2>1, UsersCount DEF Users
    <2>4. references'[l] = Cardinality(Users(l)')
      <3>1. CASE locks[pvOf[p]] # NoLock
        BY <1>2, <2>3, <3>1 DEF CountOK, TypeOK
      <3>2. CASE locks[pvOf[p]] = NoLock
        <4>1. Users(l) = {}
          BY <1>2, <3>2 DEF Users
        <4> QED BY <1>2, <2>3, <3>2, <4>1, FS_EmptySet DEF TypeOK
      <3> QED BY <3>1, <3>2
    <2>5. \A k \in Lock : k # l => references'[k] = references[k]
      BY <1>2 DEF TypeOK
    <2>6. \A k \in Lock : references'[k] = Cardinality(Users(k)')
      BY <2>2, <2>4, <2>5 DEF CountOK
    <2> QED BY <2>6 DEF CountOK, Users
  <1> QED BY <1>5, <1>6

(* The mutex is taken from nobody, and given back by who has it.           *)
LEMMA MutexLockOK ==
  ASSUME TypeOK, LockOK, CountOK, NEW p \in Proc, LockAcquire(p) \/ LockRelease(p)
  PROVE  LockOK' /\ CountOK'
  <1>1. /\ lockOf[p] \in Lock /\ pc[p] \in Refers
        /\ \/ pc'[p] = "cAgain" /\ holder'[lockOf[p]] = p /\ holder[lockOf[p]] = NoProc
           \/ pc'[p] = "cForget" /\ holder[lockOf[p]] = p
    BY DEF LockAcquire, LockRelease, LockOK, Refers, Locked, Goto, TypeOK
  <1>2. /\ OthersKept(p) /\ pvOf' = pvOf /\ UNCHANGED <<lockOf, locks, references>>
        /\ \A l \in Lock : l # lockOf[p] => holder'[l] = holder[l]
    BY <1>1 DEF LockAcquire, LockRelease, Goto, TypeOK, OthersKept
  <1>3. ASSUME NEW q \in Proc, q # p, pc[q] \in Locked
        PROVE  holder'[lockOf[q]] = q
    <2>1. holder[lockOf[q]] = q /\ lockOf[q] \in Lock
      BY <1>3 DEF LockOK, Refers, TypeOK
    <2>2. lockOf[q] # lockOf[p]
      BY <1>1, <1>3, <2>1, NasAssumption
    <2> QED BY <1>2, <2>1, <2>2
  <1>4. LockOK'
    BY <1>1, <1>2, <1>3 DEF LockOK, OthersKept, Refers, Locked
  <1>5. CountOK'
    BY <1>2 DEF CountOK, Users
  <1> QED BY <1>4, <1>5

(* The last user of a lock drops it from the table; an earlier one does    *)
(* not.                                                                    *)
LEMMA ForgetLockOK ==
  ASSUME TypeOK, LockOK, CountOK, NEW p \in Proc, LockForget(p)
  PROVE  LockOK' /\ CountOK'
  <1>0. PICK l \in Lock : l = lockOf[p]
    BY DEF LockForget, LockOK, Refers, TypeOK
  <1>1. pc[p] = "cForget" /\ locks[pvOf[p]] = l /\ pvOf[p] \in Pv
    BY <1>0, NasAssumption DEF LockForget, LockOK
  <1>2. /\ pc'[p] = "ret" /\ OthersKept(p) /\ pvOf' = pvOf /\ holder' = holder
        /\ lockOf'[p] = NoLock
        /\ \A q \in Proc : q # p => lockOf'[q] = lockOf[q]
        /\ locks' = IF references[l] = 1 THEN [locks EXCEPT ![pvOf[p]] = NoLock] ELSE locks
        /\ references' = [references EXCEPT ![l] = @ - 1]
    BY <1>0 DEF LockForget, Answered, TypeOK, OthersKept
  <1>3. Users(l) \in SUBSET Proc /\ p \in Users(l)
    BY <1>0 DEF Users
  <1>4. ASSUME NEW q \in Proc, q # p, lockOf[q] # NoLock
        PROVE  locks'[pvOf[q]] = lockOf[q]
    <2>1. locks[pvOf[q]] = lockOf[q]
      BY <1>4 DEF LockOK
    <2>2. CASE references[l] = 1
      <3>1. Users(l) = {p}
        <4>1. Cardinality(Users(l)) = 1
          BY <2>2 DEF CountOK
        <4> QED BY <1>3, <4>1, UsersCount
      <3>2. lockOf[q] # l
        BY <1>4, <3>1 DEF Users
      <3>3. pvOf[q] # pvOf[p]
        BY <1>1, <2>1, <3>2
      <3> QED BY <1>2, <2>1, <2>2, <3>3 DEF TypeOK
    <2>3. CASE references[l] # 1
      BY <1>2, <2>1, <2>3
    <2> QED BY <2>2, <2>3
  <1>5. LockOK'
    BY <1>1, <1>2, <1>4 DEF LockOK, OthersKept, Refers, Locked
  <1>6. CountOK'
    <2>0. l # NoLock
      BY NasAssumption
    <2>1. Users(l)' = Users(l) \ {p}
      BY <1>2, <2>0 DEF Users
    <2>2. \A k \in Lock : k # l => Users(k)' = Users(k)
      BY <1>0, <1>2, NasAssumption DEF Users
    <2>3. Cardinality(Users(l) \ {p}) = Cardinality(Users(l)) - 1
      BY <1>3, UsersCount
    <2>4. references'[l] = references[l] - 1 /\ \A k \in Lock : k # l => references'[k] = references[k]
      BY <1>1, <1>2 DEF TypeOK
    <2>5. \A k \in Lock : references'[k] = Cardinality(Users(k)')
      BY <1>1, <2>1, <2>2, <2>3, <2>4 DEF CountOK
    <2> QED BY <2>5 DEF CountOK, Users
  <1> QED BY <1>5, <1>6

----------------------------------------------------------------------------
(* Who has the mutex of a volume's lock is alone with the volume.          *)
LEMMA MutexExcludes == LockOK => CreationExclusive
  BY DEF LockOK, CreationExclusive, Refers

(* The mount of a volume's export is undone by who makes the volume only.  *)
LEMMA NextMadeInExport ==
  ASSUME IInv, [Next]_vars
  PROVE  MadeInExport'
  <1>t. TypeOK /\ LockOK /\ MadeInExport /\ CreationExclusive
    BY MutexExcludes DEF IInv
  <1>same. ASSUME NEW p \in Proc, OthersKept(p), createMounts \subseteq createMounts', pc'[p] \notin Making
           PROVE  MadeInExport'
    BY <1>same, <1>t DEF MadeInExport, OthersKept, Making
  <1>mount. ASSUME NEW p \in Proc, OthersKept(p), pc[p] \in Locked,
                   createMounts \ {pvOf[p]} \subseteq createMounts', pc'[p] \notin Making
            PROVE  MadeInExport'
    <2>1. \A q \in Proc : q # p /\ pc[q] \in Making => pvOf[q] # pvOf[p]
      BY <1>mount, <1>t DEF CreationExclusive, Making, Locked
    <2> QED BY <1>mount, <1>t, <2>1 DEF MadeInExport, OthersKept, Making
  <1>1. ASSUME NEW p \in Proc,
               CreateUnmount(p) \/ CreateEnd(p)
        PROVE  MadeInExport'
    <2>1. OthersKept(p) /\ pc[p] \in Locked /\ createMounts \ {pvOf[p]} \subseteq createMounts'
          /\ pc'[p] \notin Making
      BY <1>1, <1>t DEF CreateUnmount, CreateEnd, Goto, End, Fail, TypeOK, OthersKept, Locked, Making
    <2> QED BY <2>1, <1>mount
  <1>2. ASSUME NEW p \in Proc, CreateMount(p)
        PROVE  MadeInExport'
    <2>1. /\ OthersKept(p) /\ pvOf' = pvOf /\ createMounts \subseteq createMounts'
          /\ pc'[p] = "cEnd" \/ (pc'[p] = "cMkdir" /\ pvOf[p] \in createMounts')
      BY <1>2, <1>t DEF CreateMount, Goto, End, Fail, TypeOK, OthersKept
    <2> QED BY <2>1, <1>t DEF MadeInExport, OthersKept
  <1>3. ASSUME NEW p \in Proc, CreateMkdir(p) \/ CreateMarker(p) \/ CreateWrite(p) \/ CreateChmod(p)
        PROVE  MadeInExport'
    <2>1. OthersKept(p) /\ pvOf' = pvOf /\ createMounts' = createMounts /\ pc[p] \in Making
      BY <1>3, <1>t DEF CreateMkdir, CreateMarker, CreateWrite, CreateChmod, Goto, End, Fail, Tries,
                        TypeOK, OthersKept, Making
    <2> QED BY <2>1, <1>t DEF MadeInExport, OthersKept, Making
  <1>4. ASSUME NEW p \in Proc,
               \/ CreateLoad(p) \/ CreateAgain(p) \/ CreateMarked(p) \/ CreateStore(p)
               \/ LockRefer(p) \/ LockAcquire(p) \/ LockRelease(p) \/ LockForget(p)
        PROVE  MadeInExport'
    <2>1. OthersKept(p) /\ createMounts' = createMounts /\ pc'[p] \notin Making
      BY <1>4, <1>t DEF CreateLoad, CreateAgain, CreateMarked, CreateStore, LockRefer, LockAcquire,
                        LockRelease, LockForget, Answered, Goto, End, Fail, Tries, TypeOK, OthersKept, Making
    <2> QED BY <2>1, <1>same
  <1>5. ASSUME NEW p \in Proc, DeleteVolume(p)
        PROVE  MadeInExport'
    <2>1. OthersKept(p) /\ createMounts' = createMounts /\ pc'[p] \notin Making
      BY <1>5, <1>t DEF DeleteVolume, DeleteFind, DeleteUnmount, DeleteMount, DeleteRemove, DeleteEnd,
                        DeleteForget, Goto, End, Fail, Deleting, DeleteTries, TypeOK, OthersKept, Making
    <2> QED BY <2>1, <1>same
  <1>6. ASSUME NEW p \in Proc, Answer(p) \/ \E v \in Pv : Create(p, v) \/ Delete(p, v)
        PROVE  MadeInExport'
    <2>1. OthersKept(p) /\ createMounts' = createMounts /\ pc'[p] \notin Making
      BY <1>6, <1>t DEF Answer, Create, Delete, TypeOK, OthersKept, Making
    <2> QED BY <2>1, <1>same
  <1>7. CASE Restart
    BY <1>7 DEF Restart, MadeInExport
  <1>8. CASE UNCHANGED vars
    BY <1>8, <1>t DEF vars, handlers, MadeInExport
  <1> QED
    BY <1>1, <1>2, <1>3, <1>4, <1>5, <1>6, <1>7, <1>8 DEF Next, Handle, CreateVolume

(* The inductive invariant is kept by every step ...                       *)
LEMMA NextIInv == IInv /\ [Next]_vars => IInv'
  <1> SUFFICES ASSUME IInv, [Next]_vars PROVE IInv'
    OBVIOUS
  <1>t. TypeOK /\ LockOK /\ CountOK
    BY DEF IInv
  <1>m. MadeInExport'
    BY NextMadeInExport
  <1> SUFFICES TypeOK' /\ LockOK' /\ CountOK'
    BY <1>m DEF IInv
  <1>1. ASSUME NEW p \in Proc,
               \/ CreateLoad(p) \/ CreateAgain(p) \/ CreateMarked(p) \/ CreateUnmount(p)
               \/ CreateMount(p) \/ CreateMkdir(p) \/ CreateMarker(p) \/ CreateWrite(p) \/ CreateChmod(p)
               \/ CreateEnd(p) \/ CreateStore(p)
        PROVE  TypeOK' /\ LockOK' /\ CountOK'
    BY <1>1, <1>t, CreateTypeOK, CreateLockKept, KeptLockOK
  <1>2. ASSUME NEW p \in Proc, LockRefer(p) \/ LockAcquire(p) \/ LockRelease(p) \/ LockForget(p)
        PROVE  TypeOK' /\ LockOK' /\ CountOK'
    BY <1>2, <1>t, LockTypeOK, ReferLockOK, MutexLockOK, ForgetLockOK
  <1>3. ASSUME NEW p \in Proc, DeleteVolume(p)
        PROVE  TypeOK' /\ LockOK' /\ CountOK'
    BY <1>3, <1>t, DeleteTypeOK, DeleteLockKept, KeptLockOK
  <1>4. ASSUME NEW p \in Proc, Answer(p) \/ \E v \in Pv : Create(p, v) \/ Delete(p, v)
        PROVE  TypeOK' /\ LockOK' /\ CountOK'
    <2>1. TypeOK'
      BY <1>4, <1>t DEF Answer, Create, Delete, TypeOK, Location, lockVars, server, kubernetes
    <2> QED BY <1>4, <1>t, <2>1, DeleteLockKept, KeptLockOK
  <1>5. CASE Restart
    <2>1. TypeOK'
      BY <1>5, <1>t DEF Restart, TypeOK, Location, server, kubernetes
    <2>2. LockOK'
      BY <1>5 DEF Restart, LockOK, Refers, Locked
    <2>3. \A l \in Lock : Users(l)' = {}
      BY <1>5, NasAssumption DEF Restart, Users
    <2>4. CountOK'
      BY <1>5, <2>3, FS_EmptySet DEF Restart, CountOK
    <2> QED BY <2>1, <2>2, <2>4
  <1>6. CASE UNCHANGED vars
    BY <1>6, <1>t DEF vars, handlers, lockVars, server, kubernetes, TypeOK, LockOK, CountOK, Users
  <1> QED BY <1>1, <1>2, <1>3, <1>4, <1>5, <1>6 DEF Next, Handle, CreateVolume

(* ... and so holds always.                                                *)
LEMMA AlwaysIInv == Spec => []IInv
  BY InitIInv, NextIInv, PTL DEF Spec

----------------------------------------------------------------------------
(* The volumes Kubernetes has been answered, on an export that is "/".     *)

Creates == {"cLoad", "cRefer", "cLock", "cForget"} \union Locked
Removes == {"dUnmount", "dMount", "dRemove"}

(* A request that may answer, or store, that its volume is made has seen   *)
(* the marker; what is removed is an old volume Kubernetes has given up.   *)
KeptOf(p) ==
    /\ pc[p] \in Creates => pvOf[p] \in Pv \ Legacy
    /\ pc[p] \in Removes => pvOf[p] \in Legacy
    /\ pc[p] \in Removes \union {"dFind"} /\ pvOf[p] \in Legacy => pvOf[p] \notin volumes
    /\ \/ pc[p] \in {"cChmod", "cStore"}
       \/ pc[p] \in {"cEnd", "cUnlock", "cForget"} /\ res[p] = "ok"
       => directory[pvOf[p]] = "marked"

KeptInv ==
    RootExport =>
        /\ VolumesKept
        /\ \A v \in processedPvc : v \in Pv \ Legacy /\ directory[v] = "marked"
        /\ \A p \in Proc : KeptOf(p)

(* A step takes nothing from a volume that is made, and counts one as made *)
(* when it is.                                                             *)
DirectoriesKept ==
    \A v \in Pv : /\ v \in Legacy \intersect volumes => directory'[v] = directory[v]
                  /\ v \notin Legacy /\ directory[v] = "marked" => directory'[v] = "marked"
NewlyMade ==
    \A v \in (volumes' \ volumes) \union (processedPvc' \ processedPvc) :
        v \in Pv \ Legacy /\ directory'[v] = "marked"

(* A step of one request that keeps its own part keeps all.                *)
LEMMA KeptByStep ==
  ASSUME TypeOK, KeptInv, RootExport, NEW p \in Proc, OthersKept(p),
         \A q \in Proc : q # p => res'[q] = res[q],
         DirectoriesKept, NewlyMade, KeptOf(p)'
  PROVE  KeptInv'
  <1>1. VolumesKept'
    BY DEF VolumesKept, KeptInv, DirectoriesKept, NewlyMade, TypeOK
  <1>2. \A v \in processedPvc' : v \in Pv \ Legacy /\ directory'[v] = "marked"
    BY DEF KeptInv, DirectoriesKept, NewlyMade
  <1>3. ASSUME NEW q \in Proc, q # p
        PROVE  KeptOf(q)'
    <2>1. pc'[q] = pc[q] /\ pvOf'[q] = pvOf[q] /\ res'[q] = res[q] /\ KeptOf(q)
      BY <1>3 DEF OthersKept, KeptInv
    <2>2. pvOf[q] \in Legacy /\ pvOf[q] \notin volumes => pvOf[q] \notin volumes'
      BY DEF NewlyMade
    <2>3. pc[q] \in Creates => (directory[pvOf[q]] = "marked" => directory'[pvOf[q]] = "marked")
      BY <2>1 DEF KeptOf, DirectoriesKept
    <2> QED BY <2>1, <2>2, <2>3 DEF KeptOf, Creates, Locked
  <1> QED BY <1>1, <1>2, <1>3 DEF KeptInv

(* The steps of CreateVolume.                                             *)
LEMMA CreateKept ==
  ASSUME TypeOK, LockOK, KeptInv, RootExport, NEW p \in Proc,
         \/ CreateLoad(p) \/ CreateAgain(p) \/ CreateMarked(p) \/ CreateUnmount(p)
         \/ CreateMount(p) \/ CreateMkdir(p) \/ CreateMarker(p) \/ CreateWrite(p) \/ CreateChmod(p)
         \/ CreateEnd(p) \/ CreateStore(p)
  PROVE  KeptInv'
  <1>0. /\ pvOf[p] \in Pv /\ pc[p] \in Creates /\ KeptOf(p)
        /\ \A v \in processedPvc : v \in Pv \ Legacy /\ directory[v] = "marked"
    BY DEF LockOK, KeptInv, Creates, Locked, CreateLoad, CreateAgain, CreateMarked, CreateUnmount, CreateMount,
           CreateMkdir, CreateMarker, CreateWrite, CreateChmod, CreateEnd, CreateStore
  <1>1. OthersKept(p) /\ pvOf' = pvOf /\ \A q \in Proc : q # p => res'[q] = res[q]
    BY DEF TypeOK, OthersKept, Goto, End, Fail, CreateLoad, CreateAgain, CreateMarked, CreateUnmount,
           CreateMount, CreateMkdir, CreateMarker, CreateWrite, CreateChmod, CreateEnd, CreateStore
  <1> SUFFICES DirectoriesKept /\ NewlyMade /\ KeptOf(p)'
    BY <1>1, KeptByStep
  <1>k. pvOf[p] \in Pv \ Legacy
    BY <1>0 DEF KeptOf
  <1> USE DEF Goto, End, Fail, Creating, Tries, server, kubernetes
  <1>2. CASE CreateLoad(p) \/ CreateAgain(p) \/ CreateMarked(p) \/ CreateUnmount(p) \/ CreateMount(p)
    <2>1. directory' = directory /\ processedPvc' = processedPvc
      BY <1>2 DEF CreateLoad, CreateAgain, CreateMarked, CreateUnmount, CreateMount
    <2>2. pc'[p] = "cStore" \/ (pc'[p] = "cUnlock" /\ res'[p] = "ok") => directory[pvOf[p]] = "marked"
      BY <1>0, <1>2 DEF TypeOK, CreateLoad, CreateAgain, CreateMarked, CreateUnmount, CreateMount
    <2>3. pc'[p] \in {"ret", "cRefer", "cUnlock", "cMarked", "cStore", "cUnmount", "cMount", "cEnd", "cMkdir"}
          /\ (pc'[p] = "cEnd" => res'[p] = "err")
      BY <1>2 DEF TypeOK, CreateLoad, CreateAgain, CreateMarked, CreateUnmount, CreateMount
    <2>4. volumes' = volumes \/ (volumes' = volumes \union {pvOf[p]} /\ pvOf[p] \in processedPvc)
      BY <1>2 DEF CreateLoad, CreateAgain, CreateMarked, CreateUnmount, CreateMount
    <2>5. DirectoriesKept /\ NewlyMade
      BY <1>0, <2>1, <2>4 DEF DirectoriesKept, NewlyMade
    <2>6. KeptOf(p)'
      BY <1>1, <1>k, <2>1, <2>2, <2>3 DEF KeptOf, Creates, Removes, Locked
    <2> QED BY <2>5, <2>6
  <1>3. CASE \/ CreateMkdir(p) \/ CreateMarker(p) \/ CreateWrite(p)
             \/ CreateChmod(p) \/ CreateEnd(p) \/ CreateStore(p)
    <2>1. /\ volumes' = volumes
          /\ \A v \in Pv : v # pvOf[p] => directory'[v] = directory[v]
          /\ directory[pvOf[p]] = "marked" => directory'[pvOf[p]] = "marked"
      BY <1>0, <1>3 DEF TypeOK, CreateMkdir, CreateMarker, CreateWrite, CreateChmod, CreateEnd, CreateStore
    <2>2. /\ pc'[p] \in {"cEnd", "cMarker", "cChmod", "cWrite", "cUnlock", "cStore"}
          /\ pc'[p] = "cChmod" => directory'[pvOf[p]] = "marked"
      BY <1>0, <1>3 DEF TypeOK, CreateMkdir, CreateMarker, CreateWrite, CreateChmod, CreateEnd, CreateStore
    <2>3. /\ pc'[p] = "cEnd" /\ res'[p] = "ok" => directory'[pvOf[p]] = "marked"
          /\ pc'[p] = "cStore" => directory'[pvOf[p]] = "marked"
          /\ pc'[p] = "cUnlock" /\ res'[p] = "ok" => directory'[pvOf[p]] = "marked"
      BY <1>0, <1>3
      DEF TypeOK, KeptOf, CreateMkdir, CreateMarker, CreateWrite, CreateChmod, CreateEnd, CreateStore
    <2>4. \A v \in processedPvc' \ processedPvc : v = pvOf[p] /\ directory'[v] = "marked"
      BY <1>0, <1>3 DEF KeptOf, CreateMkdir, CreateMarker, CreateWrite, CreateChmod, CreateEnd, CreateStore
    <2>5. DirectoriesKept /\ NewlyMade
      BY <1>k, <2>1, <2>4 DEF DirectoriesKept, NewlyMade
    <2>6. KeptOf(p)'
      BY <1>1, <1>k, <2>2, <2>3 DEF KeptOf, Creates, Removes, Locked
    <2> QED BY <2>5, <2>6
  <1> QED BY <1>2, <1>3

(* The steps of the lock: the last answers what has been seen.             *)
LEMMA LockStepKept ==
  ASSUME TypeOK, LockOK, KeptInv, RootExport, NEW p \in Proc,
         LockRefer(p) \/ LockAcquire(p) \/ LockRelease(p) \/ LockForget(p)
  PROVE  KeptInv'
  <1>0. /\ pvOf[p] \in Pv \ Legacy /\ KeptOf(p)
    BY DEF KeptInv, KeptOf, Creates, Locked, LockOK, LockRefer, LockAcquire, LockRelease, LockForget
  <1>1. /\ OthersKept(p) /\ pvOf' = pvOf /\ res' = res
        /\ directory' = directory /\ processedPvc' = processedPvc
        /\ pc'[p] \in {"cLock", "cAgain", "cForget", "ret"}
        /\ pc'[p] = "cForget" => pc[p] = "cUnlock"
        /\ \/ volumes' = volumes
           \/ pc[p] = "cForget" /\ res[p] = "ok" /\ volumes' = volumes \union {pvOf[p]}
    BY DEF TypeOK, OthersKept, Goto, Answered, server, kubernetes, LockRefer, LockAcquire, LockRelease, LockForget
  <1>2. DirectoriesKept /\ NewlyMade
    BY <1>0, <1>1 DEF DirectoriesKept, NewlyMade, KeptOf
  <1>3. KeptOf(p)'
    BY <1>0, <1>1 DEF KeptOf, Creates, Removes, Locked
  <1> QED BY <1>1, <1>2, <1>3, KeptByStep

(* The steps of DeleteVolume: below "/" only an old volume is removed.     *)
LEMMA DeleteKept ==
  ASSUME TypeOK, LockOK, KeptInv, RootExport, NEW p \in Proc, DeleteVolume(p)
  PROVE  KeptInv'
  <1> USE DEF Goto, End, Fail, Deleting, DeleteTries, server, kubernetes
  <1>0. KeptOf(p) /\ pvOf[p] \in Pv
    BY DEF KeptInv, LockOK, DeleteVolume, DeleteFind, DeleteUnmount, DeleteMount, DeleteRemove, DeleteEnd,
           DeleteForget
  <1>1. /\ OthersKept(p) /\ pvOf' = pvOf /\ volumes' = volumes
        /\ \A q \in Proc : q # p => res'[q] = res[q]
        /\ processedPvc' \subseteq processedPvc
    BY DEF TypeOK, OthersKept, DeleteVolume, DeleteFind, DeleteUnmount, DeleteMount, DeleteRemove, DeleteEnd,
           DeleteForget
  <1>2. /\ pc'[p] \in Removes \union {"ret", "dEnd", "dForget"}
        /\ pc'[p] \in Removes => pvOf[p] \in Legacy /\ pvOf[p] \notin volumes
    BY <1>0 DEF TypeOK, KeptOf, Removes, DeleteVolume, DeleteFind, DeleteUnmount, DeleteMount, DeleteRemove,
                DeleteEnd, DeleteForget
  <1>3. DirectoriesKept
    <2>1. CASE DeleteRemove(p)
      <3>1. pvOf[p] \in Legacy /\ pvOf[p] \notin volumes /\ Named(pvOf[p]) = {pvOf[p]}
        BY <1>0, <2>1 DEF DeleteRemove, KeptOf, Removes, Named
      <3>2. \A v \in Pv : v # pvOf[p] => directory'[v] = directory[v]
        BY <2>1, <3>1 DEF DeleteRemove
      <3> QED BY <3>1, <3>2 DEF DirectoriesKept
    <2>2. CASE DeleteFind(p) \/ DeleteUnmount(p) \/ DeleteMount(p) \/ DeleteEnd(p) \/ DeleteForget(p)
      BY <2>2 DEF DirectoriesKept, DeleteFind, DeleteUnmount, DeleteMount, DeleteEnd, DeleteForget
    <2> QED BY <2>1, <2>2 DEF DeleteVolume
  <1>4. NewlyMade
    BY <1>1 DEF NewlyMade
  <1>5. KeptOf(p)'
    BY <1>1, <1>2 DEF KeptOf, Creates, Removes, Locked
  <1> QED BY <1>1, <1>3, <1>4, <1>5, KeptByStep

(* A request starts or is answered.  One to delete takes the volume from   *)
(* Kubernetes.                                                             *)
LEMMA RequestKept ==
  ASSUME TypeOK, LockOK, KeptInv, RootExport, NEW p \in Proc,
         Answer(p) \/ \E v \in Pv : Create(p, v) \/ Delete(p, v)
  PROVE  KeptInv'
  <1>1. /\ OthersKept(p) /\ directory' = directory /\ processedPvc' = processedPvc
        /\ volumes' \subseteq volumes /\ \A q \in Proc : q # p => res'[q] = res[q]
    BY DEF TypeOK, OthersKept, server, kubernetes, Answer, Create, Delete
  <1>2. DirectoriesKept /\ NewlyMade
    BY <1>1 DEF DirectoriesKept, NewlyMade
  <1>3. KeptOf(p)'
    <2>1. CASE Answer(p)
      BY <2>1 DEF Answer, TypeOK, KeptOf, Creates, Removes, Locked
    <2>2. ASSUME NEW v \in Pv, Create(p, v)
          PROVE  KeptOf(p)'
      BY <2>2, NasAssumption DEF Create, TypeOK, KeptOf, Creates, Removes, Locked
    <2>3. ASSUME NEW v \in Pv, Delete(p, v)
          PROVE  KeptOf(p)'
      BY <2>3 DEF Delete, TypeOK, KeptOf, Creates, Removes, Locked
    <2> QED BY <2>1, <2>2, <2>3
  <1> QED BY <1>1, <1>2, <1>3, KeptByStep

(* So it is kept by every step, a restart of the controller included.      *)
LEMMA NextKept == IInv /\ KeptInv /\ [Next]_vars => KeptInv'
  <1> SUFFICES ASSUME IInv, KeptInv, [Next]_vars PROVE KeptInv'
    OBVIOUS
  <1> SUFFICES ASSUME RootExport PROVE KeptInv'
    BY DEF KeptInv
  <1>t. TypeOK /\ LockOK
    BY DEF IInv
  <1>1. CASE Restart
    BY <1>1 DEF Restart, server, kubernetes, KeptInv, KeptOf, VolumesKept, Creates, Removes, Locked
  <1>2. CASE UNCHANGED vars
    BY <1>2 DEF vars, handlers, server, kubernetes, KeptInv, KeptOf, VolumesKept
  <1> QED BY <1>1, <1>2, <1>t, CreateKept, LockStepKept, DeleteKept, RequestKept DEF Next, Handle, CreateVolume

----------------------------------------------------------------------------
(* Every variable keeps its type; the count of a lock is a natural number. *)
THEOREM NasTypeCorrect == Spec => []TypeOK
  <1>1. IInv => TypeOK
    BY DEF IInv
  <1> QED BY <1>1, AlwaysIInv, PTL

(* One volume is made by one request at a time, however many wait for its  *)
(* lock while it is counted, dropped from the table and made anew.         *)
THEOREM OneMakerOfAVolume == Spec => []CreationExclusive
  <1>1. IInv => CreationExclusive
    BY MutexExcludes DEF IInv
  <1> QED BY <1>1, AlwaysIInv, PTL

(* What a request makes of a volume it makes in the mounted export: the    *)
(* requests for one volume share a mount point, and no other unmounts it.  *)
THEOREM MadeUnderTheMount == Spec => []MadeInExport
  <1>1. IInv => MadeInExport
    BY DEF IInv
  <1> QED BY <1>1, AlwaysIInv, PTL

(* A volume Kubernetes was told is made has its directory, with its marker *)
(* when this release made it, whatever failed or was cut by a restart on   *)
(* the way, on an export whose volumes are never removed: only who has     *)
(* seen the marker stores or answers that the volume is made.              *)
THEOREM MadeVolumesAreKept == Spec => []VolumesKept
  <1>1. Init => KeptInv
    BY NasAssumption DEF Init, KeptInv, KeptOf, VolumesKept, Creates, Removes, Locked
  <1>2. Spec => [](IInv /\ KeptInv)
    BY <1>1, NextKept, InitIInv, NextIInv, PTL DEF Spec
  <1>3. KeptInv => VolumesKept
    BY DEF KeptInv, VolumesKept
  <1> QED BY <1>2, <1>3, PTL
=============================================================================
