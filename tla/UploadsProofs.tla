---------------------------- MODULE UploadsProofs ----------------------------
(***************************************************************************)
(* Proofs about PackageLocks and Uploads, for any sets of users, uploads   *)
(* and deletions and any number of slots.  Of the locks: LocksInv is       *)
(* inductive, and with it the files are whole while a token is out, one    *)
(* deletion runs, and locks and deletion together implement                *)
(* GuardedResource.  Of the uploads: every behaviour of theirs is one of   *)
(* PackageLocks, so what is proved there holds here, and the counter of    *)
(* free slots keeps the number of streams below its limit.                 *)
(***************************************************************************)
EXTENDS Uploads, FiniteSetTheorems, TLAPS

-----------------------------------------------------------------------------
(* The locks. *)

USE DEF Threads, UserPCs, DeletePCs, Goto, lockVars, diskVars, Continuing

LEMMA InitLocks == Init => LocksInv
BY ThreadAssumption
   DEF Init, LocksInv, TypeOK, OwnerInv, MarkInv, FolderInv, UnlockNeverThrows

-----------------------------------------------------------------------------
(* Each action keeps the invariant. *)

\* A token is only added before the mark.
LEMMA TryLockLocks ==
    ASSUME LocksInv, NEW u \in Users, TryLock(u)
    PROVE  LocksInv'
<1>1. TypeOK'
    BY ThreadAssumption DEF TryLock, LocksInv, TypeOK, OwnerInv, MarkInv
<1>2. OwnerInv'
    BY ThreadAssumption DEF TryLock, LocksInv, TypeOK, OwnerInv, MarkInv
<1>3. MarkInv'
    BY ThreadAssumption DEF TryLock, LocksInv, TypeOK, OwnerInv, MarkInv
<1>4. FolderInv'
    BY ThreadAssumption DEF TryLock, LocksInv, TypeOK, OwnerInv, MarkInv, FolderInv
<1>5. UnlockNeverThrows'
    BY ThreadAssumption DEF TryLock, LocksInv, TypeOK, OwnerInv, MarkInv, UnlockNeverThrows
<1>6. QED
    BY <1>1, <1>2, <1>3, <1>4, <1>5 DEF LocksInv

\* Entering and leaving the registry's lock.
LEMMA EnterSaveLocks ==
    ASSUME LocksInv, NEW u \in Users, EnterSave(u)
    PROVE  LocksInv'
<1>1. TypeOK'
    BY ThreadAssumption DEF EnterSave, LocksInv, TypeOK, OwnerInv, MarkInv
<1>2. OwnerInv'
    BY ThreadAssumption DEF EnterSave, LocksInv, TypeOK, OwnerInv, MarkInv
<1>3. MarkInv'
    BY ThreadAssumption DEF EnterSave, LocksInv, TypeOK, OwnerInv, MarkInv
<1>4. FolderInv'
    BY ThreadAssumption DEF EnterSave, LocksInv, TypeOK, OwnerInv, MarkInv, FolderInv
<1>5. UnlockNeverThrows'
    BY ThreadAssumption DEF EnterSave, LocksInv, TypeOK, OwnerInv, MarkInv, UnlockNeverThrows
<1>6. QED
    BY <1>1, <1>2, <1>3, <1>4, <1>5 DEF LocksInv

LEMMA EndSaveLocks ==
    ASSUME LocksInv, NEW u \in Users, EndSave(u)
    PROVE  LocksInv'
<1>1. TypeOK'
    BY ThreadAssumption DEF EndSave, LocksInv, TypeOK, OwnerInv, MarkInv
<1>2. OwnerInv'
    BY ThreadAssumption DEF EndSave, LocksInv, TypeOK, OwnerInv, MarkInv
<1>3. MarkInv'
    BY ThreadAssumption DEF EndSave, LocksInv, TypeOK, OwnerInv, MarkInv
<1>4. FolderInv'
    BY ThreadAssumption DEF EndSave, LocksInv, TypeOK, OwnerInv, MarkInv, FolderInv
<1>5. UnlockNeverThrows'
    BY ThreadAssumption DEF EndSave, LocksInv, TypeOK, OwnerInv, MarkInv, UnlockNeverThrows
<1>6. QED
    BY <1>1, <1>2, <1>3, <1>4, <1>5 DEF LocksInv

\* The unlocking user has a token, so the completion is not set yet.
LEMMA UnlockLocks ==
    ASSUME LocksInv, NEW u \in Users, Unlock(u)
    PROVE  LocksInv'
<1>1. TypeOK'
    BY ThreadAssumption DEF Unlock, LocksInv, TypeOK, OwnerInv, MarkInv
<1>2. OwnerInv'
    BY ThreadAssumption DEF Unlock, LocksInv, TypeOK, OwnerInv, MarkInv
<1>3. MarkInv'
    BY ThreadAssumption DEF Unlock, LocksInv, TypeOK, OwnerInv, MarkInv
<1>4. FolderInv'
    BY ThreadAssumption DEF Unlock, LocksInv, TypeOK, OwnerInv, MarkInv, FolderInv
<1>5. UnlockNeverThrows'
    BY ThreadAssumption DEF Unlock, LocksInv, TypeOK, OwnerInv, MarkInv, UnlockNeverThrows
<1>6. QED
    BY <1>1, <1>2, <1>3, <1>4, <1>5 DEF LocksInv

LEMMA EnterDeleteLocks ==
    ASSUME LocksInv, NEW d \in Deleters, EnterDelete(d)
    PROVE  LocksInv'
<1>1. TypeOK'
    BY ThreadAssumption DEF EnterDelete, LocksInv, TypeOK, OwnerInv, MarkInv
<1>2. OwnerInv'
    BY ThreadAssumption DEF EnterDelete, LocksInv, TypeOK, OwnerInv, MarkInv
<1>3. MarkInv'
    BY ThreadAssumption DEF EnterDelete, LocksInv, TypeOK, OwnerInv, MarkInv
<1>4. FolderInv'
    BY ThreadAssumption DEF EnterDelete, LocksInv, TypeOK, OwnerInv, MarkInv, FolderInv
<1>5. UnlockNeverThrows'
    BY ThreadAssumption DEF EnterDelete, LocksInv, TypeOK, OwnerInv, MarkInv, UnlockNeverThrows
<1>6. QED
    BY <1>1, <1>2, <1>3, <1>4, <1>5 DEF LocksInv

LEMMA ReturnIfMarkedLocks ==
    ASSUME LocksInv, NEW d \in Deleters, ReturnIfMarked(d)
    PROVE  LocksInv'
<1>1. TypeOK'
    BY ThreadAssumption DEF ReturnIfMarked, LocksInv, TypeOK, OwnerInv, MarkInv
<1>2. OwnerInv'
    BY ThreadAssumption DEF ReturnIfMarked, LocksInv, TypeOK, OwnerInv, MarkInv
<1>3. MarkInv'
    BY ThreadAssumption DEF ReturnIfMarked, LocksInv, TypeOK, OwnerInv, MarkInv
<1>4. FolderInv'
    BY ThreadAssumption DEF ReturnIfMarked, LocksInv, TypeOK, OwnerInv, MarkInv, FolderInv
<1>5. UnlockNeverThrows'
    BY ThreadAssumption DEF ReturnIfMarked, LocksInv, TypeOK, OwnerInv, MarkInv, UnlockNeverThrows
<1>6. QED
    BY <1>1, <1>2, <1>3, <1>4, <1>5 DEF LocksInv

\* Before the mark nobody is past it.
LEMMA MarkForDeleteLocks ==
    ASSUME LocksInv, NEW d \in Deleters, MarkForDelete(d)
    PROVE  LocksInv'
<1>1. TypeOK'
    BY ThreadAssumption DEF MarkForDelete, LocksInv, TypeOK, OwnerInv, MarkInv
<1>2. OwnerInv'
    BY ThreadAssumption DEF MarkForDelete, LocksInv, TypeOK, OwnerInv, MarkInv
<1>3. MarkInv'
    BY ThreadAssumption DEF MarkForDelete, LocksInv, TypeOK, OwnerInv, MarkInv
<1>4. FolderInv'
    BY ThreadAssumption DEF MarkForDelete, LocksInv, TypeOK, OwnerInv, MarkInv, FolderInv
<1>5. UnlockNeverThrows'
    BY ThreadAssumption DEF MarkForDelete, LocksInv, TypeOK, OwnerInv, MarkInv, UnlockNeverThrows
<1>6. QED
    BY <1>1, <1>2, <1>3, <1>4, <1>5 DEF LocksInv

LEMMA NotifyDeletingLocks ==
    ASSUME LocksInv, NEW d \in Deleters, NotifyDeleting(d)
    PROVE  LocksInv'
<1>1. TypeOK'
    BY ThreadAssumption DEF NotifyDeleting, LocksInv, TypeOK, OwnerInv, MarkInv
<1>2. OwnerInv'
    BY ThreadAssumption DEF NotifyDeleting, LocksInv, TypeOK, OwnerInv, MarkInv
<1>3. MarkInv'
    BY ThreadAssumption DEF NotifyDeleting, LocksInv, TypeOK, OwnerInv, MarkInv
<1>4. FolderInv'
    BY ThreadAssumption DEF NotifyDeleting, LocksInv, TypeOK, OwnerInv, MarkInv, FolderInv
<1>5. UnlockNeverThrows'
    BY ThreadAssumption DEF NotifyDeleting, LocksInv, TypeOK, OwnerInv, MarkInv, UnlockNeverThrows
<1>6. QED
    BY <1>1, <1>2, <1>3, <1>4, <1>5 DEF LocksInv

LEMMA AwaitLocks ==
    ASSUME LocksInv, NEW d \in Deleters, Await(d)
    PROVE  LocksInv'
<1>1. TypeOK'
    BY ThreadAssumption DEF Await, LocksInv, TypeOK, OwnerInv, MarkInv
<1>2. OwnerInv'
    BY ThreadAssumption DEF Await, LocksInv, TypeOK, OwnerInv, MarkInv
<1>3. MarkInv'
    BY ThreadAssumption DEF Await, LocksInv, TypeOK, OwnerInv, MarkInv
<1>4. FolderInv'
    BY ThreadAssumption DEF Await, LocksInv, TypeOK, OwnerInv, MarkInv, FolderInv
<1>5. UnlockNeverThrows'
    BY ThreadAssumption DEF Await, LocksInv, TypeOK, OwnerInv, MarkInv, UnlockNeverThrows
<1>6. QED
    BY <1>1, <1>2, <1>3, <1>4, <1>5 DEF LocksInv

\* The thread that deletes is the only one past the mark, or runs the call that awaits.
LEMMA DeletePackageLocks ==
    ASSUME LocksInv, NEW t \in Threads, DeletePackage(t)
    PROVE  LocksInv'
<1>1. TypeOK'
    BY ThreadAssumption DEF DeletePackage, EndDelete, LocksInv, TypeOK, OwnerInv, MarkInv
<1>2. OwnerInv'
    BY ThreadAssumption DEF DeletePackage, EndDelete, LocksInv, TypeOK, OwnerInv, MarkInv
<1>3. MarkInv'
    BY ThreadAssumption DEF DeletePackage, EndDelete, LocksInv, TypeOK, OwnerInv, MarkInv
<1>4. FolderInv'
    BY ThreadAssumption DEF DeletePackage, EndDelete, LocksInv, TypeOK, OwnerInv, MarkInv, FolderInv
<1>5. UnlockNeverThrows'
    BY ThreadAssumption DEF DeletePackage, EndDelete, LocksInv, TypeOK, OwnerInv, MarkInv, UnlockNeverThrows
<1>6. QED
    BY <1>1, <1>2, <1>3, <1>4, <1>5 DEF LocksInv

LEMMA UpdateListsLocks ==
    ASSUME LocksInv, NEW t \in Threads, UpdateLists(t)
    PROVE  LocksInv'
<1>1. TypeOK'
    BY ThreadAssumption DEF UpdateLists, EndDelete, LocksInv, TypeOK, OwnerInv, MarkInv
<1>2. OwnerInv'
    BY ThreadAssumption DEF UpdateLists, EndDelete, LocksInv, TypeOK, OwnerInv, MarkInv
<1>3. MarkInv'
    BY ThreadAssumption DEF UpdateLists, EndDelete, LocksInv, TypeOK, OwnerInv, MarkInv
<1>4. FolderInv'
    BY ThreadAssumption DEF UpdateLists, EndDelete, LocksInv, TypeOK, OwnerInv, MarkInv, FolderInv
<1>5. UnlockNeverThrows'
    BY ThreadAssumption DEF UpdateLists, EndDelete, LocksInv, TypeOK, OwnerInv, MarkInv, UnlockNeverThrows
<1>6. QED
    BY <1>1, <1>2, <1>3, <1>4, <1>5 DEF LocksInv

\* A stuttering step.
LEMMA StutterLocks == ASSUME LocksInv, UNCHANGED vars PROVE LocksInv'
BY DEF vars, LocksInv, TypeOK, OwnerInv, MarkInv, FolderInv, UnlockNeverThrows

LEMMA StepLocks == ASSUME LocksInv, [Next]_vars PROVE LocksInv'
<1>1. CASE \E u \in Users : UserStep(u)
    BY <1>1, TryLockLocks, EnterSaveLocks, EndSaveLocks, UnlockLocks DEF UserStep
<1>2. CASE \E d \in Deleters : DeleteStep(d)
    BY <1>2, EnterDeleteLocks, ReturnIfMarkedLocks, MarkForDeleteLocks,
       NotifyDeletingLocks, AwaitLocks DEF DeleteStep
<1>3. CASE \E t \in Threads : DeletePackage(t) \/ UpdateLists(t)
    BY <1>3, DeletePackageLocks, UpdateListsLocks
<1>4. CASE UNCHANGED vars
    BY <1>4, StutterLocks
<1>5. QED
    BY <1>1, <1>2, <1>3, <1>4 DEF Next

-----------------------------------------------------------------------------
(* The theorems. *)

\* The inductive invariant of locks and deletion holds in every reachable
\* state, for any number of users of a package and of calls to delete it.
THEOREM LocksInvariant == Spec => []LocksInv
<1>1. Init => LocksInv
    BY InitLocks
<1>2. LocksInv /\ [Next]_vars => LocksInv'
    BY StepLocks
<1>3. QED
    BY <1>1, <1>2, PTL DEF Spec

\* No part of the folder is deleted while TryLock has a token out, whichever
\* thread DeletePackageAsync goes on.
THEOREM FolderWholeWhileLocked == Spec => []WholeWhileLocked
<1>1. LocksInv => WholeWhileLocked
    BY DEF LocksInv, TypeOK, OwnerInv, MarkInv, FolderInv, WholeWhileLocked
<1>2. QED
    BY <1>1, LocksInvariant, PTL

\* Unlock never meets a completion that is set already.
THEOREM UnlocksNeverThrow == Spec => []UnlockNeverThrows
<1>1. LocksInv => UnlockNeverThrows
    BY DEF LocksInv
<1>2. QED
    BY <1>1, LocksInvariant, PTL

\* However many calls of DeletePackageAsync meet, one of them deletes.
THEOREM OneDeletion == Spec => []OneDeletionRuns
<1>1. LocksInv => OneDeletionRuns
    BY ThreadAssumption DEF LocksInv, TypeOK, OwnerInv, MarkInv, OneDeletionRuns
<1>2. QED
    BY <1>1, LocksInvariant, PTL

\* What UpdateLists removes from the registry has no folder and no user left.
THEOREM UnregisteredAreGone == Spec => []UnregisteredIsGone
<1>1. LocksInv => UnregisteredIsGone
    BY DEF LocksInv, MarkInv, FolderInv, UnregisteredIsGone
<1>2. QED
    BY <1>1, LocksInvariant, PTL

\* TryLock, Unlock, MarkForDelete and DeletePackage are the operations of a
\* guarded resource, and every other step of the threads is a stutter of it.
THEOREM LocksImplementResource == Spec => ImplementsGuardedResource
<1> USE DEF Resource!Next, Resource!Acquire, Resource!Release, Resource!Doom,
            Resource!Destroy
<1>1. Init => Resource!Init
    BY DEF Init, Resource!Init
<1>2. ASSUME LocksInv, [Next]_vars
      PROVE  [Resource!Next]_<<tokens, isMarkedToDelete, folder # "there">>
    <2>1. ASSUME NEW u \in Users, UserStep(u)
          PROVE  \/ Resource!Acquire(u) \/ Resource!Release(u)
                 \/ UNCHANGED <<tokens, isMarkedToDelete, folder>>
        BY <1>2, <2>1 DEF UserStep, TryLock, EnterSave, EndSave, Unlock,
                          LocksInv, TypeOK, OwnerInv
    <2>2. ASSUME NEW d \in Deleters, DeleteStep(d)
          PROVE  Resource!Doom \/ UNCHANGED <<tokens, isMarkedToDelete, folder>>
        BY <1>2, <2>2 DEF DeleteStep, EnterDelete, ReturnIfMarked, MarkForDelete,
                          NotifyDeleting, Await
    <2>3. ASSUME NEW t \in Threads, DeletePackage(t)
          PROVE  Resource!Destroy
        BY <1>2, <2>3 DEF DeletePackage, LocksInv, MarkInv, FolderInv
    <2>4. ASSUME NEW t \in Threads, UpdateLists(t)
          PROVE  UNCHANGED <<tokens, isMarkedToDelete, folder>>
        BY <2>4 DEF UpdateLists
    <2>5. CASE UNCHANGED vars
        BY <2>5 DEF vars
    <2>6. QED
        BY <1>2, <2>1, <2>2, <2>3, <2>4, <2>5 DEF Next
<1>3. QED
    BY <1>1, <1>2, LocksInvariant, PTL DEF Spec, ImplementsGuardedResource, Resource!Spec

HIDE DEF Threads, UserPCs, DeletePCs, Goto, lockVars, diskVars, Continuing

-----------------------------------------------------------------------------
(* Uploads are users of the locks. *)

\* A step of the uploads is a step of the locks or leaves them alone.
LEMMA UploadStepIsLockStep ==
    ASSUME [UpNext]_upVars
    PROVE  [Next]_vars
<1>1. CASE UNCHANGED upVars
    BY <1>1 DEF upVars, vars
<1>2. ASSUME NEW u \in Uploads, Data(u) \/ UploadRuns(u) \/ ReturnToken(u)
      PROVE  [Next]_vars
    <2>1. CASE u \in Uploaders
        <3>1. u \in Users
            BY <2>1, UploadsAssumption
        <3>2. TryLock(u) => Next
            BY <3>1 DEF Next, UserStep
        <3>3. Unlock(u) => Next
            BY <3>1 DEF Next, UserStep
        <3>4. TryLock(u) \/ Unlock(u) \/ UNCHANGED vars
            BY <1>2, <2>1
               DEF Data, UploadRuns, ReturnToken, AllocateSlot, Choke, ObtainLock,
                   RefuseMarked, EnterPart, OpenFails, ReadPart, EndResponse,
                   Close, ReturnSlot
        <3>5. QED
            BY <3>2, <3>3, <3>4
    <2>2. CASE u \notin Uploaders
        BY <1>2, <2>2
           DEF Data, UploadRuns, ReturnToken, AllocateSlot, Choke, ObtainLock,
               RefuseMarked, EnterPart, OpenFails, ReadPart, EndResponse,
               Close, ReturnSlot
    <2>3. QED
        BY <2>1, <2>2
<1>3. CASE LockStep
    BY <1>3 DEF LockStep, Next
<1>4. QED
    BY <1>1, <1>2, <1>3 DEF UpNext

\* Uploads use the locks as PackageLocks says users do: what is proved of the
\* locks for any users holds of the program's uploads.
THEOREM UploadsUseLocks == UpSpec => Spec
<1>1. UpInit => Init
    BY DEF UpInit
<1>2. QED
    BY <1>1, UploadStepIsLockStep, PTL DEF UpSpec, Spec

\* The files of a package that is uploaded are there until the upload has closed
\* its stream, whoever deletes the package.
THEOREM UploadedFilesStay == UpSpec => []WholeWhileLocked
BY UploadsUseLocks, FolderWholeWhileLocked, PTL

-----------------------------------------------------------------------------
(* The counter of free slots. *)

LEMMA CardinalityMoves ==
    ASSUME NEW S, IsFiniteSet(S), NEW x
    PROVE  /\ IsFiniteSet(S \union {x}) /\ IsFiniteSet(S \ {x})
           /\ Cardinality(S) \in Nat
           /\ Cardinality(S \union {x}) = IF x \in S THEN Cardinality(S) ELSE Cardinality(S) + 1
           /\ Cardinality(S \ {x}) = IF x \in S THEN Cardinality(S) - 1 ELSE Cardinality(S)
BY FS_AddElement, FS_RemoveElement, FS_CardinalityType

\* What a change of stage does to the sets that are counted.
LEMMA StageMoves ==
    ASSUME stage \in [Uploads -> Stages], NEW u \in Uploads, NEW s \in Stages, Enter(u, s)
    PROVE  /\ stage' \in [Uploads -> Stages]
           /\ Granted' = IF s \in GrantedStages THEN Granted \union {u} ELSE Granted \ {u}
           /\ Choking' = IF s = "choked" THEN Choking \union {u} ELSE Choking \ {u}
           /\ Lost' = IF s \in LostStages THEN Lost \union {u} ELSE Lost \ {u}
           /\ u \in Granted <=> stage[u] \in GrantedStages
           /\ u \in Choking <=> stage[u] = "choked"
           /\ u \in Lost <=> stage[u] \in LostStages
BY DEF Enter, Granted, Choking, Lost

LEMMA CountedSetsFinite ==
    IsFiniteSet(Granted) /\ IsFiniteSet(Choking) /\ IsFiniteSet(Lost)
BY UploadsAssumption, FS_Subset DEF Granted, Choking, Lost, Uploads

\* Counts of the three sets after upload u went to stage s.
LEMMA CountsMove ==
    ASSUME SlotsInv, NEW u \in Uploads, NEW s \in Stages, Enter(u, s)
    PROVE  /\ stage' \in [Uploads -> Stages]
           /\ Cardinality(Granted) \in Nat /\ Cardinality(Choking) \in Nat
           /\ Cardinality(Lost) \in Nat
           /\ Cardinality(Granted') =
                Cardinality(Granted) + (IF s \in GrantedStages THEN 1 ELSE 0)
                                     - (IF stage[u] \in GrantedStages THEN 1 ELSE 0)
           /\ Cardinality(Choking') =
                Cardinality(Choking) + (IF s = "choked" THEN 1 ELSE 0)
                                     - (IF stage[u] = "choked" THEN 1 ELSE 0)
           /\ Cardinality(Lost') =
                Cardinality(Lost) + (IF s \in LostStages THEN 1 ELSE 0)
                                  - (IF stage[u] \in LostStages THEN 1 ELSE 0)
<1>1. /\ stage' \in [Uploads -> Stages]
      /\ Granted' = IF s \in GrantedStages THEN Granted \union {u} ELSE Granted \ {u}
      /\ Choking' = IF s = "choked" THEN Choking \union {u} ELSE Choking \ {u}
      /\ Lost' = IF s \in LostStages THEN Lost \union {u} ELSE Lost \ {u}
      /\ u \in Granted <=> stage[u] \in GrantedStages
      /\ u \in Choking <=> stage[u] = "choked"
      /\ u \in Lost <=> stage[u] \in LostStages
    BY StageMoves DEF SlotsInv
<1>2. /\ Cardinality(Granted) \in Nat
      /\ Cardinality(Granted \union {u}) =
            IF u \in Granted THEN Cardinality(Granted) ELSE Cardinality(Granted) + 1
      /\ Cardinality(Granted \ {u}) =
            IF u \in Granted THEN Cardinality(Granted) - 1 ELSE Cardinality(Granted)
    BY CountedSetsFinite, CardinalityMoves
<1>3. /\ Cardinality(Choking) \in Nat
      /\ Cardinality(Choking \union {u}) =
            IF u \in Choking THEN Cardinality(Choking) ELSE Cardinality(Choking) + 1
      /\ Cardinality(Choking \ {u}) =
            IF u \in Choking THEN Cardinality(Choking) - 1 ELSE Cardinality(Choking)
    BY CountedSetsFinite, CardinalityMoves
<1>4. /\ Cardinality(Lost) \in Nat
      /\ Cardinality(Lost \union {u}) =
            IF u \in Lost THEN Cardinality(Lost) ELSE Cardinality(Lost) + 1
      /\ Cardinality(Lost \ {u}) =
            IF u \in Lost THEN Cardinality(Lost) - 1 ELSE Cardinality(Lost)
    BY CountedSetsFinite, CardinalityMoves
<1>5. QED
    BY <1>1, <1>2, <1>3, <1>4

LEMMA SlotsInit == UpInit => SlotsInv
<1> SUFFICES ASSUME UpInit PROVE SlotsInv
    OBVIOUS
<1>1. Granted = {} /\ Choking = {} /\ Lost = {}
    BY DEF UpInit, Granted, Choking, Lost, GrantedStages, LostStages
<1>2. Cardinality({}) = 0
    BY FS_EmptySet
<1>3. QED
    BY <1>1, <1>2, UploadsAssumption
       DEF UpInit, SlotsInv, SlotsBalanced, UploadLimit, Stages

\* What an upload takes from the counter is what the sets gain.
LEMMA UploadKeepsSlots ==
    ASSUME SlotsInv, NEW u \in Uploads, Data(u) \/ UploadRuns(u) \/ ReturnToken(u)
    PROVE  SlotsInv'
<1> USE DEF Stages, GrantedStages, LostStages
<1>0. MaximumUploadsSlots \in Nat
    BY UploadsAssumption
<1>1. CASE Data(u)
    <2>1. Enter(u, "requested") /\ stage[u] = "idle" /\ uploadSlots' = uploadSlots
        BY <1>1 DEF Data
    <2>2. QED
        BY <2>1, <1>0, CountsMove DEF SlotsInv, SlotsBalanced, UploadLimit
<1>2. CASE AllocateSlot(u)
    <2>1. CASE uploadSlots - 1 <= 0
        <3>1. Enter(u, "choked") /\ stage[u] = "requested" /\ uploadSlots' = uploadSlots - 1
            BY <1>2, <2>1 DEF AllocateSlot
        <3>2. QED
            BY <3>1, <1>0, CountsMove DEF SlotsInv, SlotsBalanced, UploadLimit
    <2>2. CASE ~(uploadSlots - 1 <= 0)
        <3>1. Enter(u, "allocated") /\ stage[u] = "requested" /\ uploadSlots' = uploadSlots - 1
            BY <1>2, <2>2 DEF AllocateSlot
        <3>2. QED
            BY <3>1, <2>2, <1>0, CountsMove DEF SlotsInv, SlotsBalanced, UploadLimit
    <2>3. QED
        BY <2>1, <2>2
<1>3. CASE Choke(u)
    <2>1. Enter(u, "idle") /\ stage[u] = "choked" /\ uploadSlots' = uploadSlots + 1
        BY <1>3 DEF Choke
    <2>2. QED
        BY <2>1, <1>0, CountsMove DEF SlotsInv, SlotsBalanced, UploadLimit
<1>4. CASE ObtainLock(u)
    <2>1. Enter(u, "streaming") /\ stage[u] = "allocated" /\ uploadSlots' = uploadSlots
        BY <1>4 DEF ObtainLock
    <2>2. QED
        BY <2>1, <1>0, CountsMove DEF SlotsInv, SlotsBalanced, UploadLimit
<1>5. CASE RefuseMarked(u)
    <2>1. Enter(u, "refused") /\ stage[u] = "allocated" /\ uploadSlots' = uploadSlots
        BY <1>5 DEF RefuseMarked
    <2>2. QED
        BY <2>1, <1>0, CountsMove DEF SlotsInv, SlotsBalanced, UploadLimit
<1>6. CASE EnterPart(u) \/ ReadPart(u)
    <2>1. stage' = stage /\ uploadSlots' = uploadSlots
        BY <1>6 DEF EnterPart, ReadPart
    <2>2. QED
        BY <2>1 DEF SlotsInv, SlotsBalanced, UploadLimit, Granted, Choking, Lost
<1>7. CASE OpenFails(u) \/ EndResponse(u)
    <2>1. Enter(u, "closing") /\ stage[u] = "streaming" /\ uploadSlots' = uploadSlots
        BY <1>7 DEF OpenFails, EndResponse
    <2>2. QED
        BY <2>1, <1>0, CountsMove DEF SlotsInv, SlotsBalanced, UploadLimit
<1>8. CASE Close(u)
    <2>1. /\ Enter(u, "closed") \/ Enter(u, "lost")
          /\ stage[u] = "closing" /\ uploadSlots' = uploadSlots
        BY <1>8 DEF Close
    <2>2. CASE Enter(u, "closed")
        BY <2>1, <2>2, <1>0, CountsMove DEF SlotsInv, SlotsBalanced, UploadLimit
    <2>3. CASE Enter(u, "lost")
        BY <2>1, <2>3, <1>0, CountsMove DEF SlotsInv, SlotsBalanced, UploadLimit
    <2>4. QED
        BY <2>1, <2>2, <2>3
<1>9. CASE ReturnSlot(u)
    <2>1. Enter(u, "unlocking") /\ stage[u] = "closed" /\ uploadSlots' = uploadSlots + 1
        BY <1>9 DEF ReturnSlot
    <2>2. QED
        BY <2>1, <1>0, CountsMove DEF SlotsInv, SlotsBalanced, UploadLimit
<1>10. CASE ReturnToken(u)
    <2>1. Enter(u, "idle") /\ stage[u] = "unlocking" /\ uploadSlots' = uploadSlots
        BY <1>10 DEF ReturnToken
    <2>2. QED
        BY <2>1, <1>0, CountsMove DEF SlotsInv, SlotsBalanced, UploadLimit
<1>11. QED
    BY <1>1, <1>2, <1>3, <1>4, <1>5, <1>6, <1>7, <1>8, <1>9, <1>10 DEF UploadRuns

\* The inductive invariant of the counter, for any number of slots and uploads.
THEOREM SlotsInvariant == UpSpec => []SlotsInv
<1>1. ASSUME SlotsInv, [UpNext]_upVars PROVE SlotsInv'
    <2>1. CASE UNCHANGED <<uploadSlots, stage>>
        BY <1>1, <2>1 DEF SlotsInv, SlotsBalanced, UploadLimit, Granted, Choking, Lost
    <2>2. QED
        BY <1>1, <2>1, UploadKeepsSlots DEF UpNext, upVars
<1>2. QED
    BY SlotsInit, <1>1, PTL DEF UpSpec

\* Upload streams and lost slots together are always fewer than
\* MaximumUploadsSlots, however the atomic steps on the counter interleave.
THEOREM UploadsAreLimited == UpSpec => []UploadLimit
<1>1. SlotsInv => UploadLimit
    BY DEF SlotsInv
<1>2. QED
    BY SlotsInvariant, <1>1, PTL

\* Every slot is free, or on its way back, or was lost by a Close that threw or by
\* the refusal of a marked package, one slot each; marked or not, for any number of
\* uploads, no interleaving loses or invents another.
THEOREM SlotsAreBalanced == UpSpec => []SlotsBalanced
<1>1. SlotsInv => SlotsBalanced
    BY DEF SlotsInv
<1>2. QED
    BY SlotsInvariant, <1>1, PTL
=============================================================================
