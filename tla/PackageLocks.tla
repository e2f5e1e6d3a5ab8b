----------------------------- MODULE PackageLocks -----------------------------
(***************************************************************************)
(* Who may touch the files of one package, and when they are deleted:      *)
(* PackageLocks, its users (download slots, uploads, extraction,           *)
(* verification, the writing of the status file) and                       *)
(* PackageRegistry.DeletePackageAsync.                                     *)
(*                                                                         *)
(* deletedFinished completes inside lock (syncLock), and what              *)
(* DeletePackageAsync does after its await then runs there and then, on    *)
(* the thread that unlocked last and inside syncLock: the deletion of the  *)
(* folder and the wait for packagesLock.  The other way around,            *)
(* DeletePackageAsync takes syncLock inside packagesLock to mark.          *)
(***************************************************************************)
EXTENDS FiniteSets

CONSTANTS
    Users,      \* threads that use the package, one use at a time
    Deleters,   \* calls of DeletePackageAsync
    Null

ASSUME ThreadAssumption ==
    /\ Users \intersect Deleters = {}
    /\ Null \notin Users /\ Null \notin Deleters

Threads == Users \union Deleters

VARIABLES
    isMarkedToDelete,
    deletedFinished,    \* the task completion: "none", "pending", "completed"
    tokens,             \* the users whose token is in the set of tokens
    syncLock,           \* the thread inside lock (syncLock) across steps, or Null
    packagesLock,       \* the thread inside the registry's lock, or Null
    awaiting,           \* the call of DeletePackageAsync that awaits, or Null
    folder,             \* "there", "partial" after a failed deletion, "gone"
    registered,         \* the registry lists the package
    pc                  \* pc[t]: where thread t is

lockVars == <<isMarkedToDelete, deletedFinished, tokens, syncLock>>
diskVars == <<folder, registered>>
vars     == <<lockVars, packagesLock, awaiting, diskVars, pc>>

Init ==
    /\ isMarkedToDelete = FALSE
    /\ deletedFinished = "none"
    /\ tokens = {}
    /\ syncLock = Null /\ packagesLock = Null /\ awaiting = Null
    /\ folder = "there" /\ registered = TRUE
    /\ pc = [t \in Threads |-> "idle"]

Goto(t, label) == pc' = [pc EXCEPT ![t] = label]

-----------------------------------------------------------------------------
(* A use of the package. *)

\* Mutant: the mark is not looked at.
TryLockAlways(u) ==
    /\ pc[u] = "idle"
    /\ syncLock = Null
    /\ tokens' = tokens \union {u}
    /\ Goto(u, "using")
    /\ UNCHANGED <<isMarkedToDelete, deletedFinished, syncLock, packagesLock,
                   awaiting, folder, registered>>

\* TryLock; the data files are open only between this and Unlock.  A refused
\* user does nothing.
TryLock(u) ==
    /\ pc[u] = "idle"
    /\ syncLock = Null
    /\ ~isMarkedToDelete
    /\ tokens' = tokens \union {u}
    /\ Goto(u, "using")
    /\ UNCHANGED <<isMarkedToDelete, deletedFinished, syncLock, packagesLock,
                   awaiting, folder, registered>>

\* UpdateDownloadStatus, holding a token: it waits for the registry's lock ...
EnterSave(u) ==
    /\ pc[u] = "using"
    /\ packagesLock = Null
    /\ packagesLock' = u
    /\ Goto(u, "saving")
    /\ UNCHANGED <<lockVars, awaiting, diskVars>>

\* ... and leaves it once the file is written.
EndSave(u) ==
    /\ pc[u] = "saving"
    /\ packagesLock' = Null
    /\ Goto(u, "using")
    /\ UNCHANGED <<lockVars, awaiting, diskVars>>

\* Unlock.  The last token of a marked package sets the completion (an
\* exception if it is set already) and, if DeletePackageAsync awaits it, runs
\* the rest of that method before it leaves syncLock.
Unlock(u) ==
    /\ pc[u] = "using"
    /\ syncLock = Null
    /\ tokens' = tokens \ {u}
    /\ IF tokens' = {} /\ isMarkedToDelete
       THEN /\ deletedFinished' = "completed"
            /\ IF deletedFinished = "completed"
               THEN Goto(u, "failed") /\ UNCHANGED syncLock
               ELSE IF awaiting = Null
               THEN Goto(u, "idle") /\ UNCHANGED syncLock
               ELSE Goto(u, "delete") /\ syncLock' = u
       ELSE Goto(u, "idle") /\ UNCHANGED <<deletedFinished, syncLock>>
    /\ UNCHANGED <<isMarkedToDelete, packagesLock, awaiting, diskVars>>

-----------------------------------------------------------------------------
(* DeletePackageAsync up to its await. *)

EnterDelete(d) ==
    /\ pc[d] = "idle"
    /\ packagesLock = Null
    /\ packagesLock' = d
    /\ Goto(d, "mark")
    /\ UNCHANGED <<lockVars, awaiting, diskVars>>

\* Mutant: MarkForDelete, which ignores a second mark, is left to find out.
ReturnIfMarkedLocked(d) ==
    /\ pc[d] = "mark"
    /\ syncLock = Null
    /\ isMarkedToDelete
    /\ packagesLock' = Null
    /\ Goto(d, "returned")
    /\ UNCHANGED <<lockVars, awaiting, diskVars>>

\* Mutant: the second call awaits the same completion.
ReturnIfMarkedAwaits(d) ==
    /\ pc[d] = "mark"
    /\ isMarkedToDelete
    /\ packagesLock' = Null
    /\ Goto(d, "await")
    /\ UNCHANGED <<lockVars, awaiting, diskVars>>

\* IsMarkedToDelete is read without syncLock.
ReturnIfMarked(d) ==
    /\ pc[d] = "mark"
    /\ isMarkedToDelete
    /\ packagesLock' = Null
    /\ Goto(d, "returned")
    /\ UNCHANGED <<lockVars, awaiting, diskVars>>

MarkForDelete(d) ==
    /\ pc[d] = "mark"
    /\ ~isMarkedToDelete
    /\ syncLock = Null
    /\ isMarkedToDelete' = TRUE
    /\ deletedFinished' = IF tokens = {} THEN "completed" ELSE "pending"
    /\ packagesLock' = Null
    /\ Goto(d, "notify")
    /\ UNCHANGED <<tokens, syncLock, awaiting, diskVars>>

\* LocalPackageDeleting stops the download, whose save asks for a token in
\* vain.
NotifyDeleting(d) ==
    /\ pc[d] = "notify"
    /\ syncLock = Null
    /\ Goto(d, "await")
    /\ UNCHANGED <<lockVars, packagesLock, awaiting, diskVars>>

\* A completed task is not waited for; a pending one is given the rest of the
\* method to run.
Await(d) ==
    /\ pc[d] = "await"
    /\ IF deletedFinished = "completed"
       THEN Goto(d, "delete") /\ UNCHANGED awaiting
       ELSE Goto(d, "awaiting") /\ awaiting' = d
    /\ UNCHANGED <<lockVars, packagesLock, diskVars>>

-----------------------------------------------------------------------------
(* The rest of DeletePackageAsync, on the thread t that got to run it. *)

\* The method ends on thread t: the call is finished, and a user goes on with
\* what it does after Unlock.
EndDelete(t) ==
    /\ pc' = [x \in Threads |->
                IF x = t THEN (IF t \in Users THEN "idle" ELSE "returned")
                ELSE IF x = awaiting THEN "returned" ELSE pc[x]]
    /\ syncLock' = IF t \in Users THEN Null ELSE syncLock
    /\ awaiting' = Null

\* Mutant: an I/O error is swallowed.
DeletePackageSwallows(t) ==
    /\ pc[t] = "delete"
    /\ folder' \in {"gone", "partial"}
    /\ Goto(t, "update")
    /\ UNCHANGED <<isMarkedToDelete, deletedFinished, tokens, syncLock, awaiting,
                   packagesLock, registered>>

\* LocalPackageManager.DeletePackage: the folder goes, or an I/O error ends the
\* method.
DeletePackage(t) ==
    /\ pc[t] = "delete"
    /\ \/ folder' = "gone" /\ Goto(t, "update") /\ UNCHANGED <<syncLock, awaiting>>
       \/ folder' = "partial" /\ EndDelete(t)
    /\ UNCHANGED <<isMarkedToDelete, deletedFinished, tokens, packagesLock,
                   registered>>

\* UpdateLists, which takes the registry's lock; LocalPackageDeleted.
UpdateLists(t) ==
    /\ pc[t] = "update"
    /\ packagesLock = Null
    /\ registered' = FALSE
    /\ EndDelete(t)
    /\ UNCHANGED <<isMarkedToDelete, deletedFinished, tokens, packagesLock,
                   folder>>

UserStep(u) ==
    TryLock(u) \/ EnterSave(u) \/ EndSave(u) \/ Unlock(u)

DeleteStep(d) ==
    \/ EnterDelete(d) \/ ReturnIfMarked(d) \/ MarkForDelete(d)
    \/ NotifyDeleting(d) \/ Await(d)

Next ==
    \/ \E u \in Users : UserStep(u)
    \/ \E d \in Deleters : DeleteStep(d)
    \/ \E t \in Threads : DeletePackage(t) \/ UpdateLists(t)

Spec == Init /\ [][Next]_vars

-----------------------------------------------------------------------------
(* Correctness. *)

UserPCs   == {"idle", "using", "saving", "failed", "delete", "update"}
DeletePCs == {"idle", "mark", "notify", "await", "awaiting", "delete", "update", "returned"}

TypeOK ==
    /\ isMarkedToDelete \in BOOLEAN /\ registered \in BOOLEAN
    /\ deletedFinished \in {"none", "pending", "completed"}
    /\ tokens \in SUBSET Users
    /\ syncLock \in Users \union {Null}
    /\ packagesLock \in Threads \union {Null}
    /\ awaiting \in Deleters \union {Null}
    /\ folder \in {"there", "partial", "gone"}
    /\ pc \in [Threads -> UserPCs \union DeletePCs]
    /\ \A u \in Users : pc[u] \in UserPCs
    /\ \A d \in Deleters : pc[d] \in DeletePCs
    /\ deletedFinished = "none" <=> ~isMarkedToDelete

\* "Provides logic for locking package when package data is in use": the
\* folder is whole as long as any user has a token, whoever deletes it and on
\* whichever thread the deletion gets to run.
WholeWhileLocked ==
    \A u \in Users : pc[u] \in {"using", "saving"} => (u \in tokens /\ folder = "there")

\* The completion is set at most once: SetResult on a completed task would
\* throw out of Unlock and leave its caller's clean-up undone.
UnlockNeverThrows == \A u \in Users : pc[u] # "failed"

\* Of several concurrent deletions one gets past its await, on one thread.
OneDeletionRuns ==
    \A t1, t2 \in Threads :
        (pc[t1] \in {"delete", "update"} /\ pc[t2] \in {"delete", "update"}) => t1 = t2

\* A package leaves the registry only when its folder has gone and no user is
\* left: another download of it cannot find the folder there.
UnregisteredIsGone == ~registered => folder = "gone" /\ tokens = {}

\* Locks and deletion together implement a guarded resource.
Resource == INSTANCE GuardedResource
              WITH users <- tokens, doomed <- isMarkedToDelete,
                   destroyed <- (folder # "there")

ImplementsGuardedResource == Resource!Spec

-----------------------------------------------------------------------------
(* The inductive invariant behind them. *)

Continuing == {t \in Threads : pc[t] \in {"delete", "update"}}

\* The locks, the tokens and the continuation belong to the threads whose
\* control is where they are needed.
OwnerInv ==
    /\ tokens = {u \in Users : pc[u] \in {"using", "saving"}}
    /\ \A t \in Threads : packagesLock = t <=> pc[t] \in {"mark", "saving"}
    /\ \A u \in Users : syncLock = u <=> pc[u] \in {"delete", "update"}
    /\ \A d \in Deleters : awaiting = d <=> pc[d] = "awaiting"
    /\ \A u \in Users : pc[u] \in {"delete", "update"} => awaiting # Null

\* One call got to mark the package, and the completion is set exactly when the
\* package is marked and its last token is back.
MarkInv ==
    /\ deletedFinished = "completed" <=> (isMarkedToDelete /\ tokens = {})
    /\ \A d \in Deleters :
          pc[d] \in {"notify", "await", "awaiting", "delete", "update"} =>
             /\ isMarkedToDelete
             /\ \A e \in Deleters \ {d} :
                  pc[e] \notin {"notify", "await", "awaiting", "delete", "update"}

\* How far the deletion of the folder has come.
FolderInv ==
    /\ folder # "there" => deletedFinished = "completed"
    /\ \A t \in Continuing : deletedFinished = "completed"
    /\ \A t \in Threads :
         /\ pc[t] \in {"notify", "await", "delete"} => folder = "there"
         /\ pc[t] = "update" => folder = "gone"
    /\ ~registered => folder = "gone"

LocksInv == TypeOK /\ OwnerInv /\ MarkInv /\ FolderInv /\ UnlockNeverThrows
=============================================================================
