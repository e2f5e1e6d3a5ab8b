------------------------------- MODULE Uploads -------------------------------
(***************************************************************************)
(* Uploads: HttpApiController.Data, PeersCluster.CreateUploadStream with   *)
(* its counter of free slots, and the life of the stream it returns, on    *)
(* top of the locks of the package that is uploaded.                       *)
(*                                                                         *)
(* Some users of PackageLocks are uploads of that package.  The slots are  *)
(* shared with uploads of other packages, which nobody deletes.            *)
(*                                                                         *)
(* A PackageDataStream opens the data file of its next part when a read    *)
(* finds it at the end of a part, and once more in Close.  The file of a   *)
(* part may fail to open; the enumerator of the parts has moved on by then.*)
(***************************************************************************)
EXTENDS PackageLocks, Integers

CONSTANTS
    Uploaders,              \* the users that are uploads of the package
    Others,                 \* uploads of other packages
    MaximumUploadsSlots,
    Parts,                  \* number of parts of an upload, each in its file
    OpensMayFail            \* opening a data file may fail

ASSUME UploadsAssumption ==
    /\ Uploaders \subseteq Users
    /\ Others \intersect Threads = {}
    /\ IsFiniteSet(Uploaders \union Others)
    /\ MaximumUploadsSlots \in Nat \ {0}
    /\ Parts \in Nat \ {0}
    /\ OpensMayFail \in BOOLEAN

Uploads == Uploaders \union Others

VARIABLES
    uploadSlots,    \* the counter, below its true value while a choke is under way
    stage,          \* stage[u]: where upload u is
    stream          \* stream[u]: the position of its stream

upVars == <<vars, uploadSlots, stage, stream>>

NewStream == [part |-> 0, atEnd |-> TRUE, skipped |-> FALSE]

UpInit ==
    /\ Init
    /\ uploadSlots = MaximumUploadsSlots
    /\ stage = [u \in Uploads |-> "idle"]
    /\ stream = [u \in Uploads |-> NewStream]

Enter(u, s) == stage' = [stage EXCEPT ![u] = s]

-----------------------------------------------------------------------------
(* CreateUploadStream. *)

\* HttpApiController.Data finds the package and looks at its mark, without its
\* lock.
Data(u) ==
    /\ stage[u] = "idle"
    /\ u \in Uploaders => pc[u] = "idle" /\ registered /\ ~isMarkedToDelete
    /\ Enter(u, "requested")
    /\ UNCHANGED <<vars, uploadSlots, stream>>

\* Interlocked.Decrement and what its result decides.
AllocateSlot(u) ==
    /\ stage[u] = "requested"
    /\ uploadSlots' = uploadSlots - 1
    /\ Enter(u, IF uploadSlots' <= 0 THEN "choked" ELSE "allocated")
    /\ UNCHANGED <<vars, stream>>

\* Mutant: the choked request does not give back what it took.
ChokeKeeps(u) ==
    /\ stage[u] = "choked"
    /\ Enter(u, "idle")
    /\ UNCHANGED <<vars, uploadSlots, stream>>

\* Interlocked.Increment and the choke response.
Choke(u) ==
    /\ stage[u] = "choked"
    /\ uploadSlots' = uploadSlots + 1
    /\ Enter(u, "idle")
    /\ UNCHANGED <<vars, stream>>

\* The stream is there once the token is.  Nobody marks the other packages.
ObtainLock(u) ==
    /\ stage[u] = "allocated"
    /\ IF u \in Uploaders THEN TryLock(u) ELSE UNCHANGED vars
    /\ Enter(u, "streaming")
    /\ stream' = [stream EXCEPT ![u] = NewStream]
    /\ UNCHANGED uploadSlots

\* TryLock finds the mark: the error is returned, the slot is not.  The upload ends
\* here: Data refuses every later one.
RefuseMarked(u) ==
    /\ u \in Uploaders
    /\ stage[u] = "allocated"
    /\ syncLock = Null
    /\ isMarkedToDelete
    /\ Enter(u, "refused")
    /\ UNCHANGED <<vars, uploadSlots, stream>>

-----------------------------------------------------------------------------
(* The stream. *)

\* A read at the end of a part moves on and opens the next one.
EnterPart(u) ==
    /\ stage[u] = "streaming"
    /\ stream[u].atEnd /\ stream[u].part < Parts
    /\ stream' = [stream EXCEPT ![u].part = @ + 1, ![u].atEnd = FALSE]
    /\ UNCHANGED <<vars, uploadSlots, stage>>

\* The file does not open: the exception ends the response.
OpenFails(u) ==
    /\ OpensMayFail
    /\ stage[u] = "streaming"
    /\ stream[u].atEnd /\ stream[u].part < Parts
    /\ stream' = [stream EXCEPT ![u].part = @ + 1, ![u].skipped = TRUE]
    /\ Enter(u, "closing")
    /\ UNCHANGED <<vars, uploadSlots>>

\* The rest of a part is read.
ReadPart(u) ==
    /\ stage[u] = "streaming"
    /\ ~stream[u].atEnd
    /\ stream' = [stream EXCEPT ![u].atEnd = TRUE]
    /\ UNCHANGED <<vars, uploadSlots, stage>>

\* The response ends: all is read, or the client has gone.
EndResponse(u) ==
    /\ stage[u] = "streaming"
    /\ Enter(u, "closing")
    /\ UNCHANGED <<vars, uploadSlots, stream>>

\* Close: at the end of a part it opens one more, and throws if that fails or if
\* there is none although the position is short of the length.  Disposing is
\* raised only after that: an upload whose Close threw keeps slot and token.
Close(u) ==
    /\ stage[u] = "closing"
    /\ \/ ~stream[u].atEnd /\ Enter(u, "closed")
       \/ /\ stream[u].atEnd /\ stream[u].part < Parts
          /\ Enter(u, "closed") \/ (OpensMayFail /\ Enter(u, "lost"))
       \/ /\ stream[u].atEnd /\ stream[u].part = Parts
          /\ Enter(u, IF stream[u].skipped THEN "lost" ELSE "closed")
    /\ stream' = [stream EXCEPT ![u] = NewStream]
    /\ UNCHANGED <<vars, uploadSlots>>

\* Mutant: Dispose does not remember that it ran, and Disposing is raised twice.
ReturnSlotTwice(u) ==
    /\ stage[u] = "closed"
    /\ uploadSlots' = uploadSlots + 2
    /\ Enter(u, "unlocking")
    /\ UNCHANGED <<vars, stream>>

\* The handler of Disposing: the slot first ...
ReturnSlot(u) ==
    /\ stage[u] = "closed"
    /\ uploadSlots' = uploadSlots + 1
    /\ Enter(u, "unlocking")
    /\ UNCHANGED <<vars, stream>>

\* ... then the token, and perhaps the rest of a deletion.
ReturnToken(u) ==
    /\ stage[u] = "unlocking"
    /\ IF u \in Uploaders THEN Unlock(u) ELSE UNCHANGED vars
    /\ Enter(u, "idle")
    /\ UNCHANGED <<uploadSlots, stream>>

UploadRuns(u) ==
    \/ AllocateSlot(u) \/ Choke(u) \/ ObtainLock(u) \/ RefuseMarked(u)
    \/ EnterPart(u) \/ OpenFails(u) \/ ReadPart(u) \/ EndResponse(u) \/ Close(u)
    \/ ReturnSlot(u)

LockStep ==
    \/ \E u \in Users \ Uploaders : UserStep(u)
    \/ \E d \in Deleters : DeleteStep(d)
    \/ \E t \in Threads : DeletePackage(t) \/ UpdateLists(t)

UpNext ==
    \/ \E u \in Uploads : Data(u) \/ UploadRuns(u) \/ ReturnToken(u)
    \/ LockStep /\ UNCHANGED <<uploadSlots, stage, stream>>

UpSpec == UpInit /\ [][UpNext]_upVars

\* What thread t has begun it goes on with.  Uses end: transfers have timeouts,
\* saves and verifications a length.  Monitors are granted to those who wait.
\* Nobody need start anything.
Progress(t) ==
    \/ t \in Uploads /\ (UploadRuns(t) \/ ReturnToken(t))
    \/ /\ \/ t \in Users \ Uploaders /\ (EndSave(t) \/ Unlock(t))
          \/ t \in Deleters /\ DeleteStep(t) /\ ~EnterDelete(t)
          \/ t \in Threads /\ (DeletePackage(t) \/ UpdateLists(t))
       /\ UNCHANGED <<uploadSlots, stage, stream>>

UpFairSpec ==
    /\ UpSpec
    /\ \A t \in Threads \union Others : SF_upVars(Progress(t))
    /\ \A u \in Users \ Uploaders :
         SF_upVars(Unlock(u) /\ UNCHANGED <<uploadSlots, stage, stream>>)

-----------------------------------------------------------------------------
(* Correctness. *)

Stages == {"idle", "requested", "choked", "allocated", "streaming", "closing",
           "closed", "lost", "refused", "unlocking"}

\* Uploads that hold a slot they will give back, those about to give back what they
\* took by asking, and those that ended without giving back: Close threw
\* (PackageDataStream.cs:217) or the package was marked (PeersCluster.cs:141).
GrantedStages == {"allocated", "streaming", "closing", "closed"}
LostStages == {"lost", "refused"}

Granted == {u \in Uploads : stage[u] \in GrantedStages}
Choking == {u \in Uploads : stage[u] = "choked"}
Lost == {u \in Uploads : stage[u] \in LostStages}

\* However requests, chokes and ends interleave on the counter, there are fewer
\* streams than MaximumUploadsSlots (one fewer, as the counter is compared with
\* 0 after it was decremented), and by one fewer again for every slot that was lost.
UploadLimit == Cardinality(Granted) + Cardinality(Lost) < MaximumUploadsSlots

\* In every state each slot is free, or on its way back, or one of those that two
\* ends of an upload lose for good: a Close that throws, and the refusal of a marked
\* package.  Each of these costs exactly one slot, and no other interleaving of
\* requests, chokes, ends and deletions loses or invents one.
SlotsBalanced ==
    uploadSlots + Cardinality(Granted) + Cardinality(Choking) + Cardinality(Lost)
        = MaximumUploadsSlots

\* A marked package is deleted (or the deletion of its folder fails) although
\* uploads of it are under way: each of them ends and returns its token, on
\* whichever part it stops, unless its Close threw.
DeletionEndsUnlessLost ==
    isMarkedToDelete ~>
        \/ folder # "there" /\ \A t \in Threads : pc[t] # "update"
        \/ \E u \in Uploaders : stage[u] = "lost"

-----------------------------------------------------------------------------
(* The inductive invariant of the counter. *)

SlotsInv ==
    /\ uploadSlots \in Int
    /\ stage \in [Uploads -> Stages]
    /\ SlotsBalanced
    /\ UploadLimit
=============================================================================
