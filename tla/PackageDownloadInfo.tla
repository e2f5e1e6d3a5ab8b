------------------------- MODULE PackageDownloadInfo -------------------------
(***************************************************************************)
(* The segment ledger of one package (PackageDownloadInfo): the bitmap of  *)
(* downloaded segments, the byte counter, the segments in progress and the *)
(* bytes reserved for them.  Download slots claim segments with            *)
(* TrySelectSegmentsForDownload and return them with ReturnLockedSegments; *)
(* both take syncLock, but IsMoreToDownload, the checks at the top of      *)
(* TrySelectSegmentsForDownload and the user's resume and stop do not, so  *)
(* each store of ReturnLockedSegments is a step of its own here and the    *)
(* unlocked reads fall between any two of them.                            *)
(***************************************************************************)
EXTENDS Integers, FiniteSets

CONSTANTS
    Slots,              \* download slots (threads running PackageDownloadSlot)
    SegmentsCount,      \* PackageSequenceInfo.SegmentsCount
    SegmentLength,      \* length of every segment but the last
    SegmentLastLength,  \* length of the last segment
    BitsPerByte,        \* segments per byte of the bitmap, 8 in the code
    MaxCount,           \* NetworkSettings.SegmentsPerRequest
    Null                \* the null reference

ASSUME LedgerAssumption ==
    /\ SegmentsCount \in Nat \ {0}
    /\ SegmentLength \in Nat \ {0}
    /\ SegmentLastLength \in 1..SegmentLength
    /\ BitsPerByte \in Nat \ {0}
    /\ MaxCount \in Nat \ {0}

Segment == 0..(SegmentsCount - 1)

ASSUME NullAssumption ==
    /\ Null \notin Slots
    /\ \A S \in SUBSET Segment : S # Null

VARIABLES
    bitmap,                 \* dto.SegmentsBitmap, Null when all is downloaded
    downloadedBytes,        \* dto.DownloadedBytes
    isDownloading,          \* dto.IsDownloading
    partsInProgress,        \* segments claimed and not yet returned
    progressBytesReserved,  \* the bytes of the claimed segments
    syncLock,               \* the slot inside lock (syncLock), or Null
    queued,                 \* the manager has the package in its downloads
    resuming,               \* StartDownloadPackage is past its checks
    pc,                     \* pc[s]: where slot s is
    held,                   \* held[s]: the segments slot s has still to return
    cur,                    \* cur[s]: the segment the return loop is at
    areDownloaded,          \* areDownloaded[s]: argument of the return
    seenBytes               \* seenBytes[s]: DownloadedBytes as s last read it

ledger == <<bitmap, downloadedBytes, isDownloading, partsInProgress,
            progressBytesReserved>>
local  == <<held, cur, areDownloaded, seenBytes>>
vars   == <<ledger, syncLock, queued, resuming, pc, local>>

-----------------------------------------------------------------------------
(* Sizes. *)

Last == SegmentsCount - 1

GetSizeOfSegment(k) == IF k = Last THEN SegmentLastLength ELSE SegmentLength

\* Bytes of a set of segments: all of full length but the last one.
Bytes(S) ==
    SegmentLength * Cardinality(S)
        - (IF Last \in S THEN SegmentLength - SegmentLastLength ELSE 0)

PackageSize == SegmentLength * (SegmentsCount - 1) + SegmentLastLength

IsDownloaded == downloadedBytes = PackageSize

Have == IF bitmap = Null THEN Segment ELSE bitmap

-----------------------------------------------------------------------------
(* Selection. *)

GetBitmapSizeForPackage == (SegmentsCount + BitsPerByte - 1) \div BitsPerByte

\* Position of segment k in the walk over the bitmap that starts at byte
\* start and wraps around.
Rank(start, k) ==
    BitsPerByte * (((k \div BitsPerByte) - start) % GetBitmapSizeForPackage)
        + (k % BitsPerByte)

\* Mutant: the test of partsInProgress is lost.
EligibleInProgress(remote) == (IF remote = Null THEN Segment ELSE remote) \ Have

\* The segments a remote offers that are neither downloaded nor in progress;
\* remote = Null is a peer that has everything.
Eligible(remote) ==
    (IF remote = Null THEN Segment ELSE remote) \ (Have \union partsInProgress)

\* The first MaxCount eligible segments of the walk.
Selected(remote, start) ==
    LET E == Eligible(remote)
    IN {k \in E :
          Cardinality({j \in E : Rank(start, j) < Rank(start, k)}) < MaxCount}

-----------------------------------------------------------------------------

TryStartPCs == {"more", "check", "enter"}
ReturnPCs   == {"loop", "bytes", "reserved", "complete"}
PCs         == {"idle", "downloading", "failed"} \union TryStartPCs \union ReturnPCs

\* A ledger that was read from disk or created: consistent, nothing claimed.
Init ==
    /\ \/ bitmap = Null /\ isDownloading = FALSE
       \/ /\ bitmap \in (SUBSET Segment) \ {Segment}
          /\ isDownloading \in BOOLEAN
    /\ downloadedBytes = Bytes(Have)
    /\ partsInProgress = {}
    /\ progressBytesReserved = 0
    /\ syncLock = Null
    /\ queued = FALSE
    /\ resuming = FALSE
    /\ pc = [s \in Slots |-> "idle"]
    /\ held = [s \in Slots |-> {}]
    /\ cur = [s \in Slots |-> Last]
    /\ areDownloaded = [s \in Slots |-> FALSE]
    /\ seenBytes = [s \in Slots |-> 0]

\* TryStart, StartDownloadPackage and StopDownloadPackage all run inside the
\* manager's own lock.
ManagerLockFree == ~resuming /\ \A s \in Slots : pc[s] \notin TryStartPCs

\* PackageDownloadManager.StartDownloadPackage: its early returns ...
CheckBeforeResume ==
    /\ ManagerLockFree
    /\ ~queued
    /\ ~IsDownloaded
    /\ resuming' = TRUE
    /\ UNCHANGED <<ledger, syncLock, queued, pc, local>>

\* ... and the mark it then writes without syncLock: a slot that was still
\* running when the package was stopped may have completed it in between.
Resume ==
    /\ resuming
    /\ isDownloading' = TRUE
    /\ queued' = TRUE
    /\ resuming' = FALSE
    /\ UNCHANGED <<bitmap, downloadedBytes, partsInProgress,
                   progressBytesReserved, syncLock, pc, local>>

\* PackageDownloadManager.StopDownloadPackage: by the user, by a deletion or
\* by the slot that completed the package.  It writes without syncLock.
Stop ==
    /\ ManagerLockFree
    /\ queued
    /\ bitmap' = IF IsDownloaded THEN Null ELSE bitmap
    /\ isDownloading' = FALSE
    /\ queued' = FALSE
    /\ UNCHANGED <<downloadedBytes, partsInProgress, progressBytesReserved,
                   syncLock, resuming, pc, local>>

-----------------------------------------------------------------------------
(* TryStart, up to the claim. *)

\* IsMoreToDownload, first operand.
ReadDownloadedBytes(s) ==
    /\ pc[s] = "idle"
    /\ ManagerLockFree
    /\ queued
    /\ seenBytes' = [seenBytes EXCEPT ![s] = downloadedBytes]
    /\ pc' = [pc EXCEPT ![s] = "more"]
    /\ UNCHANGED <<ledger, syncLock, queued, resuming, held, cur, areDownloaded>>

\* IsMoreToDownload, second operand and the comparison.
IsMoreToDownload(s) ==
    /\ pc[s] = "more"
    /\ pc' = [pc EXCEPT ![s] =
                IF seenBytes[s] + progressBytesReserved < PackageSize
                THEN "check" ELSE "idle"]
    /\ UNCHANGED <<ledger, syncLock, queued, resuming, local>>

\* TrySelectSegmentsForDownload before its lock: "Already downloaded" and
\* "Not downloading" are thrown here and become the Error result of TryStart
\* (as does a null bitmap, which the next step meets too).
CheckBeforeSelect(s) ==
    /\ pc[s] = "check"
    /\ pc' = [pc EXCEPT ![s] =
                IF IsDownloaded \/ ~isDownloading THEN "idle" ELSE "enter"]
    /\ UNCHANGED <<ledger, syncLock, queued, resuming, local>>

\* TrySelectSegmentsForDownload inside its lock.  When the bitmap has become
\* null the dereference throws before anything is claimed; when nothing is
\* eligible the slot is given up.
TrySelectSegmentsForDownload(s) ==
    /\ pc[s] = "enter"
    /\ syncLock = Null
    /\ \/ /\ bitmap = Null
          /\ pc' = [pc EXCEPT ![s] = "idle"]
          /\ UNCHANGED <<ledger, held>>
       \/ /\ bitmap # Null
          /\ \E remote \in (SUBSET Segment) \union {Null}, 
                  start \in 0..(GetBitmapSizeForPackage - 1) :
               LET result == Selected(remote, start)
               IN /\ partsInProgress' = partsInProgress \union result
                  /\ progressBytesReserved' = progressBytesReserved + Bytes(result)
                  /\ held' = [held EXCEPT ![s] = result]
                  /\ pc' = [pc EXCEPT ![s] =
                              IF result = {} THEN "idle" ELSE "downloading"]
          /\ UNCHANGED <<bitmap, downloadedBytes, isDownloading>>
    /\ UNCHANGED <<syncLock, queued, resuming, cur, areDownloaded, seenBytes>>

-----------------------------------------------------------------------------
(* ReturnLockedSegments, store by store. *)

\* Entry: the exception for a downloaded package, or the segments leave
\* partsInProgress.
BeginReturn(s, ok) ==
    /\ pc[s] = "downloading"
    /\ syncLock = Null
    /\ areDownloaded' = [areDownloaded EXCEPT ![s] = ok]
    /\ IF IsDownloaded
       THEN /\ pc' = [pc EXCEPT ![s] = "failed"]
            /\ UNCHANGED <<partsInProgress, syncLock>>
       ELSE /\ pc' = [pc EXCEPT ![s] = "loop"]
            /\ partsInProgress' = partsInProgress \ held[s]
            /\ syncLock' = s
    /\ UNCHANGED <<bitmap, downloadedBytes, isDownloading,
                   progressBytesReserved, queued, resuming, held, cur, seenBytes>>

\* Mutant: the whole byte of the bitmap is marked.
MarkSegmentByte(s, k) ==
    /\ pc[s] = "loop"
    /\ k \in held[s]
    /\ areDownloaded[s]
    /\ bitmap' = bitmap \union
                   {j \in Segment : j \div BitsPerByte = k \div BitsPerByte}
    /\ cur' = [cur EXCEPT ![s] = k]
    /\ pc' = [pc EXCEPT ![s] = "bytes"]
    /\ UNCHANGED <<downloadedBytes, isDownloading, partsInProgress,
                   progressBytesReserved, syncLock, queued, resuming,
                   held, areDownloaded, seenBytes>>

\* One turn of the loop for segment k: its bit (a null bitmap would throw) ...
MarkSegment(s, k) ==
    /\ pc[s] = "loop"
    /\ k \in held[s]
    /\ areDownloaded[s]
    /\ cur' = [cur EXCEPT ![s] = k]
    /\ IF bitmap = Null
       THEN pc' = [pc EXCEPT ![s] = "failed"] /\ UNCHANGED bitmap
       ELSE pc' = [pc EXCEPT ![s] = "bytes"] /\ bitmap' = bitmap \union {k}
    /\ UNCHANGED <<downloadedBytes, isDownloading, partsInProgress,
                   progressBytesReserved, syncLock, queued, resuming, held,
                   areDownloaded, seenBytes>>

\* Mutant: the last segment is counted like the others.
AddFullLength(s) ==
    /\ pc[s] = "bytes"
    /\ downloadedBytes' = downloadedBytes + SegmentLength
    /\ pc' = [pc EXCEPT ![s] = "reserved"]
    /\ UNCHANGED <<bitmap, isDownloading, partsInProgress,
                   progressBytesReserved, syncLock, queued, resuming, local>>

\* ... its bytes ...
AddDownloadedBytes(s) ==
    /\ pc[s] = "bytes"
    /\ downloadedBytes' = downloadedBytes + GetSizeOfSegment(cur[s])
    /\ pc' = [pc EXCEPT ![s] = "reserved"]
    /\ UNCHANGED <<bitmap, isDownloading, partsInProgress,
                   progressBytesReserved, syncLock, queued, resuming, local>>

\* Mutant: a failed download keeps its reservation.
ReleaseDownloadedOnly(s, k) ==
    /\ \/ pc[s] = "reserved" /\ k = cur[s]
       \/ pc[s] = "loop" /\ ~areDownloaded[s]
    /\ k \in held[s]
    /\ progressBytesReserved' = progressBytesReserved
            - (IF areDownloaded[s] THEN GetSizeOfSegment(k) ELSE 0)
    /\ held' = [held EXCEPT ![s] = @ \ {k}]
    /\ pc' = [pc EXCEPT ![s] = "loop"]
    /\ UNCHANGED <<bitmap, downloadedBytes, isDownloading, partsInProgress,
                   syncLock, queued, resuming, cur, areDownloaded, seenBytes>>

\* ... and its reservation, the only store of a turn when the download failed.
ReleaseReserved(s, k) ==
    /\ \/ pc[s] = "reserved" /\ k = cur[s]
       \/ pc[s] = "loop" /\ ~areDownloaded[s]
    /\ k \in held[s]
    /\ progressBytesReserved' = progressBytesReserved - GetSizeOfSegment(k)
    /\ held' = [held EXCEPT ![s] = @ \ {k}]
    /\ pc' = [pc EXCEPT ![s] = "loop"]
    /\ UNCHANGED <<bitmap, downloadedBytes, isDownloading, partsInProgress,
                   syncLock, queued, resuming, cur, areDownloaded, seenBytes>>

\* Mutant: a complete package keeps its bitmap.
EndReturnKeepsBitmap(s) ==
    /\ pc[s] = "loop"
    /\ held[s] = {}
    /\ syncLock' = IF IsDownloaded THEN s ELSE Null
    /\ pc' = [pc EXCEPT ![s] = IF IsDownloaded THEN "complete" ELSE "idle"]
    /\ UNCHANGED <<bitmap, downloadedBytes, isDownloading, partsInProgress,
                   progressBytesReserved, queued, resuming, local>>

\* Mutant: a complete package is left with an empty bitmap.
EndReturnEmptiesBitmap(s) ==
    /\ pc[s] = "loop"
    /\ held[s] = {}
    /\ bitmap' = IF IsDownloaded THEN {} ELSE bitmap
    /\ syncLock' = IF IsDownloaded THEN s ELSE Null
    /\ pc' = [pc EXCEPT ![s] = IF IsDownloaded THEN "complete" ELSE "idle"]
    /\ UNCHANGED <<downloadedBytes, isDownloading, partsInProgress,
                   progressBytesReserved, queued, resuming, local>>

\* After the loop: a package that is now complete drops its bitmap.
EndReturn(s) ==
    /\ pc[s] = "loop"
    /\ held[s] = {}
    /\ \/ /\ IsDownloaded
          /\ bitmap' = Null
          /\ pc' = [pc EXCEPT ![s] = "complete"]
          /\ UNCHANGED syncLock
       \/ /\ ~IsDownloaded
          /\ syncLock' = Null
          /\ pc' = [pc EXCEPT ![s] = "idle"]
          /\ UNCHANGED bitmap
    /\ UNCHANGED <<downloadedBytes, isDownloading, partsInProgress,
                   progressBytesReserved, queued, resuming, local>>

\* The last store of a completed package, and the end of the lock.
CompletePackage(s) ==
    /\ pc[s] = "complete"
    /\ isDownloading' = FALSE
    /\ syncLock' = Null
    /\ pc' = [pc EXCEPT ![s] = "idle"]
    /\ UNCHANGED <<bitmap, downloadedBytes, partsInProgress,
                   progressBytesReserved, queued, resuming, local>>

SlotStep(s) ==
    \/ ReadDownloadedBytes(s)
    \/ IsMoreToDownload(s)
    \/ CheckBeforeSelect(s)
    \/ TrySelectSegmentsForDownload(s)
    \/ \E ok \in BOOLEAN : BeginReturn(s, ok)
    \/ \E k \in Segment : MarkSegment(s, k) \/ ReleaseReserved(s, k)
    \/ AddDownloadedBytes(s)
    \/ EndReturn(s)
    \/ CompletePackage(s)

Next == CheckBeforeResume \/ Resume \/ Stop \/ \E s \in Slots : SlotStep(s)

Spec == Init /\ [][Next]_vars

-----------------------------------------------------------------------------
(* Correctness. *)

TypeOK ==
    /\ bitmap \in (SUBSET Segment) \union {Null}
    /\ downloadedBytes \in Int
    /\ isDownloading \in BOOLEAN
    /\ partsInProgress \in SUBSET Segment
    /\ progressBytesReserved \in Int
    /\ syncLock \in Slots \union {Null}
    /\ queued \in BOOLEAN
    /\ resuming \in BOOLEAN
    /\ pc \in [Slots -> PCs]
    /\ held \in [Slots -> SUBSET Segment]
    /\ cur \in [Slots -> Segment]
    /\ areDownloaded \in [Slots -> BOOLEAN]
    /\ seenBytes \in [Slots -> Int]

\* The exceptions of ReturnLockedSegments (package already downloaded, bitmap
\* already null) are never thrown at a slot that returns what it claimed,
\* although completion, stop and resume by others may come at any moment.
ReturnNeverThrows == \A s \in Slots : pc[s] # "failed"

\* Whenever no slot is at work the ledger balances: nothing is left in
\* progress or reserved, the byte counter is the size of the bitmap, and the
\* bitmap is null exactly when the package is complete.  A leaked claim
\* would make a segment unobtainable until the process restarts.
QuiescentLedgerBalanced ==
    (\A s \in Slots : pc[s] \notin ReturnPCs \union {"downloading"}) =>
        /\ partsInProgress = {}
        /\ progressBytesReserved = 0
        /\ downloadedBytes = Bytes(Have)
        /\ bitmap = Null <=> IsDownloaded

\* When IsMoreToDownload refuses a slot the manager stops looking for peers
\* until a slot ends.  Its two unlocked reads may straddle a return, but they
\* never refuse while the package is incomplete and no slot is running.
RefusalLeavesARunner ==
    [][\A s \in Slots :
         (pc[s] = "more" /\ pc'[s] = "idle") =>
            \/ IsDownloaded
            \/ \E t \in Slots : pc[t] \in ReturnPCs \union {"downloading"}]_vars

\* Bits are only ever gained, and the counter never runs ahead of the bitmap:
\* what a status response or a status file built from this ledger claims as
\* downloaded is downloaded.
DownloadedOnlyGrows ==
    [][Have \subseteq Have' /\ downloadedBytes' <= Bytes(Have')]_vars

\* The segments slot s claims: all of them while it downloads, then those its
\* return loop has not reached.
ClaimOf(s) == held[s] \ Have

Claims == INSTANCE SegmentClaims
            WITH have <- Have, claim <- [s \in Slots |-> ClaimOf(s)]

\* The ledger implements the exclusive claiming of segments.
ImplementsSegmentClaims == Claims!Spec

\* Two slots never download the same segment, and none downloads a segment
\* that is already there.
NoSegmentTwice ==
    /\ \A s \in Slots : pc[s] = "downloading" => held[s] \intersect Have = {}
    /\ \A s, t \in Slots : s # t => held[s] \intersect held[t] = {}

-----------------------------------------------------------------------------
(* The inductive invariant behind them: it also speaks of the states inside  *)
(* a return, where the bitmap, the counter and the reservation disagree.     *)

Running == ReturnPCs \union {"downloading"}

\* syncLock is held by the one slot inside a return.
LockInv == \A s \in Slots : pc[s] \in ReturnPCs <=> syncLock = s

\* Who holds segments, which are in progress, and which of them have their
\* bit already: only the one its return loop is at.
HeldInv ==
    /\ \A s \in Slots :
         /\ pc[s] \notin Running => held[s] = {}
         /\ pc[s] = "complete" => held[s] = {}
         /\ pc[s] = "downloading" => held[s] # {}
         /\ IF pc[s] \in {"bytes", "reserved"}
            THEN areDownloaded[s] /\ held[s] \intersect Have = {cur[s]}
            ELSE held[s] \intersect Have = {}
    /\ \A s, t \in Slots : s # t => held[s] \intersect held[t] = {}
    /\ partsInProgress =
         {k \in Segment : \E s \in Slots : pc[s] = "downloading" /\ k \in held[s]}

\* What the counters count.
AllHeld == {k \in Segment : \E s \in Slots : k \in held[s]}

CountInv ==
    /\ progressBytesReserved = Bytes(AllHeld)
    /\ \A s \in Slots : pc[s] = "bytes" =>
          downloadedBytes + GetSizeOfSegment(cur[s]) = Bytes(Have)
    /\ (\A s \in Slots : pc[s] # "bytes") => downloadedBytes = Bytes(Have)

\* A null bitmap means complete; a full one is only seen inside the return
\* that completes the package.
NullInv ==
    /\ bitmap = Null => IsDownloaded
    /\ \A s \in Slots : pc[s] = "complete" => bitmap = Null
    /\ bitmap = Segment => \E s \in Slots : pc[s] \in {"loop", "bytes", "reserved"}

LedgerInv == TypeOK /\ LockInv /\ HeldInv /\ CountInv /\ NullInv /\ ReturnNeverThrows

\* What is left of it for a ledger whose counter was read from a file and may
\* be behind the bitmap.
TrailInv ==
    /\ downloadedBytes <= Bytes(Have)
    /\ \A s \in Slots : pc[s] = "bytes" =>
          downloadedBytes + GetSizeOfSegment(cur[s]) <= Bytes(Have)
    /\ \A s \in Slots : pc[s] = "complete" => bitmap = Null

CoreInv == TypeOK /\ LockInv /\ HeldInv /\ TrailInv /\ ReturnNeverThrows
=============================================================================
