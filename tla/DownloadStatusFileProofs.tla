----------------------- MODULE DownloadStatusFileProofs -----------------------
(* Proofs about the segment ledger of a package and about the file it is     *)
(* saved to, for any number of slots and segments.                           *)
EXTENDS DownloadStatusFile, FiniteSetTheorems, TLAPS

-----------------------------------------------------------------------------
(* Arithmetic of segment sizes. *)

LEMMA SegmentFinite ==
    /\ IsFiniteSet(Segment)
    /\ Cardinality(Segment) = SegmentsCount
    /\ Last \in Segment
    /\ \A S \in SUBSET Segment : IsFiniteSet(S) /\ Cardinality(S) \in Nat
<1>1. IsFiniteSet(Segment) /\ Cardinality(Segment) = SegmentsCount
    BY LedgerAssumption, FS_Interval DEF Segment
<1>2. \A S \in SUBSET Segment : IsFiniteSet(S) /\ Cardinality(S) \in Nat
    BY <1>1, FS_Subset, FS_CardinalityType
<1>3. QED
    BY <1>1, <1>2, LedgerAssumption DEF Segment, Last

\* The size of a set of segments is an integer.
LEMMA BytesType == \A S \in SUBSET Segment : Bytes(S) \in Int
BY SegmentFinite, LedgerAssumption DEF Bytes

LEMMA BytesEmpty == Bytes({}) = 0
BY FS_EmptySet, LedgerAssumption DEF Bytes

LEMMA BytesSingle == \A k \in Segment : Bytes({k}) = GetSizeOfSegment(k)
<1> SUFFICES ASSUME NEW k \in Segment
             PROVE  Bytes({k}) = GetSizeOfSegment(k)
    OBVIOUS
<1>1. Cardinality({k}) = 1
    BY FS_Singleton
<1>2. SegmentLength * Cardinality({k}) = SegmentLength
    BY <1>1, LedgerAssumption
<1>3. Last \in {k} <=> k = Last
    OBVIOUS
<1>4. QED
    BY <1>2, <1>3, LedgerAssumption DEF Bytes, GetSizeOfSegment

LEMMA BytesSegment == Bytes(Segment) = PackageSize
<1>1. SegmentLength * SegmentsCount
        = SegmentLength * (SegmentsCount - 1) + SegmentLength
    BY LedgerAssumption
<1>2. QED
    BY <1>1, SegmentFinite, LedgerAssumption DEF Bytes, PackageSize

\* The sizes of disjoint sets add up.
LEMMA BytesUnion ==
    ASSUME NEW S \in SUBSET Segment, NEW T \in SUBSET Segment,
           S \intersect T = {}
    PROVE  Bytes(S \union T) = Bytes(S) + Bytes(T)
<1>1. Cardinality(S \union T) = Cardinality(S) + Cardinality(T)
    <2>1. Cardinality(S \union T)
            = Cardinality(S) + Cardinality(T) - Cardinality(S \intersect T)
        BY SegmentFinite, FS_Union
    <2>2. QED
        BY <2>1, SegmentFinite, FS_EmptySet
<1>2. SegmentLength * (Cardinality(S) + Cardinality(T))
        = SegmentLength * Cardinality(S) + SegmentLength * Cardinality(T)
    BY SegmentFinite, LedgerAssumption
<1>3. ~(Last \in S /\ Last \in T)
    OBVIOUS
<1>4. QED
    <2> DEFINE c == SegmentLength * Cardinality(S)
               d == SegmentLength * Cardinality(T)
    <2>1. c \in Int /\ d \in Int
        BY SegmentFinite, LedgerAssumption
    <2>2. SegmentLength * Cardinality(S \union T) = c + d
        BY <1>1, <1>2
    <2> HIDE DEF c, d
    <2>3. /\ Bytes(S) = c - (IF Last \in S THEN SegmentLength - SegmentLastLength ELSE 0)
          /\ Bytes(T) = d - (IF Last \in T THEN SegmentLength - SegmentLastLength ELSE 0)
        BY DEF Bytes, c, d
    <2>4. Bytes(S \union T)
            = (c + d) - (IF Last \in S \union T THEN SegmentLength - SegmentLastLength ELSE 0)
        <3> DEFINE e == SegmentLength * Cardinality(S \union T)
        <3>1. Bytes(S \union T)
                = e - (IF Last \in S \union T THEN SegmentLength - SegmentLastLength ELSE 0)
            BY DEF Bytes
        <3>2. e = c + d
            BY <2>2
        <3> HIDE DEF e
        <3>3. QED
            BY <3>1, <3>2
    <2>5. QED
        BY <1>3, <2>1, <2>3, <2>4, LedgerAssumption

\* Only the empty set has no bytes.
LEMMA BytesPositive ==
    ASSUME NEW S \in SUBSET Segment, S # {}
    PROVE  Bytes(S) > 0
<1> DEFINE c == Cardinality(S)
<1>1. c \in Nat \ {0}
    BY SegmentFinite, FS_EmptySet
<1> HIDE DEF c
<1>2. PICK d \in Nat : c = d + 1
    <2>1. c - 1 \in Nat /\ c = (c - 1) + 1
        BY <1>1
    <2>2. QED
        BY <2>1
<1>3. SegmentLength * c = SegmentLength * d + SegmentLength
    BY <1>2, LedgerAssumption
<1>4. SegmentLength * d \in Nat
    BY <1>2, LedgerAssumption
<1>5. QED
    BY <1>3, <1>4, LedgerAssumption DEF Bytes, c

\* A set has the size of the package only if it is all of it.
LEMMA BytesFull ==
    ASSUME NEW S \in SUBSET Segment
    PROVE  /\ Bytes(S) <= PackageSize
           /\ Bytes(S) = PackageSize => S = Segment
<1> DEFINE T == Segment \ S
<1>1. Bytes(S) + Bytes(T) = PackageSize
    <2>1. S \union T = Segment /\ S \intersect T = {}
        OBVIOUS
    <2>2. QED
        BY <2>1, BytesUnion, BytesSegment
<1>2. Bytes(S) \in Int /\ Bytes(T) \in Int
    BY BytesType
<1>3. CASE T = {}
    BY <1>1, <1>2, <1>3, BytesEmpty
<1>4. CASE T # {}
    <2>1. Bytes(T) > 0
        BY <1>4, BytesPositive
    <2>2. QED
        BY <1>1, <1>2, <2>1
<1>5. QED
    BY <1>3, <1>4

LEMMA SizeType ==
    /\ PackageSize \in Int
    /\ PackageSize > 0
    /\ \A k \in Segment : GetSizeOfSegment(k) \in Int /\ GetSizeOfSegment(k) > 0
<1>1. PackageSize \in Int
    BY LedgerAssumption DEF PackageSize
<1>2. PackageSize > 0
    BY BytesSegment, BytesPositive, SegmentFinite
<1>3. QED
    BY <1>1, <1>2, LedgerAssumption DEF GetSizeOfSegment

-----------------------------------------------------------------------------
(* The core of the ledger invariant, which also a ledger keeps whose counter *)
(* was read from a file and is behind its bitmap.                            *)

LEMMA HaveType == TypeOK => Have \in SUBSET Segment
BY DEF TypeOK, Have

\* A full counter means a full bitmap, and no store pending.
LEMMA DownloadedHasAll ==
    ASSUME CoreInv, IsDownloaded
    PROVE  Have = Segment /\ \A t \in Slots : pc[t] # "bytes"
<1> USE DEF CoreInv
<1>1. Have \in SUBSET Segment /\ Bytes(Have) \in Int
    BY HaveType, BytesType
<1>2. Have = Segment
    BY <1>1, BytesFull, SizeType DEF TrailInv, IsDownloaded
<1>3. ASSUME NEW t \in Slots, pc[t] = "bytes"
      PROVE  FALSE
    <2>1. PackageSize + GetSizeOfSegment(cur[t]) <= PackageSize
        BY <1>2, <1>3, BytesSegment DEF TrailInv, IsDownloaded
    <2>2. QED
        BY <2>1, SizeType DEF TypeOK
<1>4. QED
    BY <1>2, <1>3

\* A step that only moves a slot among the points where it holds nothing, or
\* that only the manager sees, leaves the core alone.
LEMMA QuietCore ==
    ASSUME CoreInv, TypeOK',
           UNCHANGED <<bitmap, downloadedBytes, partsInProgress, syncLock,
                       held, cur, areDownloaded>>,
           \A t \in Slots : pc'[t] = pc[t]
                             \/ (pc[t] \notin Running /\ pc'[t] \notin Running \union {"failed"})
    PROVE  CoreInv'
<1>1. Have' = Have
    BY DEF Have
<1>2. LockInv'
    BY DEF CoreInv, LockInv, Running
<1>3. HeldInv'
    BY <1>1 DEF CoreInv, HeldInv, Running, ReturnPCs
<1>4. TrailInv'
    BY <1>1 DEF CoreInv, TrailInv, Running, ReturnPCs
<1>5. ReturnNeverThrows'
    BY DEF CoreInv, ReturnNeverThrows
<1>6. QED
    BY <1>2, <1>3, <1>4, <1>5 DEF CoreInv

\* A claim takes segments that are neither downloaded nor claimed.
LEMMA SelectedEligible ==
    \A remote, start : TypeOK => /\ Selected(remote, start) \subseteq Eligible(remote)
                                 /\ remote \in (SUBSET Segment) \union {Null} =>
                                       Eligible(remote) \subseteq
                                          Segment \ (Have \union partsInProgress)
BY DEF Selected, Eligible

\* What a claim does when the bitmap is not null.
ClaimsSet(s, R) ==
    /\ R \subseteq Segment \ (Have \union partsInProgress)
    /\ partsInProgress' = partsInProgress \union R
    /\ progressBytesReserved' = progressBytesReserved + Bytes(R)
    /\ held' = [held EXCEPT ![s] = R]
    /\ pc' = [pc EXCEPT ![s] = IF R = {} THEN "idle" ELSE "downloading"]
    /\ UNCHANGED <<bitmap, downloadedBytes, isDownloading, syncLock, queued,
                   resuming, cur, areDownloaded, seenBytes>>
    /\ pc[s] = "enter" /\ syncLock = Null

LEMMA SelectClaims ==
    ASSUME TypeOK, NEW s \in Slots, TrySelectSegmentsForDownload(s), bitmap # Null
    PROVE  \E R : ClaimsSet(s, R)
<1>1. PICK remote \in (SUBSET Segment) \union {Null}, start \in 0..(GetBitmapSizeForPackage - 1) :
           LET result == Selected(remote, start)
           IN /\ partsInProgress' = partsInProgress \union result
              /\ progressBytesReserved' = progressBytesReserved + Bytes(result)
              /\ held' = [held EXCEPT ![s] = result]
              /\ pc' = [pc EXCEPT ![s] =
                          IF result = {} THEN "idle" ELSE "downloading"]
    BY DEF TrySelectSegmentsForDownload
<1> DEFINE R == Selected(remote, start)
<1>2. R \subseteq Segment \ (Have \union partsInProgress)
    BY SelectedEligible
<1>3. /\ partsInProgress' = partsInProgress \union R
      /\ progressBytesReserved' = progressBytesReserved + Bytes(R)
      /\ held' = [held EXCEPT ![s] = R]
      /\ pc' = [pc EXCEPT ![s] = IF R = {} THEN "idle" ELSE "downloading"]
    BY <1>1
<1> HIDE DEF R
<1>4. /\ UNCHANGED <<bitmap, downloadedBytes, isDownloading, syncLock, queued,
                     resuming, cur, areDownloaded, seenBytes>>
      /\ pc[s] = "enter" /\ syncLock = Null
    BY DEF TrySelectSegmentsForDownload
<1>5. QED
    BY <1>2, <1>3, <1>4 DEF ClaimsSet

LEMMA SelectCore ==
    ASSUME CoreInv, NEW s \in Slots, TrySelectSegmentsForDownload(s)
    PROVE  CoreInv'
<1> USE DEF CoreInv
<1>1. CASE bitmap = Null
    <2>1. TypeOK'
        BY <1>1 DEF TrySelectSegmentsForDownload, TypeOK, PCs, ledger
    <2>2. QED
        BY <1>1, <2>1, QuietCore
           DEF TrySelectSegmentsForDownload, TypeOK, Running, ReturnPCs, ledger
<1>2. CASE bitmap # Null
    <2>1. PICK R : ClaimsSet(s, R)
        BY <1>2, SelectClaims
    <2> USE <2>1 DEF ClaimsSet
    <2>5. Have' = Have /\ Have \in SUBSET Segment
        BY HaveType DEF Have
    \* Outside the lock everything that is held is in progress.
    <2>6. \A t \in Slots : held[t] \subseteq partsInProgress
        BY NullAssumption DEF LockInv, HeldInv, TypeOK, Running
    <2>8. TypeOK'
        <3>1. Bytes(R) \in Int
            BY BytesType
        <3>2. progressBytesReserved' \in Int
            BY <3>1 DEF TypeOK
        <3>3. pc' \in [Slots -> PCs] /\ held' \in [Slots -> SUBSET Segment]
            BY DEF TypeOK, PCs
        <3>4. QED
            BY <3>2, <3>3 DEF TypeOK
    <2>9. LockInv'
        BY DEF LockInv, TypeOK, ReturnPCs
    <2>10. HeldInv'
        <3>1. \A t \in Slots :
                /\ pc'[t] \notin Running => held'[t] = {}
                /\ pc'[t] = "complete" => held'[t] = {}
                /\ pc'[t] = "downloading" => held'[t] # {}
            BY DEF HeldInv, TypeOK, Running, ReturnPCs
        <3>2. \A t \in Slots : IF pc'[t] \in {"bytes", "reserved"}
                THEN areDownloaded'[t] /\ held'[t] \intersect Have' = {cur'[t]}
                ELSE held'[t] \intersect Have' = {}
            BY <2>5 DEF HeldInv, TypeOK
        <3>3. \A t, u \in Slots : t # u => held'[t] \intersect held'[u] = {}
            BY <2>6 DEF HeldInv, TypeOK
        <3>4. partsInProgress' =
                {k \in Segment : \E t \in Slots : pc'[t] = "downloading" /\ k \in held'[t]}
            BY DEF HeldInv, TypeOK
        <3>5. QED
            BY <3>1, <3>2, <3>3, <3>4 DEF HeldInv
    <2>11. TrailInv'
        BY <2>5 DEF TrailInv, TypeOK
    <2>13. ReturnNeverThrows'
        BY DEF ReturnNeverThrows, TypeOK
    <2>14. QED
        BY <2>8, <2>9, <2>10, <2>11, <2>13
<1>3. QED
    BY <1>1, <1>2

\* The exception of a completed package: a slot that is still downloading
\* holds a segment that is not there, so the counter cannot be full.
LEMMA DownloadingNotDownloaded ==
    ASSUME CoreInv, NEW s \in Slots, pc[s] = "downloading"
    PROVE  ~IsDownloaded /\ bitmap # Null
<1>1. held[s] # {} /\ held[s] \subseteq Segment /\ held[s] \intersect Have = {}
    BY DEF CoreInv, HeldInv, TypeOK
<1>2. Have # Segment
    BY <1>1
<1>3. QED
    BY <1>2, DownloadedHasAll DEF Have

\* What a return does when it begins.
BeginsReturn(s, ok) ==
    /\ pc[s] = "downloading" /\ syncLock = Null
    /\ partsInProgress' = partsInProgress \ held[s]
    /\ areDownloaded' = [areDownloaded EXCEPT ![s] = ok]
    /\ syncLock' = s
    /\ pc' = [pc EXCEPT ![s] = "loop"]
    /\ UNCHANGED <<bitmap, downloadedBytes, isDownloading,
                   progressBytesReserved, queued, resuming, held, cur, seenBytes>>

LEMMA BeginReturnBegins ==
    ASSUME CoreInv, NEW s \in Slots, NEW ok \in BOOLEAN, BeginReturn(s, ok)
    PROVE  BeginsReturn(s, ok)
<1>1. ~IsDownloaded
    BY DownloadingNotDownloaded DEF BeginReturn
<1>2. QED
    BY <1>1 DEF BeginReturn, BeginsReturn

LEMMA BeginReturnCore ==
    ASSUME CoreInv, NEW s \in Slots, NEW ok \in BOOLEAN, BeginReturn(s, ok)
    PROVE  CoreInv'
<1> USE DEF CoreInv
<1>2. BeginsReturn(s, ok)
    BY BeginReturnBegins
<1> USE <1>2 DEF BeginsReturn
<1>3. Have' = Have
    BY DEF Have
<1>4. \A t \in Slots : pc[t] \notin ReturnPCs
    BY NullAssumption DEF LockInv
<1>5. TypeOK'
    BY DEF TypeOK, PCs, ReturnPCs
<1>6. LockInv'
    BY <1>4 DEF LockInv, TypeOK, ReturnPCs
<1>7. HeldInv'
    <2>1. \A t \in Slots :
            /\ pc'[t] \notin Running => held'[t] = {}
            /\ pc'[t] = "complete" => held'[t] = {}
            /\ pc'[t] = "downloading" => held'[t] # {}
        BY DEF HeldInv, TypeOK, Running, ReturnPCs
    <2>2. \A t \in Slots : IF pc'[t] \in {"bytes", "reserved"}
            THEN areDownloaded'[t] /\ held'[t] \intersect Have' = {cur'[t]}
            ELSE held'[t] \intersect Have' = {}
        BY <1>3, <1>4 DEF HeldInv, TypeOK, ReturnPCs
    <2>3. \A t, u \in Slots : t # u => held'[t] \intersect held'[u] = {}
        BY DEF HeldInv
    <2>4. partsInProgress' =
            {k \in Segment : \E t \in Slots : pc'[t] = "downloading" /\ k \in held'[t]}
        BY <2>3 DEF HeldInv, TypeOK
    <2>5. QED
        BY <2>1, <2>2, <2>3, <2>4 DEF HeldInv
<1>8. TrailInv'
    BY <1>3, <1>4 DEF TrailInv, TypeOK, ReturnPCs
<1>10. ReturnNeverThrows'
    BY DEF ReturnNeverThrows, TypeOK
<1>11. QED
    BY <1>5, <1>6, <1>7, <1>8, <1>10

\* What the first store of a turn does: the bitmap is not null.
Marks(s, k) ==
    /\ pc[s] = "loop" /\ k \in held[s] /\ areDownloaded[s]
    /\ k \notin Have /\ bitmap # Null
    /\ bitmap' = bitmap \union {k} /\ bitmap' # Null
    /\ Have' = Have \union {k}
    /\ cur' = [cur EXCEPT ![s] = k]
    /\ pc' = [pc EXCEPT ![s] = "bytes"]
    /\ UNCHANGED <<downloadedBytes, isDownloading, partsInProgress,
                   progressBytesReserved, syncLock, queued, resuming,
                   held, areDownloaded, seenBytes>>

LEMMA MarkSegmentMarks ==
    ASSUME TypeOK, HeldInv, NEW s \in Slots, NEW k \in Segment, MarkSegment(s, k)
    PROVE  Marks(s, k)
<1>1. k \notin Have
    BY DEF MarkSegment, HeldInv
<1>2. bitmap # Null
    BY <1>1 DEF Have
<1>3. bitmap' = bitmap \union {k}
    BY <1>2 DEF MarkSegment
<1>4. bitmap' # Null
    BY <1>2, <1>3, NullAssumption DEF TypeOK
<1>5. Have' = Have \union {k}
    BY <1>2, <1>3, <1>4 DEF Have
<1>6. QED
    BY <1>1, <1>2, <1>3, <1>4, <1>5 DEF MarkSegment, Marks

LEMMA MarkSegmentCore ==
    ASSUME CoreInv, NEW s \in Slots, NEW k \in Segment, MarkSegment(s, k)
    PROVE  CoreInv'
<1> USE DEF CoreInv
<1>3. Marks(s, k)
    BY MarkSegmentMarks
<1> USE <1>3 DEF Marks
<1>4. TypeOK'
    BY DEF TypeOK, PCs, ReturnPCs
<1>6. Have \in SUBSET Segment
    BY HaveType
<1>7. \A t \in Slots : pc[t] \in ReturnPCs => t = s
    BY DEF LockInv, ReturnPCs
<1>8. LockInv'
    BY DEF LockInv, TypeOK, ReturnPCs
<1>9. HeldInv'
    <2>1. \A t \in Slots :
            /\ pc'[t] \notin Running => held'[t] = {}
            /\ pc'[t] = "complete" => held'[t] = {}
            /\ pc'[t] = "downloading" => held'[t] # {}
        BY DEF HeldInv, TypeOK, Running, ReturnPCs
    <2>2. \A t \in Slots : t # s => k \notin held[t]
        BY DEF HeldInv
    <2>3. held[s] \intersect Have = {}
        BY DEF HeldInv
    <2>4. \A t \in Slots : IF pc'[t] \in {"bytes", "reserved"}
            THEN areDownloaded'[t] /\ held'[t] \intersect Have' = {cur'[t]}
            ELSE held'[t] \intersect Have' = {}
        <3> SUFFICES ASSUME NEW t \in Slots
                     PROVE  IF pc'[t] \in {"bytes", "reserved"}
                            THEN areDownloaded'[t] /\ held'[t] \intersect Have' = {cur'[t]}
                            ELSE held'[t] \intersect Have' = {}
            OBVIOUS
        <3>1. CASE t = s
            BY <2>3, <3>1 DEF TypeOK
        <3>2. CASE t # s
            BY <1>7, <2>2, <3>2 DEF HeldInv, TypeOK, ReturnPCs
        <3>3. QED
            BY <3>1, <3>2
    <2>5. partsInProgress' =
            {j \in Segment : \E t \in Slots : pc'[t] = "downloading" /\ j \in held'[t]}
        BY DEF HeldInv, TypeOK
    <2>6. QED
        BY <2>1, <2>4, <2>5 DEF HeldInv
<1>10. TrailInv'
    <2>1. Bytes(Have') = Bytes(Have) + GetSizeOfSegment(k)
        BY <1>6, BytesUnion, BytesSingle
    <2>2. /\ downloadedBytes' + GetSizeOfSegment(k) <= Bytes(Have')
          /\ downloadedBytes' <= Bytes(Have')
        BY <2>1, <1>6, BytesType, SizeType DEF TrailInv, TypeOK
    <2>3. \A t \in Slots : pc'[t] = "bytes" => t = s
        BY <1>7 DEF TypeOK, ReturnPCs
    <2>4. cur'[s] = k
        BY DEF TypeOK
    <2>5. \A t \in Slots : pc'[t] # "complete"
        BY <1>7 DEF TypeOK, ReturnPCs
    <2>6. QED
        BY <2>2, <2>3, <2>4, <2>5 DEF TrailInv
<1>12. ReturnNeverThrows'
    BY DEF ReturnNeverThrows, TypeOK
<1>13. QED
    BY <1>4, <1>8, <1>9, <1>10, <1>12

LEMMA AddDownloadedBytesCore ==
    ASSUME CoreInv, NEW s \in Slots, AddDownloadedBytes(s)
    PROVE  CoreInv'
<1> USE DEF CoreInv
<1>1. /\ pc[s] = "bytes"
      /\ downloadedBytes' = downloadedBytes + GetSizeOfSegment(cur[s])
      /\ pc' = [pc EXCEPT ![s] = "reserved"]
      /\ UNCHANGED <<bitmap, isDownloading, partsInProgress, progressBytesReserved,
                     syncLock, queued, resuming, held, cur, areDownloaded, seenBytes>>
    BY DEF AddDownloadedBytes, local
<1>2. Have' = Have
    BY <1>1 DEF Have
<1>3. \A t \in Slots : pc[t] \in ReturnPCs => t = s
    BY <1>1 DEF LockInv, ReturnPCs
<1>4. TypeOK'
    BY <1>1, SizeType DEF TypeOK, PCs, ReturnPCs
<1>5. LockInv'
    BY <1>1 DEF LockInv, TypeOK, ReturnPCs
<1>6. HeldInv'
    BY <1>1, <1>2 DEF HeldInv, TypeOK, Running, ReturnPCs
<1>8. TrailInv'
    BY <1>1, <1>2, <1>3 DEF TrailInv, TypeOK, ReturnPCs
<1>11. ReturnNeverThrows'
    BY <1>1 DEF ReturnNeverThrows, TypeOK
<1>12. QED
    BY <1>4, <1>5, <1>6, <1>8, <1>11

LEMMA ReleaseReservedCore ==
    ASSUME CoreInv, NEW s \in Slots, NEW k \in Segment, ReleaseReserved(s, k)
    PROVE  CoreInv'
<1> USE DEF CoreInv
<1>1. /\ \/ pc[s] = "reserved" /\ k = cur[s]
         \/ pc[s] = "loop" /\ ~areDownloaded[s]
      /\ k \in held[s]
      /\ progressBytesReserved' = progressBytesReserved - GetSizeOfSegment(k)
      /\ held' = [held EXCEPT ![s] = held[s] \ {k}]
      /\ pc' = [pc EXCEPT ![s] = "loop"]
      /\ UNCHANGED <<bitmap, downloadedBytes, isDownloading, partsInProgress,
                     syncLock, queued, resuming, cur, areDownloaded, seenBytes>>
    BY DEF ReleaseReserved
<1>2. Have' = Have
    BY <1>1 DEF Have
<1>3. \A t \in Slots : pc[t] \in ReturnPCs => t = s
    BY <1>1 DEF LockInv, ReturnPCs
<1>4. TypeOK'
    BY <1>1, SizeType DEF TypeOK, PCs, ReturnPCs
<1>5. LockInv'
    BY <1>1 DEF LockInv, TypeOK, ReturnPCs
<1>6. HeldInv'
    <2>1. \A t \in Slots :
            /\ pc'[t] \notin Running => held'[t] = {}
            /\ pc'[t] = "complete" => held'[t] = {}
            /\ pc'[t] = "downloading" => held'[t] # {}
        BY <1>1 DEF HeldInv, TypeOK, Running, ReturnPCs
    <2>2. (held[s] \ {k}) \intersect Have = {}
        BY <1>1 DEF HeldInv
    <2>3. \A t \in Slots : IF pc'[t] \in {"bytes", "reserved"}
            THEN areDownloaded'[t] /\ held'[t] \intersect Have' = {cur'[t]}
            ELSE held'[t] \intersect Have' = {}
        BY <1>1, <1>2, <2>2 DEF HeldInv, TypeOK
    <2>4. \A t, u \in Slots : t # u => held'[t] \intersect held'[u] = {}
        BY <1>1 DEF HeldInv, TypeOK
    <2>5. partsInProgress' =
            {j \in Segment : \E t \in Slots : pc'[t] = "downloading" /\ j \in held'[t]}
        BY <1>1 DEF HeldInv, TypeOK
    <2>6. QED
        BY <2>1, <2>3, <2>4, <2>5 DEF HeldInv
<1>7. TrailInv'
    BY <1>1, <1>2 DEF TrailInv, TypeOK
<1>9. ReturnNeverThrows'
    BY <1>1 DEF ReturnNeverThrows, TypeOK
<1>10. QED
    BY <1>4, <1>5, <1>6, <1>7, <1>9

\* The two steps that may replace a full bitmap by null keep what it says.
LEMMA DropKeepsHave ==
    ASSUME CoreInv, Stop \/ \E s \in Slots : EndReturn(s)
    PROVE  Have' = Have
<1>1. CASE bitmap' = bitmap
    BY <1>1 DEF Have
<1>2. CASE bitmap' # bitmap
    <2>1. IsDownloaded /\ bitmap' = Null
        BY <1>2 DEF Stop, EndReturn
    <2>2. QED
        BY <2>1, DownloadedHasAll DEF Have
<1>3. QED
    BY <1>1, <1>2

LEMMA EndReturnCore ==
    ASSUME CoreInv, NEW s \in Slots, EndReturn(s)
    PROVE  CoreInv'
<1> USE DEF CoreInv
<1>1. /\ pc[s] = "loop" /\ held[s] = {}
      /\ UNCHANGED <<downloadedBytes, isDownloading, partsInProgress,
                     progressBytesReserved, queued, resuming, held, cur,
                     areDownloaded, seenBytes>>
    BY DEF EndReturn, local
<1>2. \A t \in Slots : pc[t] \in ReturnPCs => t = s
    BY <1>1 DEF LockInv, ReturnPCs
<1>3. Have' = Have
    BY DropKeepsHave
<1>4. CASE IsDownloaded
    <2>1. bitmap' = Null /\ syncLock' = syncLock /\ pc' = [pc EXCEPT ![s] = "complete"]
        BY <1>4 DEF EndReturn
    <2>3. TypeOK'
        BY <1>1, <2>1 DEF TypeOK, PCs, ReturnPCs
    <2>4. LockInv'
        BY <1>1, <2>1 DEF LockInv, TypeOK, ReturnPCs
    <2>5. HeldInv'
        BY <1>1, <1>3, <2>1 DEF HeldInv, TypeOK, Running, ReturnPCs
    <2>6. TrailInv'
        BY <1>1, <1>2, <1>3, <2>1 DEF TrailInv, TypeOK, ReturnPCs
    <2>8. ReturnNeverThrows'
        BY <2>1 DEF ReturnNeverThrows, TypeOK
    <2>9. QED
        BY <2>3, <2>4, <2>5, <2>6, <2>8
<1>5. CASE ~IsDownloaded
    <2>1. bitmap' = bitmap /\ syncLock' = Null /\ pc' = [pc EXCEPT ![s] = "idle"]
        BY <1>5 DEF EndReturn
    <2>3. TypeOK'
        BY <1>1, <2>1 DEF TypeOK, PCs
    <2>4. LockInv'
        BY <1>1, <1>2, <2>1, NullAssumption DEF LockInv, TypeOK, ReturnPCs
    <2>5. HeldInv'
        BY <1>1, <1>3, <2>1 DEF HeldInv, TypeOK, Running, ReturnPCs
    <2>6. TrailInv'
        BY <1>1, <1>2, <1>3, <2>1 DEF TrailInv, TypeOK, ReturnPCs
    <2>9. ReturnNeverThrows'
        BY <2>1 DEF ReturnNeverThrows, TypeOK
    <2>10. QED
        BY <2>3, <2>4, <2>5, <2>6, <2>9
<1>6. QED
    BY <1>4, <1>5

LEMMA CompletePackageCore ==
    ASSUME CoreInv, NEW s \in Slots, CompletePackage(s)
    PROVE  CoreInv'
<1> USE DEF CoreInv
<1>1. /\ pc[s] = "complete" /\ isDownloading' = FALSE /\ syncLock' = Null
      /\ pc' = [pc EXCEPT ![s] = "idle"]
      /\ UNCHANGED <<bitmap, downloadedBytes, partsInProgress, progressBytesReserved,
                     queued, resuming, held, cur, areDownloaded, seenBytes>>
    BY DEF CompletePackage, local
<1>2. Have' = Have
    BY <1>1 DEF Have
<1>3. \A t \in Slots : pc[t] \in ReturnPCs => t = s
    BY <1>1 DEF LockInv, ReturnPCs
<1>4. TypeOK'
    BY <1>1 DEF TypeOK, PCs
<1>5. LockInv'
    BY <1>1, <1>3, NullAssumption DEF LockInv, TypeOK, ReturnPCs
<1>6. HeldInv'
    BY <1>1, <1>2 DEF HeldInv, TypeOK, Running, ReturnPCs
<1>7. TrailInv'
    BY <1>1, <1>2 DEF TrailInv, TypeOK
<1>9. ReturnNeverThrows'
    BY <1>1 DEF ReturnNeverThrows, TypeOK
<1>10. QED
    BY <1>4, <1>5, <1>6, <1>7, <1>9

\* The manager's stop writes without syncLock: it may null the bitmap in the
\* middle of the return that completes the package.
LEMMA StopCore ==
    ASSUME CoreInv, Stop
    PROVE  CoreInv'
<1> USE DEF CoreInv
<1>1. /\ bitmap' = IF IsDownloaded THEN Null ELSE bitmap
      /\ isDownloading' = FALSE
      /\ queued' = FALSE
      /\ UNCHANGED <<downloadedBytes, partsInProgress, progressBytesReserved,
                     syncLock, resuming, pc, held, cur, areDownloaded, seenBytes>>
    BY DEF Stop, local
<1>2. Have' = Have
    BY DropKeepsHave
<1>4. TypeOK'
    BY <1>1 DEF TypeOK
<1>5. LockInv' /\ ReturnNeverThrows'
    BY <1>1 DEF LockInv, ReturnNeverThrows
<1>6. HeldInv'
    BY <1>1, <1>2 DEF HeldInv
<1>7. TrailInv'
    BY <1>1, <1>2 DEF TrailInv
<1>9. QED
    BY <1>4, <1>5, <1>6, <1>7

\* The steps that touch neither a segment nor a counter.
QuietStep ==
    \/ CheckBeforeResume \/ Resume \/ UNCHANGED vars
    \/ \E s \in Slots : ReadDownloadedBytes(s) \/ IsMoreToDownload(s)
                           \/ CheckBeforeSelect(s)

LEMMA QuietStepsAreQuiet ==
    ASSUME TypeOK, QuietStep
    PROVE  /\ TypeOK'
           /\ UNCHANGED <<bitmap, downloadedBytes, partsInProgress, progressBytesReserved,
                          syncLock, held, cur, areDownloaded>>
           /\ \A t \in Slots : pc'[t] = pc[t]
                 \/ (pc[t] \notin Running /\ pc'[t] \notin Running \union {"failed"})
<1>1. CASE CheckBeforeResume \/ Resume \/ UNCHANGED vars
    <2>1. TypeOK'
        BY <1>1 DEF CheckBeforeResume, Resume, TypeOK, vars, ledger, local
    <2>2. QED
        BY <1>1, <2>1 DEF CheckBeforeResume, Resume, vars, ledger, local
<1>2. ASSUME NEW s \in Slots,
             ReadDownloadedBytes(s) \/ IsMoreToDownload(s) \/ CheckBeforeSelect(s)
      PROVE  /\ TypeOK'
             /\ UNCHANGED <<bitmap, downloadedBytes, partsInProgress, progressBytesReserved,
                            syncLock, held, cur, areDownloaded>>
             /\ \A t \in Slots : pc'[t] = pc[t]
                   \/ (pc[t] \notin Running /\ pc'[t] \notin Running \union {"failed"})
    <2>1. TypeOK'
        BY <1>2 DEF ReadDownloadedBytes, IsMoreToDownload, CheckBeforeSelect,
                    TypeOK, PCs, TryStartPCs, ledger, local
    <2>2. \A t \in Slots : pc'[t] = pc[t]
              \/ (pc[t] \notin Running /\ pc'[t] \notin Running \union {"failed"})
        BY <1>2 DEF ReadDownloadedBytes, IsMoreToDownload, CheckBeforeSelect,
                    TypeOK, Running, ReturnPCs
    <2>3. UNCHANGED <<bitmap, downloadedBytes, partsInProgress, progressBytesReserved,
                      syncLock, held, cur, areDownloaded>>
        BY <1>2 DEF ReadDownloadedBytes, IsMoreToDownload, CheckBeforeSelect, ledger, local
    <2>4. QED
        BY <2>1, <2>2, <2>3
<1>3. QED
    BY <1>1, <1>2 DEF QuietStep

LEMMA NextCore == CoreInv /\ [Next]_vars => CoreInv'
<1> SUFFICES ASSUME CoreInv, [Next]_vars
             PROVE  CoreInv'
    OBVIOUS
<1>1. CASE QuietStep
    BY <1>1, QuietStepsAreQuiet, QuietCore DEF CoreInv
<1>2. CASE Stop
    BY <1>2, StopCore
<1>3. ASSUME NEW s \in Slots, SlotStep(s), ~QuietStep
      PROVE  CoreInv'
    <2>2. CASE TrySelectSegmentsForDownload(s)
        BY <2>2, SelectCore
    <2>3. CASE \E ok \in BOOLEAN : BeginReturn(s, ok)
        BY <2>3, BeginReturnCore
    <2>4. CASE \E k \in Segment : MarkSegment(s, k)
        BY <2>4, MarkSegmentCore
    <2>5. CASE \E k \in Segment : ReleaseReserved(s, k)
        BY <2>5, ReleaseReservedCore
    <2>6. CASE AddDownloadedBytes(s)
        BY <2>6, AddDownloadedBytesCore
    <2>7. CASE EndReturn(s)
        BY <2>7, EndReturnCore
    <2>8. CASE CompletePackage(s)
        BY <2>8, CompletePackageCore
    <2>9. QED
        BY <1>3, <2>2, <2>3, <2>4, <2>5, <2>6, <2>7, <2>8 DEF SlotStep, QuietStep
<1>4. QED
    BY <1>1, <1>2, <1>3 DEF Next, QuietStep

-----------------------------------------------------------------------------
(* The ledger invariant: the counters are exact. *)

\* The counter trails the bitmap by the segment whose bit was just set.
LEMMA CounterTrails ==
    ASSUME LedgerInv
    PROVE  downloadedBytes <= Bytes(Have)
<1>1. Bytes(Have) \in Int /\ downloadedBytes \in Int
    BY HaveType, BytesType DEF LedgerInv, TypeOK
<1>2. CASE \E s \in Slots : pc[s] = "bytes"
    <2>1. PICK s \in Slots : pc[s] = "bytes"
        BY <1>2
    <2>2. downloadedBytes + GetSizeOfSegment(cur[s]) = Bytes(Have)
        BY <2>1 DEF LedgerInv, CountInv
    <2>3. cur[s] \in Segment
        BY DEF LedgerInv, TypeOK
    <2>4. GetSizeOfSegment(cur[s]) \in Nat
        BY <2>3, LedgerAssumption DEF GetSizeOfSegment
    <2>5. QED
        BY <1>1, <2>2, <2>4
<1>3. CASE \A s \in Slots : pc[s] # "bytes"
    BY <1>1, <1>3 DEF LedgerInv, CountInv
<1>4. QED
    BY <1>2, <1>3

LEMMA LedgerIsCore == LedgerInv => CoreInv
<1> SUFFICES ASSUME LedgerInv
             PROVE  CoreInv
    OBVIOUS
<1>1. TrailInv
    <2>1. Bytes(Have) \in Int
        BY HaveType, BytesType DEF LedgerInv
    <2>2. QED
        BY <2>1, CounterTrails DEF LedgerInv, TrailInv, CountInv, NullInv
<1>2. QED
    BY <1>1 DEF LedgerInv, CoreInv

LEMMA InitLedgerInv == Init => LedgerInv
<1> SUFFICES ASSUME Init
             PROVE  LedgerInv
    OBVIOUS
<1>1. Have \in SUBSET Segment /\ downloadedBytes \in Int
    BY BytesType DEF Init, Have
<1>2. TypeOK
    <2>1. isDownloading \in BOOLEAN /\ queued \in BOOLEAN /\ resuming \in BOOLEAN
        BY DEF Init
    <2>2. bitmap \in (SUBSET Segment) \union {Null}
        BY DEF Init
    <2>3. /\ pc \in [Slots -> PCs] /\ held \in [Slots -> SUBSET Segment]
          /\ cur \in [Slots -> Segment] /\ areDownloaded \in [Slots -> BOOLEAN]
          /\ seenBytes \in [Slots -> Int]
        BY SegmentFinite DEF Init, PCs
    <2>4. /\ partsInProgress \in SUBSET Segment /\ progressBytesReserved \in Int
          /\ syncLock \in Slots \union {Null}
        BY DEF Init
    <2>5. QED
        BY <1>1, <2>1, <2>2, <2>3, <2>4 DEF TypeOK
<1>3. LockInv /\ HeldInv /\ ReturnNeverThrows
    BY NullAssumption DEF Init, LockInv, HeldInv, ReturnNeverThrows, Running, ReturnPCs
<1>4. CountInv
    <2>1. AllHeld = {}
        BY DEF Init, AllHeld
    <2>2. QED
        BY <2>1, BytesEmpty DEF Init, CountInv
<1>5. NullInv
    BY BytesSegment, NullAssumption DEF Init, NullInv, Have, IsDownloaded
<1>6. QED
    BY <1>2, <1>3, <1>4, <1>5 DEF LedgerInv

\* Only the exactness of the counters remains to be shown of each step.
ExactInv == CountInv /\ NullInv

LEMMA QuietExact ==
    ASSUME LedgerInv, QuietStep
    PROVE  ExactInv'
<1>1. /\ UNCHANGED <<bitmap, downloadedBytes, progressBytesReserved, held, cur>>
      /\ \A t \in Slots : pc'[t] = pc[t]
            \/ (pc[t] \notin Running /\ pc'[t] \notin Running \union {"failed"})
    BY QuietStepsAreQuiet DEF LedgerInv
<1>2. Have' = Have /\ AllHeld' = AllHeld
    BY <1>1 DEF Have, AllHeld
<1>3. CountInv'
    BY <1>1, <1>2 DEF LedgerInv, CountInv, Running, ReturnPCs
<1>4. NullInv'
    BY <1>1 DEF LedgerInv, NullInv, Running, ReturnPCs, IsDownloaded
<1>5. QED
    BY <1>3, <1>4 DEF ExactInv

LEMMA SelectExact ==
    ASSUME LedgerInv, NEW s \in Slots, TrySelectSegmentsForDownload(s)
    PROVE  ExactInv'
<1> USE DEF LedgerInv
<1>1. CASE bitmap = Null
    <2>1. /\ UNCHANGED <<bitmap, downloadedBytes, progressBytesReserved, held, cur>>
          /\ pc[s] = "enter" /\ pc' = [pc EXCEPT ![s] = "idle"]
        BY <1>1 DEF TrySelectSegmentsForDownload, ledger
    <2>2. Have' = Have /\ AllHeld' = AllHeld
        BY <2>1 DEF Have, AllHeld
    <2>3. QED
        BY <2>1, <2>2 DEF ExactInv, CountInv, NullInv, TypeOK, IsDownloaded
<1>2. CASE bitmap # Null
    <2>1. PICK R : ClaimsSet(s, R)
        BY <1>2, SelectClaims
    <2> USE <2>1 DEF ClaimsSet
    <2>2. Have' = Have /\ Have \in SUBSET Segment
        BY HaveType DEF Have
    \* Outside the lock everything that is held is in progress.
    <2>3. \A t \in Slots : held[t] \subseteq partsInProgress
        BY NullAssumption DEF LockInv, HeldInv, TypeOK, Running
    <2>4. held[s] = {}
        BY DEF HeldInv, Running, ReturnPCs
    <2>5. CountInv'
        <3>1. AllHeld' = AllHeld \union R /\ AllHeld \intersect R = {}
            BY <2>3, <2>4 DEF AllHeld, TypeOK
        <3>2. AllHeld \in SUBSET Segment
            BY DEF AllHeld
        <3>3. progressBytesReserved' = Bytes(AllHeld')
            BY <3>1, <3>2, BytesUnion DEF CountInv
        <3>4. \A t \in Slots : pc'[t] = "bytes" <=> pc[t] = "bytes"
            BY DEF TypeOK
        <3>5. QED
            BY <2>2, <3>3, <3>4 DEF CountInv
    <2>6. NullInv'
        BY DEF NullInv, TypeOK, IsDownloaded
    <2>7. QED
        BY <2>5, <2>6 DEF ExactInv
<1>3. QED
    BY <1>1, <1>2

LEMMA BeginReturnExact ==
    ASSUME LedgerInv, NEW s \in Slots, NEW ok \in BOOLEAN, BeginReturn(s, ok)
    PROVE  ExactInv'
<1> USE DEF LedgerInv
<1>1. BeginsReturn(s, ok)
    BY BeginReturnBegins, LedgerIsCore
<1> USE <1>1 DEF BeginsReturn
<1>2. Have' = Have /\ AllHeld' = AllHeld
    BY DEF Have, AllHeld
<1>3. \A t \in Slots : pc[t] \notin ReturnPCs
    BY NullAssumption DEF LockInv
<1>4. CountInv'
    BY <1>2, <1>3 DEF CountInv, TypeOK, ReturnPCs
<1>5. NullInv'
    BY DEF NullInv, TypeOK, IsDownloaded
<1>6. QED
    BY <1>4, <1>5 DEF ExactInv

LEMMA MarkSegmentExact ==
    ASSUME LedgerInv, NEW s \in Slots, NEW k \in Segment, MarkSegment(s, k)
    PROVE  ExactInv'
<1> USE DEF LedgerInv
<1>1. Marks(s, k)
    BY MarkSegmentMarks
<1> USE <1>1 DEF Marks
<1>2. Have \in SUBSET Segment
    BY HaveType
<1>3. \A t \in Slots : pc[t] \in ReturnPCs => t = s
    BY DEF LockInv, ReturnPCs
<1>4. CountInv'
    <2>1. Bytes(Have') = Bytes(Have) + GetSizeOfSegment(k)
        BY <1>2, BytesUnion, BytesSingle
    <2>2. downloadedBytes = Bytes(Have)
        BY <1>3 DEF CountInv, ReturnPCs
    <2>3. AllHeld' = AllHeld
        BY DEF AllHeld
    <2>4. \A t \in Slots : pc'[t] = "bytes" <=> t = s
        BY <1>3 DEF TypeOK, ReturnPCs
    <2>5. cur'[s] = k
        BY DEF TypeOK
    <2>6. QED
        BY <2>1, <2>2, <2>3, <2>4, <2>5 DEF CountInv
<1>5. NullInv'
    BY <1>3 DEF NullInv, TypeOK, ReturnPCs
<1>6. QED
    BY <1>4, <1>5 DEF ExactInv

LEMMA AddDownloadedBytesExact ==
    ASSUME LedgerInv, NEW s \in Slots, AddDownloadedBytes(s)
    PROVE  ExactInv'
<1> USE DEF LedgerInv
<1>1. /\ pc[s] = "bytes"
      /\ downloadedBytes' = downloadedBytes + GetSizeOfSegment(cur[s])
      /\ pc' = [pc EXCEPT ![s] = "reserved"]
      /\ UNCHANGED <<bitmap, progressBytesReserved, held, cur>>
    BY DEF AddDownloadedBytes, local
<1>2. Have' = Have /\ AllHeld' = AllHeld
    BY <1>1 DEF Have, AllHeld
<1>3. \A t \in Slots : pc[t] \in ReturnPCs => t = s
    BY <1>1 DEF LockInv, ReturnPCs
<1>4. downloadedBytes' = Bytes(Have)
    BY <1>1 DEF CountInv
<1>5. CountInv'
    BY <1>1, <1>2, <1>3, <1>4 DEF CountInv, TypeOK, ReturnPCs
<1>6. bitmap # Null
    BY <1>1, LedgerIsCore, DownloadedHasAll DEF NullInv
<1>7. NullInv'
    BY <1>1, <1>6 DEF NullInv, TypeOK
<1>8. QED
    BY <1>5, <1>7 DEF ExactInv

LEMMA ReleaseReservedExact ==
    ASSUME LedgerInv, NEW s \in Slots, NEW k \in Segment, ReleaseReserved(s, k)
    PROVE  ExactInv'
<1> USE DEF LedgerInv
<1>1. /\ \/ pc[s] = "reserved" /\ k = cur[s]
         \/ pc[s] = "loop" /\ ~areDownloaded[s]
      /\ k \in held[s]
      /\ progressBytesReserved' = progressBytesReserved - GetSizeOfSegment(k)
      /\ held' = [held EXCEPT ![s] = held[s] \ {k}]
      /\ pc' = [pc EXCEPT ![s] = "loop"]
      /\ UNCHANGED <<bitmap, downloadedBytes, cur>>
    BY DEF ReleaseReserved
<1>2. Have' = Have
    BY <1>1 DEF Have
<1>3. \A t \in Slots : pc[t] \in ReturnPCs => t = s
    BY <1>1 DEF LockInv, ReturnPCs
<1>4. CountInv'
    <2>1. AllHeld = AllHeld' \union {k} /\ k \notin AllHeld'
        BY <1>1 DEF AllHeld, HeldInv, TypeOK
    <2>2. AllHeld' \in SUBSET Segment
        BY DEF AllHeld
    <2>3. Bytes(AllHeld) = Bytes(AllHeld') + GetSizeOfSegment(k)
        BY <2>1, <2>2, BytesUnion, BytesSingle
    <2>4. progressBytesReserved' = Bytes(AllHeld')
        BY <1>1, <2>2, <2>3, BytesType, SizeType DEF CountInv
    <2>5. \A t \in Slots : pc'[t] = "bytes" <=> pc[t] = "bytes"
        BY <1>1 DEF TypeOK
    <2>6. QED
        BY <1>1, <1>2, <2>4, <2>5 DEF CountInv
<1>5. NullInv'
    BY <1>1, <1>3 DEF NullInv, TypeOK, IsDownloaded, ReturnPCs
<1>6. QED
    BY <1>4, <1>5 DEF ExactInv

\* With no store of a segment pending, a full counter means a full bitmap.
LEMMA FullCounter ==
    ASSUME LedgerInv, \A t \in Slots : pc[t] # "bytes"
    PROVE  IsDownloaded <=> Have = Segment
BY BytesFull, BytesSegment, HaveType DEF LedgerInv, CountInv, IsDownloaded

LEMMA EndReturnExact ==
    ASSUME LedgerInv, NEW s \in Slots, EndReturn(s)
    PROVE  ExactInv'
<1> USE DEF LedgerInv
<1>1. /\ pc[s] = "loop"
      /\ UNCHANGED <<downloadedBytes, progressBytesReserved, held, cur>>
    BY DEF EndReturn, local
<1>2. \A t \in Slots : pc[t] \in ReturnPCs => t = s
    BY <1>1 DEF LockInv, ReturnPCs
<1>3. Have' = Have /\ AllHeld' = AllHeld
    BY <1>1, LedgerIsCore, DropKeepsHave DEF AllHeld
<1>4. \A t \in Slots : pc'[t] \notin {"bytes", "reserved", "loop"}
    BY <1>2 DEF EndReturn, TypeOK, ReturnPCs
<1>5. CountInv'
    BY <1>1, <1>2, <1>3, <1>4 DEF CountInv, ReturnPCs
<1>6. CASE IsDownloaded
    <2>1. bitmap' = Null
        BY <1>6 DEF EndReturn
    <2>2. NullInv'
        BY <1>1, <1>6, <2>1, NullAssumption DEF NullInv, IsDownloaded
    <2>3. QED
        BY <1>5, <2>2 DEF ExactInv
<1>7. CASE ~IsDownloaded
    <2>1. bitmap' = bitmap /\ pc' = [pc EXCEPT ![s] = "idle"]
        BY <1>7 DEF EndReturn
    <2>2. bitmap # Segment /\ bitmap # Null
        BY <1>1, <1>2, <1>7, FullCounter DEF Have, ReturnPCs
    <2>3. NullInv'
        BY <1>2, <2>1, <2>2 DEF NullInv, TypeOK, ReturnPCs
    <2>4. QED
        BY <1>5, <2>3 DEF ExactInv
<1>8. QED
    BY <1>6, <1>7

LEMMA CompletePackageExact ==
    ASSUME LedgerInv, NEW s \in Slots, CompletePackage(s)
    PROVE  ExactInv'
<1> USE DEF LedgerInv
<1>1. /\ pc[s] = "complete" /\ pc' = [pc EXCEPT ![s] = "idle"]
      /\ UNCHANGED <<bitmap, downloadedBytes, progressBytesReserved, held, cur>>
    BY DEF CompletePackage, local
<1>2. Have' = Have /\ AllHeld' = AllHeld
    BY <1>1 DEF Have, AllHeld
<1>3. CountInv'
    BY <1>1, <1>2 DEF CountInv, TypeOK
<1>4. NullInv'
    BY <1>1, NullAssumption DEF NullInv, TypeOK, IsDownloaded
<1>5. QED
    BY <1>3, <1>4 DEF ExactInv

LEMMA StopExact ==
    ASSUME LedgerInv, Stop
    PROVE  ExactInv'
<1> USE DEF LedgerInv
<1>1. /\ bitmap' = IF IsDownloaded THEN Null ELSE bitmap
      /\ UNCHANGED <<downloadedBytes, progressBytesReserved, pc, held, cur>>
    BY DEF Stop, local
<1>2. Have' = Have /\ AllHeld' = AllHeld
    BY <1>1, LedgerIsCore, DropKeepsHave DEF AllHeld
<1>3. CountInv'
    BY <1>1, <1>2 DEF CountInv
<1>4. NullInv'
    BY <1>1, NullAssumption DEF NullInv, IsDownloaded
<1>5. QED
    BY <1>3, <1>4 DEF ExactInv

LEMMA NextLedgerInv == LedgerInv /\ [Next]_vars => LedgerInv'
<1> SUFFICES ASSUME LedgerInv, [Next]_vars
             PROVE  LedgerInv'
    OBVIOUS
<1>1. CoreInv'
    BY LedgerIsCore, NextCore
<1>2. ExactInv'
    <2>1. CASE QuietStep
        BY <2>1, QuietExact
    <2>2. CASE Stop
        BY <2>2, StopExact
    <2>3. ASSUME NEW s \in Slots, SlotStep(s), ~QuietStep
          PROVE  ExactInv'
        <3>2. CASE TrySelectSegmentsForDownload(s)
            BY <3>2, SelectExact
        <3>3. CASE \E ok \in BOOLEAN : BeginReturn(s, ok)
            BY <3>3, BeginReturnExact
        <3>4. CASE \E k \in Segment : MarkSegment(s, k)
            BY <3>4, MarkSegmentExact
        <3>5. CASE \E k \in Segment : ReleaseReserved(s, k)
            BY <3>5, ReleaseReservedExact
        <3>6. CASE AddDownloadedBytes(s)
            BY <3>6, AddDownloadedBytesExact
        <3>7. CASE EndReturn(s)
            BY <3>7, EndReturnExact
        <3>8. CASE CompletePackage(s)
            BY <3>8, CompletePackageExact
        <3>9. QED
            BY <2>3, <3>2, <3>3, <3>4, <3>5, <3>6, <3>7, <3>8 DEF SlotStep, QuietStep
    <2>4. QED
        BY <2>1, <2>2, <2>3 DEF Next, QuietStep
<1>3. QED
    BY <1>1, <1>2 DEF CoreInv, ExactInv, LedgerInv

\* The ledger invariant holds in every reachable state.
THEOREM LedgerInvariant == Spec => []LedgerInv
<1>1. Init => LedgerInv
    BY InitLedgerInv
<1>2. LedgerInv /\ [Next]_vars => LedgerInv'
    BY NextLedgerInv
<1>3. QED
    BY <1>1, <1>2, PTL DEF Spec

-----------------------------------------------------------------------------
(* The properties of the ledger. *)

\* Every variable keeps its type.
THEOREM TypeCorrect == Spec => []TypeOK
<1>1. LedgerInv => TypeOK
    BY DEF LedgerInv
<1>2. QED
    BY <1>1, LedgerInvariant, PTL

\* ReturnLockedSegments never throws at a slot that returns what it claimed.
THEOREM ReturnsNeverThrow == Spec => []ReturnNeverThrows
<1>1. LedgerInv => ReturnNeverThrows
    BY DEF LedgerInv
<1>2. QED
    BY <1>1, LedgerInvariant, PTL

\* No two slots hold the same segment, and none downloads one that is there.
THEOREM SegmentsDownloadedOnce == Spec => []NoSegmentTwice
<1>1. LedgerInv => NoSegmentTwice
    BY DEF LedgerInv, HeldInv, NoSegmentTwice
<1>2. QED
    BY <1>1, LedgerInvariant, PTL

\* With no slot at work nothing is leaked and the counters are exact.
THEOREM LedgerBalances == Spec => []QuiescentLedgerBalanced
<1>1. LedgerInv => QuiescentLedgerBalanced
    <2> SUFFICES ASSUME LedgerInv, \A s \in Slots : pc[s] \notin Running
                 PROVE  /\ partsInProgress = {}
                        /\ progressBytesReserved = 0
                        /\ downloadedBytes = Bytes(Have)
                        /\ bitmap = Null <=> IsDownloaded
        BY DEF QuiescentLedgerBalanced, Running
    <2> USE DEF LedgerInv
    <2>1. partsInProgress = {}
        BY DEF HeldInv, Running
    <2>2. AllHeld = {}
        BY DEF HeldInv, AllHeld
    <2>3. progressBytesReserved = 0
        BY <2>2, BytesEmpty DEF CountInv
    <2>4. downloadedBytes = Bytes(Have)
        BY DEF CountInv, Running, ReturnPCs
    <2>5. bitmap # Segment
        BY DEF NullInv, Running, ReturnPCs
    <2>6. bitmap = Null <=> IsDownloaded
        BY <2>5, FullCounter DEF NullInv, Have, Running, ReturnPCs
    <2>7. QED
        BY <2>1, <2>3, <2>4, <2>6
<1>2. QED
    BY <1>1, LedgerInvariant, PTL

-----------------------------------------------------------------------------
(* The ledger implements the exclusive claiming of segments. *)

\* A step that writes neither bit nor claim is a stutter of SegmentClaims.
LEMMA StutterOfClaims ==
    ASSUME Have' = Have, held' = held
    PROVE  UNCHANGED Claims!vars
BY DEF Claims!vars, ClaimOf

LEMMA InitClaims == Init => Claims!Init
<1> SUFFICES ASSUME Init
             PROVE  Claims!Init
    OBVIOUS
<1>1. Have \in SUBSET Segment
    BY DEF Init, Have
<1>2. [s \in Slots |-> ClaimOf(s)] = [s \in Slots |-> {}]
    BY DEF Init, ClaimOf
<1>3. QED
    BY <1>1, <1>2 DEF Claims!Init

LEMMA StepClaims ==
    ASSUME LedgerInv, LedgerInv', [Next]_vars
    PROVE  [Claims!Next]_(Claims!vars)
<1> USE DEF LedgerInv
<1> DEFINE claim == [t \in Slots |-> ClaimOf(t)]
<1>1. CASE \/ CheckBeforeResume \/ Resume \/ UNCHANGED vars
           \/ \E s \in Slots : \/ ReadDownloadedBytes(s) \/ IsMoreToDownload(s)
                                 \/ CheckBeforeSelect(s) \/ AddDownloadedBytes(s)
                                 \/ CompletePackage(s)
                                 \/ \E ok \in BOOLEAN : BeginReturn(s, ok)
    <2>1. Have' = Have /\ held' = held
        BY <1>1 DEF CheckBeforeResume, Resume, ReadDownloadedBytes, IsMoreToDownload,
                    CheckBeforeSelect, AddDownloadedBytes, CompletePackage,
                    BeginReturn, Have, vars, ledger, local
    <2>2. QED
        BY <2>1, StutterOfClaims
<1>2. CASE Stop \/ \E s \in Slots : EndReturn(s)
    <2>1. held' = held
        BY <1>2 DEF Stop, EndReturn, local
    <2>2. QED
        BY <1>2, <2>1, LedgerIsCore, DropKeepsHave, StutterOfClaims
<1>3. ASSUME NEW s \in Slots, TrySelectSegmentsForDownload(s)
      PROVE  [Claims!Next]_(Claims!vars)
    <2>1. CASE bitmap = Null
        <3>1. Have' = Have /\ held' = held
            BY <1>3, <2>1 DEF TrySelectSegmentsForDownload, Have, ledger
        <3>2. QED
            BY <3>1, StutterOfClaims
    <2>2. CASE bitmap # Null
        <3>1. PICK R :
                /\ R \subseteq Segment \ (Have \union partsInProgress)
                /\ held' = [held EXCEPT ![s] = R]
            BY <1>3, <2>2, SelectedEligible DEF TrySelectSegmentsForDownload
        <3>2. Have' = Have /\ pc[s] = "enter" /\ syncLock = Null
            BY <1>3, <2>2 DEF TrySelectSegmentsForDownload, Have
        <3>3. \A t \in Slots : held[t] \subseteq partsInProgress
            BY <3>2, NullAssumption DEF LockInv, HeldInv, TypeOK, Running
        <3>4. R \in SUBSET Segment /\ R \subseteq Segment \ (Have \union Claims!Claimed)
            BY <3>1, <3>3 DEF Claims!Claimed, ClaimOf
        <3>5. claim[s] = {} /\ claim' = [claim EXCEPT ![s] = R]
            <4>1. held[s] = {}
                BY <3>2 DEF HeldInv, Running, ReturnPCs
            <4>2. held \in [Slots -> SUBSET Segment]
                BY DEF TypeOK
            <4>3. claim[s] = {}
                BY <4>1 DEF ClaimOf
            <4>4. \A t \in Slots : held'[t] \ Have' = IF t = s THEN R ELSE held[t] \ Have
                BY <3>1, <3>2, <4>2
            <4>5. claim' = [claim EXCEPT ![s] = R]
                BY <4>4 DEF ClaimOf
            <4>6. QED
                BY <4>3, <4>5
        <3>6. Claims!Claim(s, R)
            BY <3>2, <3>4, <3>5 DEF Claims!Claim
        <3>7. QED
            BY <3>4, <3>6 DEF Claims!Next
    <2>3. QED
        BY <2>1, <2>2
<1>4. ASSUME NEW s \in Slots, NEW k \in Segment, MarkSegment(s, k)
      PROVE  [Claims!Next]_(Claims!vars)
    <2>1. k \in held[s] /\ k \notin Have /\ held' = held
        BY <1>4 DEF MarkSegment, HeldInv
    <2>2. bitmap # Null /\ bitmap' = bitmap \union {k}
        BY <1>4, <2>1 DEF MarkSegment, Have
    <2>3. Have' = Have \union {k}
        BY <2>2, NullAssumption DEF Have, TypeOK
    <2>4. \A t \in Slots : t # s => k \notin held[t]
        BY <2>1 DEF HeldInv
    <2>5. claim' = [claim EXCEPT ![s] = claim[s] \ {k}]
        BY <2>1, <2>3, <2>4 DEF ClaimOf
    <2>6. Claims!Own(s, k)
        BY <2>1, <2>3, <2>5 DEF Claims!Own, ClaimOf
    <2>7. QED
        BY <2>6 DEF Claims!Next
<1>5. ASSUME NEW s \in Slots, NEW k \in Segment, ReleaseReserved(s, k)
      PROVE  [Claims!Next]_(Claims!vars)
    <2>1. /\ Have' = Have /\ k \in held[s]
          /\ held' = [held EXCEPT ![s] = held[s] \ {k}]
        BY <1>5 DEF ReleaseReserved, Have
    <2>2. claim' = [claim EXCEPT ![s] = claim[s] \ {k}]
        BY <2>1 DEF ClaimOf, TypeOK
    <2>3. CASE pc[s] = "reserved"
        <3>1. k \in Have
            BY <1>5, <2>3 DEF ReleaseReserved, HeldInv
        <3>2. claim' = claim
            BY <2>2, <3>1 DEF ClaimOf
        <3>3. QED
            BY <2>1, <3>2 DEF Claims!vars
    <2>4. CASE pc[s] # "reserved"
        <3>1. k \notin Have
            BY <1>5, <2>1, <2>4 DEF ReleaseReserved, HeldInv
        <3>2. Claims!GiveBack(s, k)
            BY <2>1, <2>2, <3>1 DEF Claims!GiveBack, ClaimOf
        <3>3. QED
            BY <3>2 DEF Claims!Next
    <2>5. QED
        BY <2>3, <2>4
<1>6. QED
    BY <1>1, <1>2, <1>3, <1>4, <1>5 DEF Next, SlotStep

\* The ledger with its micro-steps and unlocked accesses implements
\* SegmentClaims, in which a segment is missing, claimed once, or owned.
THEOREM LedgerImplementsClaims == Spec => ImplementsSegmentClaims
<1>1. Init => Claims!Init
    BY InitClaims
<1>2. LedgerInv /\ LedgerInv' /\ [Next]_vars => [Claims!Next]_(Claims!vars)
    BY StepClaims
<1>3. QED
    BY <1>1, <1>2, LedgerInvariant, PTL DEF Spec, ImplementsSegmentClaims, Claims!Spec

-----------------------------------------------------------------------------
(* Refusals. *)

SeenInv == \A s \in Slots : seenBytes[s] <= downloadedBytes

LEMMA SeenInvariant == Spec => []SeenInv
<1>1. Init => SeenInv
    <2> SUFFICES ASSUME Init
                 PROVE  SeenInv
        OBVIOUS
    <2>1. Bytes(Have) >= 0 /\ Have \in SUBSET Segment
        <3>1. Have \in SUBSET Segment
            BY DEF Init, Have
        <3>2. QED
            BY <3>1, BytesPositive, BytesEmpty, BytesType
    <2>2. QED
        BY <2>1, BytesType DEF Init, SeenInv
<1>2. LedgerInv /\ SeenInv /\ [Next]_vars => SeenInv'
    <2> SUFFICES ASSUME LedgerInv, SeenInv, [Next]_vars
                 PROVE  SeenInv'
        OBVIOUS
    <2>1. downloadedBytes' >= downloadedBytes
        <3>1. CASE downloadedBytes' = downloadedBytes
            BY <3>1 DEF LedgerInv, TypeOK
        <3>2. CASE \E s \in Slots : AddDownloadedBytes(s)
            BY <3>2, SizeType DEF AddDownloadedBytes, LedgerInv, TypeOK
        <3>3. QED
            BY <3>1, <3>2 DEF Next, SlotStep, vars, CheckBeforeResume, Resume, Stop,
                ReadDownloadedBytes, IsMoreToDownload, CheckBeforeSelect,
                TrySelectSegmentsForDownload, BeginReturn, MarkSegment,
                ReleaseReserved, EndReturn, CompletePackage, ledger, local
    <2>2. downloadedBytes' \in Int /\ downloadedBytes \in Int /\ seenBytes \in [Slots -> Int]
        <3>1. LedgerInv'
            BY NextLedgerInv
        <3>2. QED
            BY <3>1 DEF LedgerInv, TypeOK
    <2>3. CASE \E s \in Slots : ReadDownloadedBytes(s)
        BY <2>2, <2>3 DEF ReadDownloadedBytes, SeenInv, ledger
    <2>4. CASE seenBytes' = seenBytes
        BY <2>1, <2>2, <2>4 DEF SeenInv
    <2>5. QED
        BY <2>3, <2>4 DEF Next, SlotStep, vars, CheckBeforeResume, Resume, Stop,
            IsMoreToDownload, CheckBeforeSelect, AddDownloadedBytes,
            TrySelectSegmentsForDownload, BeginReturn, MarkSegment,
            ReleaseReserved, EndReturn, CompletePackage, local
<1>3. QED
    BY <1>1, <1>2, LedgerInvariant, PTL DEF Spec

\* A slot that was refused for lack of work leaves an incomplete package only
\* to a slot that is running, whatever its two unlocked reads straddled.
THEOREM RefusalsLeaveARunner == Spec => RefusalLeavesARunner
<1>1. LedgerInv /\ SeenInv /\ [Next]_vars =>
        [\A s \in Slots :
           (pc[s] = "more" /\ pc'[s] = "idle") =>
              \/ IsDownloaded
              \/ \E t \in Slots : pc[t] \in ReturnPCs \union {"downloading"}]_vars
    <2> SUFFICES ASSUME LedgerInv, SeenInv, [Next]_vars,
                        NEW s \in Slots, pc[s] = "more", pc'[s] = "idle",
                        \A t \in Slots : pc[t] \notin Running
                 PROVE  IsDownloaded
        BY DEF Running
    <2> USE DEF LedgerInv
    <2>1. IsMoreToDownload(s)
        <3>1. pc' # pc
            OBVIOUS
        <3>2. PICK t \in Slots : SlotStep(t)
            BY <3>1 DEF Next, vars, CheckBeforeResume, Resume, Stop
        <3>3. pc[t] # "more" => pc'[s] = pc[s]
            BY <3>2 DEF SlotStep, ReadDownloadedBytes, IsMoreToDownload, CheckBeforeSelect,
                AddDownloadedBytes, TrySelectSegmentsForDownload, BeginReturn,
                MarkSegment, ReleaseReserved, EndReturn, CompletePackage, TypeOK
        <3>4. pc[t] = "more" => IsMoreToDownload(t)
            BY <3>2 DEF SlotStep, ReadDownloadedBytes, CheckBeforeSelect,
                AddDownloadedBytes, TrySelectSegmentsForDownload, BeginReturn,
                MarkSegment, ReleaseReserved, EndReturn, CompletePackage
        <3>5. t # s /\ pc[t] = "more" => pc'[s] = pc[s]
            BY <3>4 DEF IsMoreToDownload, TypeOK
        <3>6. QED
            BY <3>3, <3>4, <3>5
    <2>2. seenBytes[s] + progressBytesReserved >= PackageSize
        BY <2>1, SizeType DEF IsMoreToDownload, TypeOK
    <2>3. progressBytesReserved = 0
        <3>1. AllHeld = {}
            BY DEF HeldInv, AllHeld
        <3>2. QED
            BY <3>1, BytesEmpty DEF CountInv
    <2>4. downloadedBytes <= PackageSize
        BY BytesFull, HaveType DEF CountInv, Running, ReturnPCs
    <2>5. QED
        BY <2>2, <2>3, <2>4, SizeType DEF SeenInv, TypeOK, IsDownloaded
<1>2. QED
    BY <1>1, LedgerInvariant, SeenInvariant, PTL DEF Spec, RefusalLeavesARunner

-----------------------------------------------------------------------------

\* No step takes a downloaded segment back: the bitmap is only extended, or
\* replaced by the null that stands for all of it.
LEMMA StepKeepsHave ==
    ASSUME CoreInv, [Next]_vars
    PROVE  Have \subseteq Have'
<1>1. Have \subseteq Segment
    BY HaveType DEF CoreInv
<1>2. CASE bitmap' = bitmap
    BY <1>2 DEF Have
<1>3. CASE bitmap' = Null
    BY <1>1, <1>3 DEF Have
<1>4. CASE bitmap' # bitmap /\ bitmap' # Null
    <2>1. PICK s \in Slots : SlotStep(s)
        BY <1>4 DEF Next, vars, ledger, CheckBeforeResume, Resume, Stop
    <2>2. PICK k \in Segment : MarkSegment(s, k)
        BY <1>4, <2>1 DEF SlotStep, ledger, ReadDownloadedBytes, IsMoreToDownload,
            CheckBeforeSelect, TrySelectSegmentsForDownload, BeginReturn,
            AddDownloadedBytes, ReleaseReserved, EndReturn, CompletePackage
    <2>3. bitmap # Null /\ bitmap' = bitmap \union {k}
        BY <1>4, <2>2 DEF MarkSegment
    <2>4. QED
        BY <1>4, <2>3 DEF Have
<1>5. QED
    BY <1>2, <1>3, <1>4

\* What a status or a status file made from the ledger says is downloaded is
\* downloaded, and stays so.
THEOREM DownloadedGrows == Spec => DownloadedOnlyGrows
<1>1. LedgerInv /\ LedgerInv' /\ [Next]_vars
        => [Have \subseteq Have' /\ downloadedBytes' <= Bytes(Have')]_vars
    <2> SUFFICES ASSUME LedgerInv, LedgerInv', [Next]_vars
                 PROVE  Have \subseteq Have' /\ downloadedBytes' <= Bytes(Have')
        OBVIOUS
    <2>1. Have \subseteq Have'
        BY LedgerIsCore, StepKeepsHave
    <2>2. (downloadedBytes <= Bytes(Have))'
        BY CounterTrails, PTL
    <2>3. QED
        BY <2>1, <2>2 DEF Bytes
<1>2. QED
    BY <1>1, NextLedgerInv, LedgerInvariant, PTL DEF Spec, DownloadedOnlyGrows
-----------------------------------------------------------------------------
(* The status file: steps of the ledger under a running save.               *)

\* The parts of the invariant that speak of the file.
SavesInv == FileTypeOK /\ DataFirst /\ CopyTrails /\ FileNeverOverclaims

LEMMA MembersFacts ==
    /\ Len(Members) = 3
    /\ Members[1] = "isDownloading"
    /\ Members[2] = "downloadedBytes"
    /\ Members[3] = "bitmap"
BY DEF Members

\* A set that grows has no fewer bytes.
LEMMA BytesMonotonic ==
    ASSUME NEW S \in SUBSET Segment, NEW T \in SUBSET Segment, S \subseteq T
    PROVE  Bytes(S) <= Bytes(T)
<1> DEFINE D == T \ S
<1>1. Bytes(T) = Bytes(S) + Bytes(D)
    <2>1. S \union D = T /\ S \intersect D = {}
        OBVIOUS
    <2>2. QED
        BY <2>1, BytesUnion
<1>2. Bytes(D) >= 0
    BY BytesPositive, BytesEmpty, BytesType
<1>3. QED
    BY <1>1, <1>2, BytesType

\* Only a return that downloaded its segments extends the bitmap.
LEMMA NewBitsAreReturned ==
    ASSUME CoreInv, [Next]_vars, NEW k \in Have', k \notin Have
    PROVE  \E s \in Slots : pc[s] = "loop" /\ areDownloaded[s] /\ k \in held[s]
<1>1. bitmap' # bitmap
    BY DEF Have
<1>2. ~Stop /\ ~\E s \in Slots : EndReturn(s)
    BY DropKeepsHave
<1>3. PICK s \in Slots : SlotStep(s)
    BY <1>1, <1>2 DEF Next, vars, ledger, CheckBeforeResume, Resume
<1>4. PICK j \in Segment : MarkSegment(s, j)
    BY <1>1, <1>2, <1>3 DEF SlotStep, ledger, ReadDownloadedBytes, IsMoreToDownload,
        CheckBeforeSelect, TrySelectSegmentsForDownload, BeginReturn,
        AddDownloadedBytes, ReleaseReserved, CompletePackage
<1>5. Marks(s, j)
    BY <1>4, MarkSegmentMarks DEF CoreInv
<1>6. QED
    BY <1>5 DEF Marks

\* A step of the ledger that changes nothing of the save.
LEMMA LedgerStepSaves ==
    ASSUME CoreInv, SavesInv, [Next]_vars,
           data \subseteq data', data' \in SUBSET Segment,
           UNCHANGED <<wpc, member, snap, file>>,
           \A s \in Slots : (pc'[s] \in ReturnPCs /\ areDownloaded'[s])
                              => held'[s] \subseteq data'
    PROVE  SavesInv'
<1> USE DEF SavesInv
<1>1. CoreInv' /\ Have \subseteq Have'
    BY NextCore, StepKeepsHave
<1>2. Have \in SUBSET Segment /\ Have' \in SUBSET Segment
    <2>1. Have \in SUBSET Segment
        BY HaveType DEF CoreInv
    <2>2. Have' \in SUBSET Segment
        BY <1>1 DEF CoreInv, TypeOK, Have
    <2>3. QED
        BY <2>1, <2>2
<1>3. Bytes(Have) <= Bytes(Have') /\ Bytes(Have) \in Int /\ Bytes(Have') \in Int
    BY <1>1, <1>2, BytesMonotonic, BytesType
<1>4. FileTypeOK'
    BY DEF FileTypeOK
<1>5. DataFirst'
    <2>1. \A k \in Have' : k \in data
        <3> SUFFICES ASSUME NEW k \in Have', k \notin Have
                     PROVE  k \in data
            BY DEF DataFirst
        <3>1. PICK s \in Slots : pc[s] = "loop" /\ areDownloaded[s] /\ k \in held[s]
            BY NewBitsAreReturned
        <3>2. QED
            BY <3>1 DEF DataFirst, ReturnPCs
    <2>2. QED
        BY <2>1 DEF DataFirst
<1>6. CopyTrails'
    <2>1. SnapHave' = SnapHave
        BY DEF SnapHave
    <2>2. wpc = "serialize" /\ Members[member] = "bitmap"
            => snap.downloadedBytes <= Bytes(Have')
        <3>1. snap.downloadedBytes \in Int
            BY DEF FileTypeOK, SavedLedger
        <3>2. QED
            BY <1>3, <3>1 DEF CopyTrails
    <2>3. QED
        BY <2>1, <2>2 DEF CopyTrails, Bytes
<1>7. FileNeverOverclaims'
    <2>1. FileHave' = FileHave
        BY DEF FileHave
    <2>2. QED
        BY <2>1 DEF FileNeverOverclaims, Bytes
<1>8. QED
    BY <1>4, <1>5, <1>6, <1>7

\* A slot writes the data of its segments before it returns them.
LEMMA SlotWorkFileInv ==
    ASSUME FileInv, NEW s \in Slots, SlotWork(s)
    PROVE  FileInv'
<1> USE DEF FileInv
<1>1. SavesInv /\ SlotStep(s) /\ [Next]_vars
    BY DEF SavesInv, SlotWork, Next
<1>2. /\ data' = data \union {k \in held[s] : pc[s] = "downloading" /\ areDownloaded'[s]}
      /\ UNCHANGED <<wpc, member, snap, file>>
    BY DEF SlotWork
<1>3. data' \in SUBSET Segment
    BY <1>2 DEF FileTypeOK, CoreInv, TypeOK
<1>4. \A t \in Slots : (pc'[t] \in ReturnPCs /\ areDownloaded'[t]) => held'[t] \subseteq data'
    <2> SUFFICES ASSUME NEW t \in Slots, pc'[t] \in ReturnPCs, areDownloaded'[t]
                 PROVE  held'[t] \subseteq data'
        OBVIOUS
    <2>1. pc \in [Slots -> PCs] /\ held \in [Slots -> SUBSET Segment]
          /\ areDownloaded \in [Slots -> BOOLEAN]
        BY DEF CoreInv, TypeOK
    <2>2. CASE t # s
        <3>1. pc'[t] = pc[t] /\ held'[t] = held[t] /\ areDownloaded'[t] = areDownloaded[t]
            BY <1>1, <2>1, <2>2 DEF SlotStep, ReadDownloadedBytes, IsMoreToDownload,
                CheckBeforeSelect, AddDownloadedBytes, TrySelectSegmentsForDownload,
                BeginReturn, MarkSegment, ReleaseReserved, EndReturn, CompletePackage, local
        <3>2. QED
            BY <1>2, <3>1 DEF DataFirst
    <2>3. CASE t = s /\ pc[s] = "downloading"
        <3>1. held' = held
            BY <1>1, <2>3 DEF SlotStep, ReadDownloadedBytes, IsMoreToDownload,
                CheckBeforeSelect, AddDownloadedBytes, TrySelectSegmentsForDownload,
                BeginReturn, MarkSegment, ReleaseReserved, EndReturn, CompletePackage, local
        <3>2. QED
            BY <1>2, <2>3, <3>1
    <2>4. CASE t = s /\ pc[s] # "downloading"
        <3>1. pc[s] \in ReturnPCs /\ areDownloaded[s] /\ held'[s] \subseteq held[s]
            BY <1>1, <2>1, <2>4 DEF SlotStep, ReadDownloadedBytes, IsMoreToDownload,
                CheckBeforeSelect, AddDownloadedBytes, TrySelectSegmentsForDownload,
                BeginReturn, MarkSegment, ReleaseReserved, EndReturn, CompletePackage,
                local, ReturnPCs, ledger
        <3>2. QED
            BY <1>2, <2>4, <3>1 DEF DataFirst
    <2>5. QED
        BY <2>2, <2>3, <2>4
<1>5. SavesInv'
    BY <1>1, <1>2, <1>3, <1>4, LedgerStepSaves
<1>6. CoreInv'
    BY <1>1, NextCore
<1>7. QED
    BY <1>5, <1>6 DEF SavesInv

\* The manager's own steps, also those a slot takes for it.
LEMMA ManagerStepFileInv ==
    ASSUME FileInv, CheckBeforeResume \/ Resume \/ Stop \/ UNCHANGED vars,
           UNCHANGED <<wpc, member, snap, file, data>>
    PROVE  FileInv'
<1> USE DEF FileInv
<1>1. SavesInv /\ [Next]_vars
    BY DEF SavesInv, Next
<1>2. UNCHANGED <<pc, held, areDownloaded>>
    BY DEF CheckBeforeResume, Resume, Stop, vars, local
<1>3. \A t \in Slots : (pc'[t] \in ReturnPCs /\ areDownloaded'[t]) => held'[t] \subseteq data'
    BY <1>2 DEF DataFirst
<1>4. data' \in SUBSET Segment
    BY DEF FileTypeOK
<1>5. SavesInv'
    BY <1>1, <1>3, <1>4, LedgerStepSaves
<1>6. CoreInv'
    BY <1>1, NextCore
<1>7. QED
    BY <1>5, <1>6 DEF SavesInv

-----------------------------------------------------------------------------
(* The status file: the steps of a save, and a restart. *)

\* A step that leaves the ledger alone leaves what the core and the data say
\* of it.
LEMMA LedgerUntouched ==
    ASSUME FileInv, UNCHANGED <<vars, data>>
    PROVE  CoreInv' /\ DataFirst' /\ Have' = Have
<1>1. CoreInv'
    BY NextCore DEF FileInv
<1>2. QED
    BY <1>1 DEF FileInv, DataFirst, Have, vars, ledger, local

LEMMA BeginSaveFileInv ==
    ASSUME FileInv, NEW w \in Slots \union {Manager}, BeginSave(w)
    PROVE  FileInv'
<1> USE DEF FileInv
<1>1. CoreInv' /\ DataFirst'
    BY LedgerUntouched DEF BeginSave
<1>2. wpc' = "serialize" /\ member' = 1 /\ UNCHANGED <<snap, file, data>>
    BY DEF BeginSave
<1>3. FileTypeOK' /\ CopyTrails'
    BY <1>2, MembersFacts DEF FileTypeOK, CopyTrails
<1>4. FileNeverOverclaims'
    BY <1>2 DEF FileNeverOverclaims, FileHave, Bytes
<1>5. QED
    BY <1>1, <1>3, <1>4

\* The bitmap is copied last: what it marks is in the data files, and the
\* counter that was copied before it cannot exceed it.
LEMMA SerializeMemberFileInv ==
    ASSUME FileInv, SerializeMember
    PROVE  FileInv'
<1> USE DEF FileInv
<1>1. CoreInv' /\ DataFirst' /\ Have' = Have
    BY LedgerUntouched DEF SerializeMember
<1>2. /\ wpc = "serialize" /\ member \in 1..3 /\ snap \in SavedLedger
      /\ UNCHANGED <<file, data>>
    BY MembersFacts DEF SerializeMember, FileTypeOK
<1>3. FileNeverOverclaims'
    BY <1>2 DEF FileNeverOverclaims, FileHave, Bytes
<1>4. /\ isDownloading \in BOOLEAN /\ downloadedBytes \in Int
      /\ bitmap \in (SUBSET Segment) \union {Null}
    BY DEF CoreInv, TypeOK
<1>5. /\ Ledger["isDownloading"] = isDownloading
      /\ Ledger["downloadedBytes"] = downloadedBytes
      /\ Ledger["bitmap"] = bitmap
    BY DEF Ledger
<1>6. CASE member = 1
    <2>1. snap' = [snap EXCEPT !["isDownloading"] = isDownloading] /\ member' = 2
          /\ wpc' = "serialize"
        <3>1. Members[member] = "isDownloading"
            BY <1>6, MembersFacts
        <3>2. snap' = [snap EXCEPT !["isDownloading"] = isDownloading]
            BY <1>5, <3>1 DEF SerializeMember
        <3>3. Len(Members) = 3
            BY MembersFacts
        <3>4. member' = 2 /\ wpc' = "serialize"
            BY <1>6, <3>3 DEF SerializeMember
        <3>5. QED
            BY <3>2, <3>4
    <2>2. snap' \in SavedLedger
        BY <1>2, <1>4, <2>1 DEF SavedLedger
    <2>3. QED
        BY <1>1, <1>2, <1>3, <2>1, <2>2, MembersFacts DEF FileTypeOK, CopyTrails
<1>7. CASE member = 2
    <2>1. snap' = [snap EXCEPT !["downloadedBytes"] = downloadedBytes] /\ member' = 3
          /\ wpc' = "serialize"
        <3>1. Members[member] = "downloadedBytes"
            BY <1>7, MembersFacts
        <3>2. snap' = [snap EXCEPT !["downloadedBytes"] = downloadedBytes]
            BY <1>5, <3>1 DEF SerializeMember
        <3>3. Len(Members) = 3
            BY MembersFacts
        <3>4. member' = 3 /\ wpc' = "serialize"
            BY <1>7, <3>3 DEF SerializeMember
        <3>5. QED
            BY <3>2, <3>4
    <2>2. snap' \in SavedLedger /\ snap'.downloadedBytes = downloadedBytes
        BY <1>2, <1>4, <2>1 DEF SavedLedger
    <2>3. downloadedBytes <= Bytes(Have')
        BY <1>1 DEF CoreInv, TrailInv
    <2>4. QED
        BY <1>1, <1>2, <1>3, <2>1, <2>2, <2>3, MembersFacts DEF FileTypeOK, CopyTrails
<1>8. CASE member = 3
    <2>1. snap' = [snap EXCEPT !["bitmap"] = bitmap] /\ member' = 1
          /\ wpc' = "truncate"
        <3>1. Members[member] = "bitmap"
            BY <1>8, MembersFacts
        <3>2. snap' = [snap EXCEPT !["bitmap"] = bitmap]
            BY <1>5, <3>1 DEF SerializeMember
        <3>3. Len(Members) = 3
            BY MembersFacts
        <3>4. member' = 1 /\ wpc' = "truncate"
            BY <1>8, <3>3 DEF SerializeMember
        <3>5. QED
            BY <3>2, <3>4
    <2>2. /\ snap' \in SavedLedger /\ snap'.bitmap = bitmap
          /\ snap'.downloadedBytes = snap.downloadedBytes
        BY <1>2, <1>4, <2>1 DEF SavedLedger
    <2>3. SnapHave' = Have
        BY <2>2 DEF SnapHave, Have
    <2>4. snap.downloadedBytes <= Bytes(Have)
        BY <1>2, <1>8, MembersFacts DEF CopyTrails
    <2>5. SnapHave' \subseteq data' /\ snap'.downloadedBytes <= Bytes(SnapHave')
        BY <1>2, <2>2, <2>3, <2>4 DEF DataFirst
    <2>6. CopyTrails'
        BY <2>1, <2>5 DEF CopyTrails, Bytes
    <2>7. FileTypeOK'
        BY <1>2, <2>1, <2>2, MembersFacts DEF FileTypeOK
    <2>8. QED
        BY <1>1, <1>3, <2>6, <2>7
<1>9. QED
    BY <1>2, <1>6, <1>7, <1>8

LEMMA TruncateFileFileInv ==
    ASSUME FileInv, TruncateFile
    PROVE  FileInv'
<1> USE DEF FileInv
<1>1. CoreInv' /\ DataFirst'
    BY LedgerUntouched DEF TruncateFile
<1>2. /\ wpc = "truncate" /\ wpc' = "write" /\ file' = Torn
      /\ UNCHANGED <<member, snap, data>>
    BY DEF TruncateFile
<1>3. CopyTrails'
    BY <1>2 DEF CopyTrails, SnapHave, Bytes
<1>4. FileTypeOK' /\ FileNeverOverclaims'
    BY <1>2 DEF FileTypeOK, FileNeverOverclaims
<1>5. QED
    BY <1>1, <1>3, <1>4

LEMMA WriteFileFileInv ==
    ASSUME FileInv, WriteFile
    PROVE  FileInv'
<1> USE DEF FileInv
<1>1. CoreInv' /\ DataFirst'
    BY LedgerUntouched DEF WriteFile
<1>2. /\ wpc = "write" /\ wpc' = "free" /\ file' = snap
      /\ UNCHANGED <<member, snap, data>>
    BY DEF WriteFile
<1>3. FileTypeOK' /\ CopyTrails'
    BY <1>2 DEF FileTypeOK, CopyTrails
<1>4. FileHave' = SnapHave
    BY <1>2 DEF FileHave, SnapHave
<1>5. FileNeverOverclaims'
    BY <1>2, <1>4 DEF FileNeverOverclaims, CopyTrails, Bytes
<1>6. QED
    BY <1>1, <1>3, <1>5

\* What a restarted process loads is what the file says.
LEMMA RestartFileInv ==
    ASSUME FileInv, Restart
    PROVE  FileInv'
<1> USE DEF FileInv
<1>1. /\ partsInProgress' = {} /\ progressBytesReserved' = 0 /\ syncLock' = Null
      /\ queued' = FALSE /\ resuming' = FALSE
      /\ pc' = [s \in Slots |-> "idle"] /\ held' = [s \in Slots |-> {}]
      /\ cur' = [s \in Slots |-> Last] /\ areDownloaded' = [s \in Slots |-> FALSE]
      /\ seenBytes' = [s \in Slots |-> 0]
      /\ wpc' = "free" /\ member' = 1 /\ UNCHANGED <<snap, file, data>>
    BY DEF Restart
<1>2. /\ downloadedBytes' \in Int
      /\ bitmap' \in (SUBSET Segment) \union {Null}
      /\ downloadedBytes' <= Bytes(Have') /\ Have' \subseteq data
    <2>1. CASE file = Torn
        <3>1. downloadedBytes' = 0 /\ bitmap' = {}
            BY <2>1 DEF Restart
        <3>2. Have' = {}
            BY <3>1, NullAssumption DEF Have
        <3>3. Bytes(Have') = 0
            BY <3>2, BytesEmpty
        <3>4. QED
            BY <3>1, <3>2, <3>3
    <2>2. CASE file # Torn
        <3>1. bitmap' = file.bitmap /\ downloadedBytes' = file.downloadedBytes
            BY <2>2 DEF Restart
        <3>2. file \in SavedLedger
            BY <2>2 DEF FileTypeOK
        <3>3. Have' = FileHave
            BY <3>1 DEF Have, FileHave
        <3>4. QED
            BY <2>2, <3>1, <3>2, <3>3 DEF FileNeverOverclaims, SavedLedger
    <2>3. QED
        BY <2>1, <2>2
<1>3. TypeOK'
    <2>1. /\ pc' \in [Slots -> PCs] /\ held' \in [Slots -> SUBSET Segment]
          /\ cur' \in [Slots -> Segment] /\ areDownloaded' \in [Slots -> BOOLEAN]
          /\ seenBytes' \in [Slots -> Int]
        BY <1>1, SegmentFinite DEF PCs
    <2>2. /\ partsInProgress' \in SUBSET Segment /\ progressBytesReserved' \in Int
          /\ syncLock' \in Slots \union {Null}
        BY <1>1
    <2>3. queued' \in BOOLEAN /\ resuming' \in BOOLEAN
        BY <1>1
    <2>4. isDownloading' \in BOOLEAN
        <3>1. file # Torn => file.isDownloading \in BOOLEAN
            BY DEF FileTypeOK, SavedLedger
        <3>2. QED
            BY <3>1 DEF Restart
    <2>5. QED
        BY <1>2, <2>1, <2>2, <2>3, <2>4 DEF TypeOK
<1>4. LockInv' /\ HeldInv' /\ ReturnNeverThrows'
    BY <1>1, NullAssumption DEF LockInv, HeldInv, ReturnNeverThrows, Running, ReturnPCs
<1>5. TrailInv'
    BY <1>1, <1>2 DEF TrailInv
<1>6. DataFirst'
    BY <1>1, <1>2 DEF DataFirst, ReturnPCs
<1>7. FileTypeOK' /\ CopyTrails'
    BY <1>1, MembersFacts DEF FileTypeOK, CopyTrails
<1>8. FileNeverOverclaims'
    BY <1>1 DEF FileNeverOverclaims, FileHave, Bytes
<1>9. QED
    BY <1>3, <1>4, <1>5, <1>6, <1>7, <1>8 DEF CoreInv

LEMMA InitFileInv == FileInit => FileInv
<1> SUFFICES ASSUME FileInit
             PROVE  FileInv
    OBVIOUS
<1>1. LedgerInv
    BY InitLedgerInv DEF FileInit
<1>2. CoreInv /\ Have \in SUBSET Segment
    BY <1>1, LedgerIsCore, HaveType DEF LedgerInv
<1>3. Ledger \in SavedLedger
    BY <1>2 DEF CoreInv, TypeOK, Ledger, SavedLedger
<1>4. FileTypeOK
    BY <1>2, <1>3, MembersFacts DEF FileInit, FileTypeOK
<1>5. DataFirst
    BY <1>2 DEF FileInit, Init, DataFirst, ReturnPCs
<1>6. CopyTrails
    BY DEF FileInit, CopyTrails
<1>7. FileNeverOverclaims
    <2>1. FileHave = Have /\ file.downloadedBytes = downloadedBytes
        BY DEF FileInit, Ledger, FileHave, Have
    <2>2. QED
        BY <1>1, <2>1, CounterTrails DEF FileNeverOverclaims, FileInit
<1>8. QED
    BY <1>2, <1>4, <1>5, <1>6, <1>7 DEF FileInv

LEMMA NextFileInv == FileInv /\ [FileNext]_allVars => FileInv'
<1> SUFFICES ASSUME FileInv, [FileNext]_allVars
             PROVE  FileInv'
    OBVIOUS
<1>1. CASE StartDownloadPackage \/ UserStop \/ UNCHANGED allVars
    BY <1>1, ManagerStepFileInv
       DEF StartDownloadPackage, UserStop, allVars, fileVars
<1>2. ASSUME NEW s \in Slots, SlotWork(s) \/ DecideSave(s) \/ SlotStop(s)
      PROVE  FileInv'
    <2>1. CASE SlotWork(s)
        BY <2>1, SlotWorkFileInv
    <2>2. CASE DecideSave(s) \/ SlotStop(s)
        BY <2>2, ManagerStepFileInv DEF DecideSave, SlotStop
    <2>3. QED
        BY <1>2, <2>1, <2>2
<1>3. CASE Save
    BY <1>3, BeginSaveFileInv, SerializeMemberFileInv, TruncateFileFileInv,
       WriteFileFileInv DEF Save
<1>4. CASE Restart
    BY <1>4, RestartFileInv
<1>5. QED
    BY <1>1, <1>2, <1>3, <1>4 DEF FileNext

\* The invariant of the ledger and its file holds in every reachable state.
THEOREM FileInvariant == FileSpec => []FileInv
<1>1. QED
    BY InitFileInv, NextFileInv, PTL DEF FileSpec

\* However a save straddles the returns of other slots, and wherever the
\* process dies, the file claims no more than the data files hold.
THEOREM FileHonest == FileSpec => []FileNeverOverclaims
<1>1. FileInv => FileNeverOverclaims
    BY DEF FileInv
<1>2. QED
    BY <1>1, FileInvariant, PTL

\* A package that passes for downloaded has the data of every segment, also
\* after a restart from a file that was copied in the middle of a return.
THEOREM DownloadedMeansAllData == FileSpec => []CompleteMeansAllData
<1>1. FileInv => CompleteMeansAllData
    BY DownloadedHasAll DEF FileInv, CompleteMeansAllData, DataFirst, FileTypeOK
<1>2. QED
    BY <1>1, FileInvariant, PTL

\* Restarts do not disturb the claims: also a ledger whose counter was saved
\* too small hands no segment out twice and never throws at a slot that
\* returns what it claimed.
THEOREM RestartsKeepClaims == FileSpec => [](NoSegmentTwice /\ ReturnNeverThrows)
<1>1. FileInv => NoSegmentTwice /\ ReturnNeverThrows
    BY DEF FileInv, CoreInv, HeldInv, NoSegmentTwice
<1>2. QED
    BY <1>1, FileInvariant, PTL

-----------------------------------------------------------------------------
(* Saves never take back: the file, the copy made for it and the ledger.     *)

\* No step but a restart takes downloaded bytes back.
LEMMA StepKeepsCounter ==
    ASSUME CoreInv, [Next]_vars
    PROVE  downloadedBytes <= downloadedBytes'
<1>1. downloadedBytes \in Int
    BY DEF CoreInv, TypeOK
<1>2. CASE downloadedBytes' = downloadedBytes
    BY <1>1, <1>2
<1>3. CASE downloadedBytes' # downloadedBytes
    <2>1. PICK s \in Slots : SlotStep(s)
        BY <1>3 DEF Next, vars, ledger, CheckBeforeResume, Resume, Stop
    <2>2. AddDownloadedBytes(s)
        BY <1>3, <2>1 DEF SlotStep, ledger, ReadDownloadedBytes, IsMoreToDownload,
            CheckBeforeSelect, TrySelectSegmentsForDownload, BeginReturn,
            MarkSegment, ReleaseReserved, EndReturn, CompletePackage
    <2>3. downloadedBytes' = downloadedBytes + GetSizeOfSegment(cur[s])
        BY <2>2 DEF AddDownloadedBytes
    <2>4. GetSizeOfSegment(cur[s]) \in Int /\ GetSizeOfSegment(cur[s]) > 0
        BY SizeType DEF CoreInv, TypeOK
    <2>5. QED
        BY <1>1, <2>3, <2>4
<1>4. QED
    BY <1>2, <1>3

\* The ledger moves on, the save stands still.
LEMMA LedgerStepCover ==
    ASSUME FileInv, CoverInv, [Next]_vars, UNCHANGED <<wpc, member, snap, file>>
    PROVE  CoverInv'
<1>1. Have \subseteq Have' /\ downloadedBytes <= downloadedBytes'
    BY StepKeepsHave, StepKeepsCounter DEF FileInv
<1>2. CoreInv'
    BY NextCore DEF FileInv
<1>3. downloadedBytes \in Int /\ downloadedBytes' \in Int
    BY <1>2 DEF FileInv, CoreInv, TypeOK
<1>4. /\ snap.downloadedBytes \in Int
      /\ file # Torn => file.downloadedBytes \in Int
    BY DEF FileInv, FileTypeOK, SavedLedger
<1>5. FileHave' = FileHave /\ SnapHave' = SnapHave
    BY DEF FileHave, SnapHave
<1>6. file # Torn => FileHave' \subseteq Have' /\ file.downloadedBytes <= downloadedBytes'
    BY <1>1, <1>3, <1>4, <1>5 DEF CoverInv
<1>7. (wpc = "serialize" /\ Members[member] = "bitmap")
        => /\ snap.downloadedBytes <= downloadedBytes'
           /\ file # Torn => file.downloadedBytes <= snap.downloadedBytes
    BY <1>1, <1>3, <1>4 DEF CoverInv
<1>8. wpc \in {"truncate", "write"}
        => SnapHave' \subseteq Have' /\ snap.downloadedBytes <= downloadedBytes'
    BY <1>1, <1>3, <1>4, <1>5 DEF CoverInv
<1>9. SaveCoversFile'
    BY <1>5 DEF CoverInv, SaveCoversFile
<1>10. QED
    BY <1>6, <1>7, <1>8, <1>9 DEF CoverInv, Members

LEMMA BeginSaveCover ==
    ASSUME FileInv, CoverInv, NEW w \in Slots \union {Manager}, BeginSave(w)
    PROVE  CoverInv'
<1>1. wpc' = "serialize" /\ member' = 1 /\ UNCHANGED <<vars, snap, file>>
    BY DEF BeginSave
<1>2. UNCHANGED <<FileHave, Have, downloadedBytes>>
    BY <1>1 DEF FileHave, Have, vars, ledger
<1>3. QED
    BY <1>1, <1>2, MembersFacts DEF CoverInv, SaveCoversFile

\* What is copied is the ledger of that moment, and the ledger covers the file.
LEMMA SerializeMemberCover ==
    ASSUME FileInv, CoverInv, SerializeMember
    PROVE  CoverInv'
<1>1. /\ wpc = "serialize" /\ UNCHANGED <<vars, file>>
      /\ snap' = [snap EXCEPT ![Members[member]] = Ledger[Members[member]]]
      /\ member \in 1..3 /\ snap \in SavedLedger
    BY MembersFacts DEF SerializeMember, FileInv, FileTypeOK
<1>2. UNCHANGED <<FileHave, Have, downloadedBytes, bitmap>>
    BY <1>1 DEF FileHave, Have, vars, ledger
<1>3. downloadedBytes \in Int
    BY DEF FileInv, CoreInv, TypeOK
<1>4. file # Torn => /\ FileHave \subseteq Have
                     /\ file.downloadedBytes <= downloadedBytes
    BY DEF CoverInv
<1>5. CASE member = 1
    <2>1. member' = 2 /\ wpc' = "serialize"
        BY <1>5, MembersFacts DEF SerializeMember
    <2>2. QED
        BY <1>1, <1>2, <1>4, <2>1, MembersFacts DEF CoverInv, SaveCoversFile
<1>6. CASE member = 2
    <2>1. member' = 3 /\ wpc' = "serialize"
        BY <1>6, MembersFacts DEF SerializeMember
    <2>2. snap'.downloadedBytes = downloadedBytes
        BY <1>1, <1>6, MembersFacts DEF Ledger, SavedLedger
    <2>3. QED
        BY <1>1, <1>2, <1>3, <1>4, <2>1, <2>2, MembersFacts DEF CoverInv, SaveCoversFile
<1>7. CASE member = 3
    <2>1. wpc' = "truncate"
        BY <1>7, MembersFacts DEF SerializeMember
    <2>2. snap'.bitmap = bitmap /\ snap'.downloadedBytes = snap.downloadedBytes
        BY <1>1, <1>7, MembersFacts DEF Ledger, SavedLedger
    <2>3. SnapHave' = Have
        BY <2>2 DEF SnapHave, Have
    <2>4. /\ snap.downloadedBytes <= downloadedBytes
          /\ file # Torn => file.downloadedBytes <= snap.downloadedBytes
        BY <1>1, <1>7, MembersFacts DEF CoverInv
    <2>5. QED
        BY <1>1, <1>2, <1>4, <2>1, <2>2, <2>3, <2>4 DEF CoverInv, SaveCoversFile
<1>8. QED
    BY <1>1, <1>5, <1>6, <1>7

LEMMA WriteCover ==
    ASSUME FileInv, CoverInv, TruncateFile \/ WriteFile
    PROVE  CoverInv'
<1>1. UNCHANGED <<vars, snap, member>>
    BY DEF TruncateFile, WriteFile
<1>2. UNCHANGED <<SnapHave, Have, downloadedBytes>>
    BY <1>1 DEF SnapHave, Have, vars, ledger
<1>3. CASE TruncateFile
    <2>1. wpc = "truncate" /\ wpc' = "write" /\ file' = Torn
        BY <1>3 DEF TruncateFile
    <2>2. QED
        BY <1>1, <1>2, <2>1 DEF CoverInv, SaveCoversFile
<1>4. CASE WriteFile
    <2>1. wpc = "write" /\ wpc' = "free" /\ file' = snap
        BY <1>4 DEF WriteFile
    <2>2. FileHave' = SnapHave
        BY <2>1 DEF FileHave, SnapHave
    <2>3. QED
        BY <1>1, <1>2, <2>1, <2>2 DEF CoverInv, SaveCoversFile
<1>5. QED
    BY <1>3, <1>4

\* A new process starts from the file, or has not loaded the package at all.
LEMMA RestartCover ==
    ASSUME FileInv, CoverInv, Restart
    PROVE  CoverInv'
<1>1. wpc' = "free" /\ file' = file
    BY DEF Restart
<1>2. file # Torn => /\ bitmap' = file.bitmap
                     /\ downloadedBytes' = file.downloadedBytes
    BY DEF Restart
<1>3. file # Torn => /\ FileHave' = Have'
                     /\ file.downloadedBytes \in Int
    BY <1>1, <1>2 DEF FileHave, Have, FileInv, FileTypeOK, SavedLedger
<1>4. QED
    BY <1>1, <1>2, <1>3 DEF CoverInv, SaveCoversFile

LEMMA NextCover ==
    ASSUME FileInv, CoverInv, [FileNext]_allVars
    PROVE  CoverInv'
<1>1. CASE StartDownloadPackage \/ UserStop \/ UNCHANGED allVars
    BY <1>1, LedgerStepCover
       DEF StartDownloadPackage, UserStop, allVars, fileVars, Next
<1>2. ASSUME NEW s \in Slots, SlotWork(s) \/ DecideSave(s) \/ SlotStop(s)
      PROVE  CoverInv'
    BY <1>2, LedgerStepCover DEF SlotWork, DecideSave, SlotStop, Next
<1>3. CASE Save
    BY <1>3, BeginSaveCover, SerializeMemberCover, WriteCover DEF Save
<1>4. CASE Restart
    BY <1>4, RestartCover
<1>5. QED
    BY <1>1, <1>2, <1>3, <1>4 DEF FileNext

\* Whichever of the competing saves comes last, it writes no less than the
\* file says already, also after any number of restarts.
THEOREM SavesNeverTakeBack == FileSpec => []SaveCoversFile
<1>1. FileInit => CoverInv
    <2> SUFFICES ASSUME FileInit
                 PROVE  CoverInv
        OBVIOUS
    <2>1. downloadedBytes \in Int
        BY InitFileInv DEF FileInv, CoreInv, TypeOK
    <2>2. FileHave = Have /\ file.downloadedBytes = downloadedBytes /\ wpc = "free"
        BY DEF FileInit, Ledger, FileHave, Have
    <2>3. QED
        BY <2>1, <2>2 DEF CoverInv, SaveCoversFile
<1>2. FileInv /\ CoverInv /\ [FileNext]_allVars => CoverInv'
    BY NextCover
<1>3. CoverInv => SaveCoversFile
    BY DEF CoverInv
<1>4. QED
    BY <1>1, <1>2, <1>3, FileInvariant, PTL DEF FileSpec
=============================================================================
