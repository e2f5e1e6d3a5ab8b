--------------------------- MODULE PackageSequence ---------------------------
(***************************************************************************)
(* How a package of n bytes is cut into segments and data files:           *)
(* PackageSequenceBaseInfo, PackageSequenceInfo and PackagePartsSequencer. *)
(*                                                                         *)
(* Counts are cast to 32 bits in the code; with segments of 1 MB that      *)
(* would matter beyond 2^51 bytes.                                         *)
(***************************************************************************)
EXTENDS Integers, Sequences, FiniteSets

CONSTANTS SegmentLength, SegmentsPerDataFile

ASSUME SequenceAssumption ==
    /\ SegmentLength \in Nat \ {0}
    /\ SegmentsPerDataFile \in Nat \ {0}

\* The constructor throws unless segments fit evenly.
DataFileLength == SegmentsPerDataFile * SegmentLength

\* Number of pieces of the given length, and the length of the last one.
PiecesCount(n, length) == (n + length - 1) \div length

\* Mutant: a last piece that is full has length 0.
LastLengthMod(n, length) == n % length

LastLength(n, length) == IF n % length = 0 /\ n > 0 THEN length ELSE n % length

SegmentsCount(n)  == PiecesCount(n, SegmentLength)
DataFilesCount(n) == PiecesCount(n, DataFileLength)

\* GetSizeOfSegment and GetSizeOfDataFile, within their ranges.
SizeOfSegment(n, i) ==
    IF i = SegmentsCount(n) - 1 THEN LastLength(n, SegmentLength) ELSE SegmentLength

SizeOfDataFile(n, i) ==
    IF i = DataFilesCount(n) - 1 THEN LastLength(n, DataFileLength) ELSE DataFileLength

\* Where segment i is: its data file and the offset in it.
DataFileIndex(i) == i \div SegmentsPerDataFile

SegmentOffsetInDataFile(i) == (i % SegmentsPerDataFile) * SegmentLength

\* GetSizeOfParts: the running sum of its loop, and the sum.
SizesOfParts(n, parts) ==
    LET sum[k \in 0..Len(parts)] ==
            IF k = 0 THEN 0 ELSE sum[k - 1] + SizeOfSegment(n, parts[k])
    IN  sum

SizeOfParts(n, parts) == SizesOfParts(n, parts)[Len(parts)]
=============================================================================
