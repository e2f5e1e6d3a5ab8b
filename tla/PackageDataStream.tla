-------------------------- MODULE PackageDataStream --------------------------
(***************************************************************************)
(* The streams package data goes through, byte by byte:                    *)
(*   archive -> PackageDataStream with CreatePackageDataStreamController   *)
(*           -> data files and hashes of a new package;                    *)
(*   data files -> ReadPackageDataStreamController -> network              *)
(*           -> ValidatePackageDataStreamController                        *)
(*           -> WritePackageDataStreamController -> data files of a node   *)
(*              that downloads it (DownloadSegmentsInternalAsync).         *)
(*                                                                         *)
(* A PackageDataStream has a position and the position where its current   *)
(* part ends.  ResolveCurrentItemAndEnsureStream does something only when  *)
(* they meet: it takes the next part, and the controller's                 *)
(* OnStreamPartChange finishes the old part.  Close resolves once more.    *)
(*                                                                         *)
(* The bytes of the archive are 1, 2, ...; Zero is an allocated byte, Bad  *)
(* one that was changed on the way.  The hash of bytes stands for itself.  *)
(***************************************************************************)
EXTENDS PackageSequence, SequencesExt

CONSTANTS
    Sizes,              \* sizes of archives
    Slots,              \* download slots of the other node
    SegmentsPerRequest,
    FilesMayFail,       \* opening and writing the node's data files may fail
    NoFile

ASSUME StreamAssumption ==
    /\ Sizes \subseteq Nat
    /\ SegmentsPerRequest \in Nat \ {0}
    /\ FilesMayFail \in BOOLEAN

Zero == 0
Bad  == -1

VARIABLES
    size,       \* bytes of the archive
    creator,    \* the stream that creates the package
    source,     \* its data files, each a sequence of bytes
    hashes,     \* PackageSegmentsHashes
    disk,       \* the data files of the node that downloads
    request,    \* request[s]: the segments slot s asked for, <<>> if none
    stage,      \* stage[s]: where DownloadSegmentsInternalAsync is
    validate,   \* validate[s]: streamValidate of slot s
    write,      \* write[s]: streamWrite of slot s
    file,       \* file[s]: the data file slot s has open, or NoFile
    have        \* segments that were downloaded with success

createVars == <<size, creator, source, hashes>>
vars == <<createVars, disk, request, stage, validate, write, file, have>>

Zeros(n) == [k \in 1..n |-> Zero]

\* bytes written at an offset that is inside f or at its end
Overwrite(f, offset, bytes) ==
    SubSeq(f, 1, offset) \o bytes \o SubSeq(f, offset + Len(bytes) + 1, Len(f))

\* A stream before its first read or write; taken counts the parts taken.
NewStream == [pos |-> 0, next |-> 0, taken |-> 0]

\* segment: the bytes of the current part; bytes: the position when the transfer
\* had ended.
NewValidate == [pos |-> 0, next |-> 0, taken |-> 0, segment |-> <<>>, bytes |-> -1]

Init ==
    /\ size \in Sizes
    /\ creator = [pos |-> 0, next |-> 0, taken |-> 0, segment |-> <<>>, closed |-> FALSE]
    /\ source = <<>> /\ hashes = <<>>
    /\ disk = <<>>
    /\ request = [s \in Slots |-> <<>>]
    /\ stage = [s \in Slots |-> "idle"]
    /\ validate = [s \in Slots |-> NewValidate]
    /\ write = [s \in Slots |-> NewStream]
    /\ file = [s \in Slots |-> NoFile]
    /\ have = {}

downloadVars == <<disk, request, stage, validate, write, file, have>>

-----------------------------------------------------------------------------
(* The package is created. *)

\* Mutant: the hash of a part goes on in the next one.
NextPartKeepsHash ==
    [creator |-> [creator EXCEPT !.next = @ + SegmentLength, !.taken = @ + 1],
     source  |-> IF DataFileIndex(creator.taken) = Len(source)
                 THEN Append(source, Zeros(DataFileLength)) ELSE source,
     hashes  |-> IF creator.taken = 0 THEN hashes ELSE Append(hashes, creator.segment)]

\* The creator, its files and its hashes after OnStreamPartChange to the next of
\* infinitely many parts: the hash of the old part, and a new data file when
\* the part is in another one.
NextPart ==
    [creator |-> [creator EXCEPT !.next = @ + SegmentLength, !.taken = @ + 1,
                                 !.segment = <<>>],
     source  |-> IF DataFileIndex(creator.taken) = Len(source)
                 THEN Append(source, Zeros(DataFileLength)) ELSE source,
     hashes  |-> IF creator.taken = 0 THEN hashes ELSE Append(hashes, creator.segment)]

\* A write finds the current part full.
CreatePart ==
    /\ ~creator.closed
    /\ creator.pos = creator.next /\ creator.pos < size
    /\ creator' = NextPart.creator
    /\ source' = NextPart.source
    /\ hashes' = NextPart.hashes
    /\ UNCHANGED <<size, downloadVars>>

\* Where the data file of a stream is positioned inside its current part.
Position(c) ==
    SegmentOffsetInDataFile(c.taken - 1) + c.pos - (c.next - SegmentLength)

\* A write of n bytes, or the piece of a longer one that fits the part.
CreateWrite(n) ==
    LET bytes == [k \in 1..n |-> creator.pos + k]
    IN  /\ ~creator.closed
        /\ n <= creator.next - creator.pos /\ n <= size - creator.pos
        /\ creator' = [creator EXCEPT !.pos = @ + n, !.segment = @ \o bytes]
        /\ source' = [source EXCEPT ![Len(source)] = Overwrite(@, Position(creator), bytes)]
        /\ UNCHANGED <<size, hashes, downloadVars>>

\* Close and OnStreamClosed: one more part is taken if the last one is full; the
\* current part is hashed and its data file trimmed.
CreateClose ==
    LET at == IF creator.pos = creator.next
              THEN NextPart ELSE [creator |-> creator, source |-> source, hashes |-> hashes]
    IN  /\ ~creator.closed
        /\ creator.pos = size
        /\ creator' = [at.creator EXCEPT !.closed = TRUE]
        /\ hashes' = Append(at.hashes, at.creator.segment)
        /\ source' = [at.source EXCEPT ![Len(at.source)] = SubSeq(@, 1, Position(at.creator))]
        /\ UNCHANGED <<size, downloadVars>>

\* PackageSize, from the lengths of the data files.
PackageSize == Len(FlattenSeq(source))

Segments == 0..(SegmentsCount(PackageSize) - 1)

\* PackageDataAllocator.Allocate on the node that downloads.
Allocate ==
    /\ creator.closed /\ disk = <<>>
    /\ disk' = [f \in 1..DataFilesCount(PackageSize) |->
                  Zeros(SizeOfDataFile(PackageSize, f - 1))]
    /\ UNCHANGED <<createVars, request, stage, validate, write, file, have>>

-----------------------------------------------------------------------------
(* A download request. *)

\* Bytes of segment i in data files, where readers look for them.
BytesOf(files, i) ==
    LET offset == SegmentOffsetInDataFile(i)
    IN  SubSeq(files[DataFileIndex(i) + 1], offset + 1, offset + SizeOfSegment(PackageSize, i))

\* The stream of ReadPackageDataStreamController for a request.
Upload(req) == FlattenSeq([k \in 1..Len(req) |-> BytesOf(source, req[k])])

Requested(s) == {request[s][k] : k \in 1..Len(request[s])}

\* The ledger hands out segments that no slot holds and that are not there, in
\* any order.
Requests ==
    LET free == Segments \ (have \union UNION {Requested(s) : s \in Slots})
    IN  {r \in UNION {[1..n -> free] : n \in 1..SegmentsPerRequest} :
            \A j, k \in DOMAIN r : r[j] = r[k] => j = k}

\* A response with data has come, and the streams are created for it.
Request(s, req) ==
    /\ disk # <<>>
    /\ stage[s] = "idle"
    /\ request' = [request EXCEPT ![s] = req]
    /\ stage' = [stage EXCEPT ![s] = "copy"]
    /\ file' = [file EXCEPT ![s] = NoFile]
    /\ UNCHANGED <<createVars, disk, validate, write, have>>

AtBoundary(stream) == stream.pos = stream.next

\* Mutant: the data files are trusted to the peer.
HashMatchesAnything(s) == TRUE

HashMatches(s) == validate[s].segment = hashes[request[s][validate[s].taken] + 1]

\* Seek, for a new file and for a part in the one that is open.
WriteOffset(s, i) == SegmentOffsetInDataFile(i)

\* The write of a verified segment to streamWrite: its part is taken, the data
\* file opened if it is another one, and k bytes get there.
NestedWrite(s, k) ==
    LET i     == request[s][write[s].taken + 1]
        bytes == SubSeq(validate[s].segment, 1, k)
    IN  /\ write' = [write EXCEPT ![s] = [pos   |-> write[s].pos + k,
                                          next  |-> write[s].next + SizeOfSegment(PackageSize, i),
                                          taken |-> write[s].taken + 1]]
        /\ file' = [file EXCEPT ![s] = DataFileIndex(i)]
        /\ disk' = [disk EXCEPT ![DataFileIndex(i) + 1] = Overwrite(@, WriteOffset(s, i), bytes)]

\* The data file does not open: the one before it has been closed.
NestedOpenFails(s) ==
    /\ file[s] # DataFileIndex(request[s][write[s].taken + 1])
    /\ file' = [file EXCEPT ![s] = NoFile]
    /\ UNCHANGED <<write, disk>>

\* streamValidate takes its next part, or finds there is none.
Advance(s) ==
    LET v == validate[s]
    IN  validate' = [validate EXCEPT
            ![s] = [v EXCEPT !.segment = <<>>, !.taken = v.taken + 1,
                             !.next = IF v.taken < Len(request[s])
                                      THEN v.next + SizeOfSegment(PackageSize, request[s][v.taken + 1])
                                      ELSE v.next]]

Goto(s, st) == stage' = [stage EXCEPT ![s] = st]

\* ResolveCurrentItemAndEnsureStream of streamValidate at the end of a part: the
\* part is verified and written, or an exception goes up.
Resolve(s, resolved, thrown) ==
    LET v == validate[s]
    IN  \/ /\ v.taken = 0
           /\ Advance(s) /\ Goto(s, resolved)
           /\ UNCHANGED <<write, file, disk>>
        \/ /\ v.taken \in 1..Len(request[s])
           /\ HashMatches(s)
           /\ NestedWrite(s, Len(v.segment))
           /\ Advance(s) /\ Goto(s, resolved)
        \/ /\ v.taken \in 1..Len(request[s])
           /\ ~HashMatches(s)
           /\ Goto(s, thrown)
           /\ UNCHANGED <<validate, write, file, disk>>
        \/ /\ v.taken \in 1..Len(request[s])
           /\ HashMatches(s) /\ FilesMayFail
           /\ \/ NestedOpenFails(s)
              \/ \E k \in 0..(Len(v.segment) - 1) : NestedWrite(s, k)
           /\ Goto(s, thrown)
           /\ UNCHANGED validate
        \/ /\ v.taken > Len(request[s])
           /\ Goto(s, resolved)
           /\ UNCHANGED <<validate, write, file, disk>>

\* More bytes come when the current part is full.  Bytes beyond the last part
\* are dropped.
EnterPart(s) ==
    /\ stage[s] = "copy"
    /\ AtBoundary(validate[s])
    /\ Resolve(s, "copy", "broken")
    /\ UNCHANGED <<createVars, request, have>>

\* n bytes of the current part come from the peer, as they were sent or not.
Receive(s, n, clean) ==
    LET v     == validate[s]
        sent  == SubSeq(Upload(request[s]), v.pos + 1, v.pos + n)
        bytes == IF clean THEN sent ELSE [sent EXCEPT ![1] = Bad]
    IN  /\ stage[s] = "copy"
        /\ n <= v.next - v.pos
        /\ validate' = [validate EXCEPT ![s] = [v EXCEPT !.pos = v.pos + n,
                                                        !.segment = v.segment \o bytes]]
        /\ UNCHANGED <<createVars, disk, request, stage, write, file, have>>

\* The response ends; the position counts as the number of bytes received.
EndTransfer(s) ==
    /\ stage[s] = "copy"
    /\ validate' = [validate EXCEPT ![s].bytes = validate[s].pos]
    /\ Goto(s, "close")
    /\ UNCHANGED <<createVars, disk, request, write, file, have>>

\* The connection breaks or times out.
TransferFails(s) ==
    /\ stage[s] = "copy"
    /\ Goto(s, "close")
    /\ UNCHANGED <<createVars, disk, request, validate, write, file, have>>

\* After an exception in the change of a part Close changes the part again and
\* flushes the final block of the same hash twice, which throws: the finally
\* block ends here.
CloseThrows(s) ==
    /\ stage[s] = "broken"
    /\ Goto(s, "thrown")
    /\ UNCHANGED <<createVars, disk, request, validate, write, file, have>>

\* Mutant: Close does not resolve, so the last part is dropped.
CloseValidateDrops(s) ==
    /\ stage[s] = "close"
    /\ Goto(s, "closeWrite")
    /\ UNCHANGED <<createVars, disk, request, validate, write, file, have>>

\* streamValidate.Dispose, which is Close: the last part is verified and written
\* here.  A part that is not full is dropped.
CloseValidate(s) ==
    /\ stage[s] = "close"
    /\ IF AtBoundary(validate[s])
       THEN Resolve(s, "closeWrite", "thrown")
       ELSE Goto(s, "closeWrite") /\ UNCHANGED <<validate, write, file, disk>>
    /\ UNCHANGED <<createVars, request, have>>

\* streamWrite.Dispose: it takes one more part, if there is one, and may have to
\* open its data file.
CloseWrite(s) ==
    /\ stage[s] = "closeWrite"
    /\ file' = [file EXCEPT ![s] = NoFile]
    /\ \/ Goto(s, "decide")
       \/ /\ FilesMayFail /\ write[s].taken < Len(request[s])
          /\ file[s] # DataFileIndex(request[s][write[s].taken + 1])
          /\ Goto(s, "thrown")
    /\ UNCHANGED <<createVars, disk, request, validate, write, have>>

\* The slot is free again; its streams are garbage.
Ended(s) ==
    /\ Goto(s, "idle")
    /\ request' = [request EXCEPT ![s] = <<>>]
    /\ validate' = [validate EXCEPT ![s] = NewValidate]
    /\ write' = [write EXCEPT ![s] = NewStream]

\* Mutant: a response that ended early counts.
SucceedShort(s) ==
    /\ stage[s] = "decide"
    /\ validate[s].bytes > 0
    /\ have' = have \union Requested(s)
    /\ Ended(s)
    /\ UNCHANGED <<createVars, disk, file>>

\* All bytes came and nothing threw.
Succeed(s) ==
    /\ stage[s] = "decide"
    /\ validate[s].bytes = SizeOfParts(PackageSize, request[s])
    /\ have' = have \union Requested(s)
    /\ Ended(s)
    /\ UNCHANGED <<createVars, disk, file>>

\* The request fails; after an exception in the finally block streamWrite and
\* its data file are left open.
Fail(s) ==
    /\ \/ stage[s] = "thrown"
       \/ stage[s] = "decide" /\ validate[s].bytes # SizeOfParts(PackageSize, request[s])
    /\ Ended(s)
    /\ UNCHANGED <<createVars, disk, file, have>>

Create ==
    \/ CreatePart \/ CreateClose \/ Allocate
    \/ \E n \in 1..SegmentLength : CreateWrite(n)

SlotStep(s) ==
    \/ \E req \in Requests : Request(s, req)
    \/ EnterPart(s)
    \/ \E n \in 1..SegmentLength, clean \in BOOLEAN : Receive(s, n, clean)
    \/ EndTransfer(s) \/ TransferFails(s)
    \/ CloseThrows(s) \/ CloseValidate(s) \/ CloseWrite(s)
    \/ Succeed(s) \/ Fail(s)

Next == Create \/ \E s \in Slots : SlotStep(s)

Spec == Init /\ [][Next]_vars

-----------------------------------------------------------------------------
(* PackageDataValidator.ValidatePackageAsyncInternal, for data files of a      *)
(* package that is complete: what it finds.                                    *)

Validate(files) ==
    IF SegmentsCount(PackageSize) # Len(hashes) THEN "invalid count of segments"
    ELSE IF \E f \in 1..DataFilesCount(PackageSize) :
              f > Len(files) \/ Len(files[f]) # SizeOfDataFile(PackageSize, f - 1)
    THEN "data file"
    ELSE IF \E i \in Segments : BytesOf(files, i) # hashes[i + 1] THEN "hash mismatch"
    ELSE "valid"

-----------------------------------------------------------------------------
(* Correctness. *)

\* The data files of a created package are the archive cut where readers look
\* for the segments, whatever the lengths of the writes, and its size is that of
\* the archive: every segment is found again by part arithmetic.
CreatedInPlace ==
    creator.closed =>
        /\ PackageSize = size
        /\ FlattenSeq([i \in 1..SegmentsCount(size) |-> BytesOf(source, i - 1)])
              = [k \in 1..size |-> k]

\* The hash at the index of a segment is the segment's, in spite of the hash that
\* is added for the part Close takes.
HashesOfSegments ==
    creator.closed => \A i \in Segments : hashes[i + 1] = BytesOf(source, i)

\* "To verify hashes use ValidatePackageDataStreamController before this": the
\* data files of a node hold, at each byte, nothing or what the creator had
\* there, though peers send anything and requests fail at any point.
OnlyVerifiedBytes ==
    \A f \in 1..Len(disk) :
        /\ Len(disk[f]) = SizeOfDataFile(PackageSize, f - 1)
        /\ \A k \in 1..Len(disk[f]) : disk[f][k] \in {Zero, source[f][k]}

\* What DownloadSegmentsInternalAsync reports as downloaded is on disk as a
\* whole, the last segment of a request included, and stays there whatever
\* other requests do.
SuccessIsOnDisk == \A i \in have : BytesOf(disk, i) = BytesOf(source, i)

\* A complete download passes the validation, unless the size is a multiple of
\* the segment's.
CompleteIsValid ==
    (creator.closed /\ size % SegmentLength # 0 /\ have = Segments) => Validate(disk) = "valid"

\* What PackageDataValidator says of a package that was just created: that its
\* count of segments matches the sequence, and so on.
CreatedIsValid == creator.closed => Validate(source) = "valid"

-----------------------------------------------------------------------------
(* The inductive invariant behind them.  First the package that is created:  *)
(* its files and hashes as functions of the position of the creator.         *)

\* n bytes of the archive after the first a.
Archive(a, n) == [k \in 1..n |-> a + k]

\* The position where the current part starts.
PartStart(c) == IF c.taken = 0 THEN 0 ELSE c.next - SegmentLength

\* Data file f when p bytes of the archive have been written.
DataFile(f, p) ==
    [k \in 1..DataFileLength |->
        IF DataFileLength * (f - 1) + k <= p THEN DataFileLength * (f - 1) + k ELSE Zero]

\* A stream that is still open, its files and its hashes.
Open(c, files, parts) ==
    /\ c.next = SegmentLength * c.taken
    /\ c.pos \in PartStart(c)..c.next
    /\ c.segment = Archive(PartStart(c), c.pos - PartStart(c))
    /\ files = [f \in 1..(IF c.taken = 0 THEN 0 ELSE DataFileIndex(c.taken - 1) + 1) |->
                   DataFile(f, c.pos)]
    /\ parts = [j \in 1..(IF c.taken = 0 THEN 0 ELSE c.taken - 1) |->
                   Archive(SegmentLength * (j - 1), SegmentLength)]

\* n bytes in pieces of the given length, the last one not full, maybe empty.
Cut(n, length) ==
    [j \in 1..(n \div length + 1) |->
        Archive(length * (j - 1), IF j <= n \div length THEN length ELSE n % length)]

Creators == [pos : 0..size, next : Nat, taken : Nat, segment : Seq(Int), closed : BOOLEAN]

CreateInv ==
    /\ size \in Nat
    /\ creator \in Creators
    /\ ~creator.closed => Open(creator, source, hashes)
    /\ creator.closed => source = Cut(size, DataFileLength) /\ hashes = Cut(size, SegmentLength)

\* Then the downloads.  Nothing but bytes of the archive gets to disk, and what
\* a slot has verified is there.
OnDisk(i) == BytesOf(disk, i) = BytesOf(source, i)

\* Data files of the right lengths, with nothing but bytes of the archive.
Partial(files) ==
    /\ files \in [1..DataFilesCount(size) -> Seq(Int)]
    /\ \A f \in 1..DataFilesCount(size) :
        /\ Len(files[f]) = SizeOfDataFile(size, f - 1)
        /\ \A k \in 1..Len(files[f]) : files[f][k] \in {Zero, DataFileLength * (f - 1) + k}

DiskInv == disk # <<>> => creator.closed /\ size > 0 /\ Partial(disk)

HaveInv ==
    have # {} => /\ disk # <<>>
                 /\ \A i \in have : i \in 0..(SegmentsCount(size) - 1) /\ OnDisk(i)

\* Stages in which no exception has been thrown.
SoundStages == {"copy", "close", "closeWrite", "decide"}

\* How far the sizes of a request req have been added up by a streamValidate v
\* in a stage st, and the parts streamWrite has taken.
Sound(st, v, taken, req) ==
    LET n == Len(req)
    IN  /\ v.taken \in 0..(n + 1)
        /\ v.next = SizesOfParts(size, req)[IF v.taken <= n THEN v.taken ELSE n]
        /\ v.pos <= v.next
        /\ taken = IF v.taken = 0 THEN 0 ELSE v.taken - 1
        /\ v.bytes \in IF st = "copy" THEN {-1} ELSE {-1, v.pos}
        /\ st \in {"closeWrite", "decide"} => (v.bytes = SizeOfParts(size, req) => v.taken = n + 1)

\* Every part streamWrite has taken is on disk.
SoundInv(s) ==
    /\ Sound(stage[s], validate[s], write[s].taken, request[s])
    /\ \A j \in 1..write[s].taken : OnDisk(request[s][j])

Stages    == {"idle", "broken", "thrown"} \union SoundStages
Validates == [pos : Nat, next : Nat, taken : Nat, segment : Seq(Int), bytes : Int]
Writes    == [pos : Nat, next : Nat, taken : Nat]

SlotInv(s) ==
    /\ stage[s] = "idle" => validate[s] = NewValidate /\ write[s] = NewStream
    /\ stage[s] # "idle" => disk # <<>> /\ request[s] # <<>>
    /\ stage[s] \in SoundStages => SoundInv(s)

SlotsInv ==
    /\ stage \in [Slots -> Stages]
    /\ validate \in [Slots -> Validates]
    /\ write \in [Slots -> Writes]
    /\ request \in [Slots -> Seq(0..(SegmentsCount(size) - 1))]
    /\ \A s \in Slots : SlotInv(s)

StreamInv == CreateInv /\ DiskInv /\ HaveInv /\ SlotsInv
=============================================================================
