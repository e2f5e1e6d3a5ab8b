# ShareCluster in TLA+

ShareCluster (`src/ShareCluster.App`, C#/.NET Core) lets the machines of a LAN share packages of
files: a package is cut into segments with known hashes, a node that wants it fetches segments
from any peer that has them and serves the ones it already has. This directory holds TLA+ models
of the program's concurrent core, the TLC configurations that check them, and TLAPS proofs.

Run, in this directory: `tlc -config <X>.cfg <MC module>` for a check, `tlapm <X>Proofs.tla` for
the proofs.

## 1. Inventory

| Component | State it keeps | Operations | Talks to | Correct when |
|---|---|---|---|---|
| **PackageDownloadInfo** (segment ledger) | bitmap, downloaded bytes, downloading flag, segments in progress, reserved bytes; own lock | claim segments, return them, validate a peer's status, validate a request | download slots, uploads, status updates; serialised to disk | no segment twice, counters agree with sets, returns never throw |
| **Status file** | the ledger's copy on disk | save (start, stop, slot), load | manager, registry | never claims what is not on disk, no save takes back another's; a completion gets there |
| **PackageLocks** | use tokens, delete mark, completion of the deletion | TryLock, Lock, Unlock, MarkForDelete | slots, uploads, saves, verification; deletion waits for them | nothing deleted under a user, deleted once, deletions end |
| **PackageDownloadManager**, slots | queue, running slots, retry flag, postponed saves; one monitor | start, stop, schedule, finish a slot, fetch a discovered package, answer status requests | ledger, locks, updater, registry, HTTP client | slot limit, no lost wake-up, nothing starts for a stopped package, the head of the queue ends |
| **PackageStatusUpdater** | packages of interest, peers with counters, statuses per package and peer, postpone timers; one lock and a timer | interest, peers changed, poll, apply answers, postpone | peers' HTTP API, manager, PeerClusterStatus | counters agree with statuses, what may be new is asked for |
| **PeerRegistry, PeerInfo, PeerClusterStatus** | peers, enabled flag, fail counter, known packages; locks of registry and of each peer | announce, success, failure, disable, re-enable | PeersChanged to updater and PeersCluster | published arrays and listeners agree with the flags; no lock cycle |
| **PeersCluster** | status version, timer plan | plan, send, receive cluster status | peers, registry | no plan is lost, peers are contacted in time, failing peers are protected |
| **Uploads** | counter of upload slots; per upload a stream and a token | request, choke, stream, close | package locks, registry, files | slots come back, the package is there while it is read |
| **PackageRegistry, LocalPackageManager** | local and discovered packages, published copies, files on disk | register discovered, create, save remote, write status, delete | file system, manager | a package is registered whole or not at all |
| **Sequence arithmetic, part sequencer** | none (pure) | sizes and positions of data files, segments, parts | data streams | parts tile the package |
| **Data streams, validator, allocator** | current part, hash state | split, hash, write, verify | file system, manager | what is marked downloaded was verified; Disposing is raised |
| **Long-running tasks, web facade** | task lists, packages in verification | start, complete, clean | UI | a task's outcome is what happened |
| **UDP discovery, HTTP controllers, serializers, archive, UI** | sockets, none | announce, parse, render | PeersCluster | - |

Hard behaviours: slots finish on pool threads while the manager reads the ledger without its lock;
the status file is written while a slot updates the ledger; a stop, a resume or a deletion arrives
while slots are in flight; continuations run inline inside other components' locks; polls answer
for peers that have been dropped meanwhile; timers are set again while one is pending.

## 2. Modules

| Module | Models | Extends / instantiates |
|---|---|---|
| `PackageDownloadInfo` | ledger of one package | instantiates `SegmentClaims` (abstract, refinement) |
| `DownloadStatusFile` | ledger, status file, crashes | extends `PackageDownloadInfo` |
| `PackageLocks` | tokens and deletion of one package | instantiates `GuardedResource` (abstract, refinement) |
| `Uploads` | upload slots and streams, with the locks of the package | extends `PackageLocks` |
| `PackageDownloadManager` | queue, slots, timers, fetches, deletions | |
| `PackageStatusUpdater` | interest, peers, polls, counters | |
| `PeerRegistry` | enabled flags, published list, listeners, three kinds of locks | |
| `PeersCluster` | plan, timer, rounds of messages, status of each peer | |
| `PackageRegistry` | registry and package folders, with failures, crashes and restarts | |
| `PackageSequence` | counts, sizes and positions of segments and data files | |
| `PackageDataStream` | creation, upload, download and validation, byte by byte | extends `PackageSequence` |
| `DownloadStatusFileProofs` | theorems on the ledger and its file | extends `DownloadStatusFile`, `TLAPS` |
| `UploadsProofs` | theorems on the locks and the uploads | extends `Uploads`, `TLAPS` |
| `PackageDataStreamProofs` | theorems on the arithmetic and the streams | extends `PackageDataStream`, `TLAPS` |
| other `*Proofs` | theorems on the module they are named after | extend it and `TLAPS` |
| `MC*` | instances for TLC | extend the modules |

A definition whose comment begins with *Mutant* is a plausible mistake in the definition that
follows it. No specification uses it; with it in place of the definition TLC finds the property
it is paired with (`mutants` in `PROJECT.json`) violated.

**PackageDownloadInfo.** `bitmap` (Null for the null reference), `downloadedBytes`,
`isDownloading`, `partsInProgress`, `progressBytesReserved` are the fields of that name.
`TrySelectSegmentsForDownload` is one step under `syncLock`, but the reads before it
(`IsMoreToDownload`, the two exceptions) are steps of their own, as they take no lock, and
`ReturnLockedSegments` is one step per store (`BeginReturn`, `MarkSegment`, `AddDownloadedBytes`,
`ReleaseReserved`, `EndReturn`, `CompletePackage`), so that every unlocked read and the unlocked
writes of `StartDownloadPackage` and `StopDownloadPackage` (`CheckBeforeResume`, `Resume`, `Stop`)
fall between any two of them. Selection is exact: the walk over the bytes of the bitmap from a
random start, wrapping around, with the unused bits of the last byte. `SegmentClaims` is what it
promises: segments are claimed by one slot, then owned or given back.

**DownloadStatusFile.** Adds who saves when: the manager inside its lock (`managerSave`), a slot
that has returned segments (`after`); `UpdateDownloadStatus` copies the members one by one in
the serializer's order, outside the ledger's lock, then truncates and writes the file. `Restart`
is a crash at any step and the load of what the file then holds. `data` is the segments whose
verified data has reached the data files.

**PackageLocks.** One action per lock region. `SetResult` in `Unlock` runs the continuation of
`DeletePackageAsync` inline, so the deletion of the folder and `UpdateLists` are steps of whichever
thread `t` got to run them, with `syncLock` still held if it is a user. `GuardedResource` is the
promise: nobody starts to use it once it is doomed, and it is destroyed when its last user is gone.

**Uploads.** Some users of `PackageLocks` are uploads, and their steps are conjoined with those of
the counter `uploadSlots`; uploads of other packages share the counter only. The decrement, the
comparison and the increment of a choke are three steps (`AllocateSlot`, `Choke`). A stream
opens a data file when a read finds it at the end of a part, and once more in `Close`. Two ends of an
upload keep its slot for good: a `Close` that throws, so that `Disposing` is not raised (stage `lost`),
and the refusal of a package marked between look-up and `TryLock` (`RefuseMarked`, stage `refused`).
The properties count them apart from the uploads that hold a slot (`LostStages`, `GrantedStages`).

**PackageDownloadManager.** `downloads` is the queue, `slot` the `PackageDownloadSlot`s with the
stage they are at; `Busy` slots are those in `downloadSlots`, the other ones are tasks that have
left it and whose continuation is to run. A call of `TryScheduleNextDownload` sets
`scheduling` and the monitor is held until `GiveUp` or `EndSchedule` (`LockFree`); slots, polls and
deletions go on meanwhile. `TryStart` is one step, at its `TryLock`: a mark that falls later in it
in the code finds the token taken, as one that falls right after the step does. The ledger is abstracted
to `have` and the slots' segments (what `SegmentClaims` promises), the tokens to the slots' stages, the
updater to what it answers.

**PackageStatusUpdater.** A `PeerOverallStatus` object is its number among those the peer had:
`peers[q]` is the one in the dictionary, `owner[q][p]` the one inside the peer's status for `p`,
`poll[q][i].object` the one a poll was sent for. All that runs under `syncLock` is one step, except
the application of an answer, which is one step per package because `MarkStatusUpdateFail` in it may
come back as `UpdatePeers`. A change of `IsEnabled` and its notification are one step: the lock of
the peer's status is held over both. When a poll is sent (intervals, fast updates, postponement)
is left open, as only delays depend on it.

**PeerRegistry.** A thread changes a status under that status's lock (`ChangeStatus`), and still
holding it takes `peersLock` to publish the list (`Publish`) and the updater's lock to tell it
(`Notify`). `UpdatePeers` does the same from inside `peersLock` when it enables a peer again, and an
answer that is not valid from inside the updater's lock: `outer` is the operation whose lock is
held meanwhile. Locks are reentrant.

**PeersCluster.** `PlanSendingClusterUpdate` sets the one-shot timer or leaves that to a callback in
progress; a callback (`EnterCallback`, `SendStatusUpdate`, `EndCallback`) leaves the sending to a
round, so callbacks and rounds overlap. The query for the peers that are due is lazy and evaluated
again by the round, peer by peer; `Due` is its condition as the code has it. A change of the packages
(`Changed`) is the event that makes a plan. `Tick` is the clock.

**PackageRegistry.** `folders` and `files` are the disk, `localPackages` the registry.
`LookForDirectory` to `RegisterFetched` is `SaveRemotePackage`, with `packagesLock` held all the time:
the look for the directory, its creation, which succeeds with one that is there, and each file are
steps of their own (a file that is there is truncated, then written). `Build`, `Move`, `RegisterCreated`
is `CreatePackageFromFolder`, which takes the lock at its end only, so that `Move` falls between any two
of them; then saves and deletions. `Restart` is a crash at any step, then `Init` on what can be read.
`spoiled[p]` is the set of places where an operation on the package ended half way, by a crash or a throw:
the properties say which of these can explain which missing file. A save that succeeds takes its
own place out, and the deletion of the folder all of them.

**PackageSequence, PackageDataStream.** A stream has a position and the position at which it takes
its next part. The four controllers are the actions' names for what `OnStreamPartChange`
and `OnStreamClosed` do to data file, hash and segment. The bytes of a package are 1, 2, ..., so that a
byte in the wrong place is seen; a hash is the bytes it is of. Writes and network reads have any
length. `Validate` is `PackageDataValidator` as an operator.

## 3. Runs

States are distinct states.

| Run | Instance | Shows |
|---|---|---|
| `ledger` (10 535) | 2 slots, 3 segments, the last one short, 2 to a bitmap byte, 2 per request | `NoSegmentTwice`, `ReturnNeverThrows`, `RefusalLeavesARunner`, `DownloadedOnlyGrows`, refinement of `SegmentClaims`, and that `LedgerInv` is an invariant |
| `status_file` (265 386) | 2 slots, 2 segments, 1 per request, stops and crashes, fair | `FileNeverOverclaims`, `CompleteMeansAllData`, `SaveCoversFile`, `CompletionSaved` |
| `uploads` (9 720) | an upload and a saver of a package, an upload of another one, 2 deletions, 2 slots, 2 parts, files that fail to open, fair | `WholeWhileLocked`, `OneDeletionRuns`, `UnregisteredIsGone`, `UploadLimit`, `SlotsBalanced`, refinement of `GuardedResource`, `DeletionEndsUnlessLost` |
| `manager` (1 213 744) | 1 package, 2 segments, a seeder and a peer with one segment, 2 slots, saves may fail | `SlotLimit`, `SlotsWorkOnLocalPackages`, `StoppedGetsNoSlot` |
| `manager_queue` (21 700) | 1 package of 1 segment, which may be fetched again, 1 seeder, 1 slot, saves succeed, fair | `SomethingWillCall`, `DeletedNotQueued`, `GivesUpForAReason`, `HeadLeavesQueue` |
| `updater` (178 762) | 1 peer, 2 packages, 2 objects, 1 poll under way, fair | `CountersExact`, `CountersConserved`, `NewsAreAskedFor` |
| `peers` (140 590) | 2 peers, 3 threads, a list of both peers, fair | `PublishedIsEnabled`, `EnabledIsPolled`, `EndsOrDeadlocks` |
| `cluster` (200 526) | 1 peer, 2 callbacks, 2 rounds, 1 change, clock to 2 | `NoPlanLost`, `PeersAreProtected` |
| `cluster_overdue` (violated) | as `cluster`, fair | the second finding of section 4 |
| `registry` (8 282 243) | 2 packages, 3 tasks, 1 crash, symmetric, with deadlock | `RegistryMatchesDisk`, `StrayFolderForAReason`, `RestartKeepsPackages` |
| `streams` (649 537) | packages of 2 to 5 bytes, segments of 2, two to a data file, 2 slots, 2 segments per request, symmetric | `CreatedInPlace`, `HashesOfSegments`, `OnlyVerifiedBytes`, `SuccessIsOnDisk`, `CompleteIsValid` |
| `streams_exact` (violated) | as `streams` | the first finding of section 4 |

**Bounds, and why they are enough.** The ledger's interesting cases are a short last segment, a last
byte with unused bits, a walk that wraps, and two slots of which one completes the package: three
segments, two to a byte, have all of them, and the proofs cover every size. Two members of the
file written around one return are enough for a torn copy. Two upload slots are the fewest of which
one is ever granted; a choke and a grant then compete. In the manager, `|Slots| -
MaximumDownloadSlots` bounds the tasks that have left `downloadSlots` and not ended (1), and
`MaxRetries` the retry timers told apart: at the bound the count stands for any greater number, as a
timer may or may not leave it there. One slot beyond the first tells whether the limit holds. The
runs of the manager have one package, as the next one is looked at when the head has left only; the
theorems of section 5 are about queues of any number, and two packages in `manager_queue` were checked
for its invariants over 513 052 states. In the updater peers share nothing but the
packages of interest, so one peer is enough; `MaxObjects = 2` objects are the fewest with which an
answer can meet an object that is not its own (a peer is not enabled again beyond that), and with
`MaxPolls = 2` overlapping polls the safety properties were checked over 11 582 470 states. In
`peers` a cycle of locks has two threads, and a third one is there to change what they wait for. In
`cluster` two callbacks and two rounds overlap in pairs, and the clock passes both the age at which a
peer is not due and the time a failing one is protected. In `registry` three tasks are a creation, a
fetch and a deletion of one package; one crash meets whatever they left, and the proofs hold for any
number of crashes. In `streams`
sizes 2 to 5 have an exact multiple of a segment and of a data file, a short last segment, a
second data file and one with a single segment.

**Deadlock** is checked in `registry`. Elsewhere the program may come to rest: everything downloaded,
deleted or stopped, no upload or request to come, or a bound on objects or the clock reached. The
deadlocks of `peers` are known, see below.

**Fairness.** A thread that runs inside a lock runs on (weak); a monitor is eventually granted to a
thread that competes for it again and again (strong, `SF` on the steps that enter one, and in
`peers` and `uploads` on a thread's steps as a whole); timers fire; transfers end because
requests have timeouts. In `cluster_overdue` callbacks run and messages end
(`WF`); nothing makes the clock advance, nor anything change. That some of the requests a node repeats for ever are
answered (`SF` on `DownloadSucceeds` and on polls) is an assumption about the network, without which a
download need not end. In `manager_queue` saves succeed. In `uploads` nobody is obliged to start using
or deleting a package.

**What TLC cannot say here.** `HeadLeavesQueue` is about the head only: the queue is strictly first
come, first served, and a package no peer can provide keeps the ones behind it waiting.
`EndsOrDeadlocks` excepts the deadlocks named below, which are reachable: it says that no other cycle
of locks is. `SlotsBalanced` and `DeletionEndsUnlessLost` name the uploads that lose their slot or their
token, and the properties of the registry the operations that ended half way: they say that nothing else
has that effect.

## 4. Findings and observations

`streams_exact`: a package whose size is a multiple of the segment size gets the hash of
an empty part on top of its segments' (`CreatePackageDataStreamController.cs:134`), and validating
it right after its creation fails ("Hashes file provided invalid count of segments that does not match
with sequence."). Its segments are transferred all the same (`HashesOfSegments`, `SuccessIsOnDisk`).

`cluster_overdue`: an update passes over every peer whose last attempt is older than the maximum time
(`PeersCluster.cs:202`), where the comment above the condition has "maximum time to update expired" and
`NetworkSettings.cs:42` "How often peer will be contacted [...] if nothing has changed". Only
a success or failure outside the updates, or a message of the peer's own, brings such a peer back; after
a long quiet time changes are not announced. With the opposite comparison in both halves of `Due`
the property holds on the same instance (89 791 states).

Observations the models made, for which there is no run because no property holds to be checked, or
because a property names them as its exception:

- *Status file.* A crash between the truncation and the writing loses the file, and a restart
  leaves the package out (`Restart` with `file = Torn`). The ledger is serialised outside its
  lock, counter before bitmap: after a crash the counter may be behind the bitmap, and such a
  download can not end, against the "worst scenario" of `PackageDownloadManager.cs:482`.
- *Completion.* `StopDownloadPackage` does nothing for a package that has left the queue: if the user
  stops it while its last segments are in flight, its completion is not saved
  (`PackageDownloadManager.cs:198`, `:481`). `CompletionSaved` leaves that out. A failed save
  of a completed package leaves it at the head of the queue with nothing to download
  (`GivesUpForAReason` and `SomethingWillCall` do not hold with `SavesMayFail`).
- *Timers.* Every call of `TryScheduleNextDownload` clears `isNextTryScheduled` before it is looked
  at, so retry timers pile up, against "already scheduled, exit" (`:266`).
- *Fetch.* A request for a discovered package that has become local leaves its id in
  `packageDataDownloads` for good (`:104`); after a deletion it is refused until a restart.
- *Updater.* An answer applied after its peer was dropped leaves a status that the peer's next
  object does not count: the peer is not polled any more (`PackageStatusUpdater.cs:417`).
  `RemoveKnownPackage` of a peer that was disabled meanwhile puts it back among the polled.
  `Update` stores a detail that failed its validation.
- *Uploads.* The counter is compared after it was decremented, so one slot fewer than configured is
  used and a choke under way chokes others (`PeersCluster.cs:132`); a package marked between look-up
  and `TryLock` keeps the slot for good (`:141`); a `Close` that throws keeps slot and token
  (`PackageDataStream.cs:217`). `SlotsBalanced` counts both.
- *Cluster.* The first half of the query's condition covers the second, so the version a peer is marked
  with by an answer, which is not the one that was sent (`PeersCluster.cs:282`), decides nothing.
- *Locks.* `PeersChanged` is raised with `peersLock` held when a peer is enabled again by `UpdatePeers`,
  against "after lock and processing notify" (`PeerRegistry.cs:126`). It and an invalid detail
  (`PackageStatusUpdater.cs:429`) take a status's lock inside another one, the opposite order of
  a status that changes by itself: both deadlocks are reachable (`NestedDeadlock`).
- *Folders.* A crash or a throw while a package is registered, created or deleted leaves a folder
  the registry does not know, and every later fetch of that package fails ("Package already
  exists in local repository."). A crash while data files are allocated may leave a folder that a
  restart loads as a package without them.
- *Creation and fetch.* A creation moves its folder in without `packagesLock`. If that falls between the
  look for the directory and its creation in a fetch of the same package (`LocalPackageManager.cs:269`,
  `:274`), the fetch writes its status, hashes and metadata over those of the creation and ends in the
  allocator's "File already exists"; the creation is then registered, with a status file that
  says nothing is downloaded. If one of these writes fails, the package has no hashes or metadata
  on disk and is not loaded by the next start.
- *Streams.* When `streamValidate.Close` throws, `streamWrite` is not closed and its file stays open
  (`PackageDownloadManager.cs:553`). What it wrote is verified data all the same.

## 5. Proofs

Eight modules. What is proved of behaviours is proved by an inductive invariant that TLC checked on an
instance first; where the invariant is part of the story a reader of the model needs, it is defined in
the model's module, else in the proof module. The theorems hold for every value of the constants under
the assumptions the modules name.

**Every safety invariant and every action property that a passing run checks is a theorem**, and so are
the two refinements. Liveness stays with TLC, see the end of the section.

`DownloadStatusFileProofs` (`LedgerAssumption`, `NullAssumption`, `FileAssumption`) is about the ledger
and its file. Of the ledger, `CoreInv` is the part that survives a restart: one slot is inside a return
(`LockInv`), its claim shrinks segment by segment, and of what it holds exactly the segment its loop is
at has its bit (`HeldInv`); the reservation is the bytes of all that is held; the counter is never
ahead of the bitmap and lacks the one segment between two stores (`TrailInv`); no return throws.
Without restarts the counter is exact (`CountInv`) and the bitmap null only when complete
(`NullInv`): together `LedgerInv`, and from it `TypeOK`, `ReturnNeverThrows`, `NoSegmentTwice`,
`QuiescentLedgerBalanced`, `RefusalLeavesARunner`, `DownloadedOnlyGrows` and the refinement of
`SegmentClaims`. A file whose counter is behind its bitmap, which the torn copy of section 4 leaves,
breaks `CountInv` after a restart, hence the split. Of the file, `FileInv` adds to `CoreInv`
that data is on disk before its bit is set (`DataFirst`), and that what a save has copied stands for
data that was on disk, the copied counter not ahead of the copied bitmap (`CopyTrails`). It gives
`FileNeverOverclaims`, `CompleteMeansAllData`, and that `NoSegmentTwice` and `ReturnNeverThrows` hold
through crashes and restarts too (`RestartsKeepClaims`). `CoverInv` orders file, copy and ledger: what
one has the next has, as the ledger only grows while it is copied, and a restart makes it what the file
says; hence `SaveCoversFile`. Lemmas on `Bytes` (adding or removing a
segment, disjoint unions) carry the arithmetic.

`UploadsProofs` (`ThreadAssumption`, `UploadsAssumption`) proves `Spec => []LocksInv` of `PackageLocks`,
hence `WholeWhileLocked`, `UnlockNeverThrows`, `OneDeletionRuns`, `UnregisteredIsGone`, and the
refinement of `GuardedResource`. The strengthening says which control locations own which
lock, token or continuation (`OwnerInv`), that the completion is set exactly when the package is
marked and its last token is back, and one call got past the mark (`MarkInv`), and how far the
folder is (`FolderInv`). Then every behaviour of the uploads is one of `PackageLocks`
(`UpSpec => Spec`), which carries over all of this, and `UploadLimit` and `SlotsBalanced`
follow from `SlotsInv`: free, granted, choking and lost slots make up the configured number
together in every state.

`PackageDownloadManagerProofs` (`ManagerAssumption`) proves `Spec => []ManagerInv`, hence `SlotLimit`,
`SlotsWorkOnLocalPackages`, `DeletedNotQueued` and the action property `StoppedGetsNoSlot`.
`QueueInv` is the strengthening: packages are queued once and are in the registry, and the
loop goes over peers for the head of the queue, which cannot leave while the monitor is held.
`LeftInv` counts the tasks that have left `downloadSlots`, so that there is a name for a
new slot. With `~SavesMayFail`, without which they do not hold, it also proves `SomethingWillCall` and
`GivesUpForAReason`: `WakeInv` adds that a package in the queue is complete only while the slot
that will take it out is at work, and that the retry flag is clear inside the loop.

`PackageStatusUpdaterProofs` (`UpdaterAssumption`) proves `CountersConserved` and `CountersExact` from
`UpdaterInv`: a peer's object is the last that was made (`PeerOK`), statuses are of packages of
interest and have objects the peer had (`StatusOK`), and so have polls (`PollOK`); the totals of
all objects sum up to the number of statuses, the first object, while it is the peer's, counts its seeds,
and objects not made yet count nothing (`CountOK`). Why only the sum is kept: an answer that is late
counts in the object its poll was sent for.

`PackageDataStreamProofs` (`SequenceAssumption`, `StreamAssumption`) begins with the arithmetic: segments
tile the package and the last is never empty (`SegmentsTile`), where part arithmetic looks for a
segment is its position (`SegmentPosition`), and no part leaves its data file (`PartInDataFile`).
`CreateInv` gives the data files and the hashes as functions of the creator's position, for writes of
any length; when it has closed they are the archive cut into data files and into segments. Hence
`CreatedInPlace`, `HashesOfSegments`, and `ValidUnlessExact`: a package just created is valid exactly
when its size is no multiple of a segment's, which is the extent of the finding. `StreamInv` adds the
downloads: nothing but bytes of the archive gets to disk (`DiskInv`), and the parts that `streamWrite`
has taken, up to the part `streamValidate` is at, are on disk (`SoundInv`). Hence
`OnlyVerifiedBytes`, `SuccessIsOnDisk` and `CompleteIsValid`.

`PeerRegistryProofs` (`RegistryAssumption`) proves `PublishedIsEnabled` and `EnabledIsPolled` from
`PeersInv`: a thread past the change of a status holds its lock and knows the flag (`CallInv`); the
published list differs from the flags only where a thread has yet to publish (`ListInv`), the
polled peers only where one has yet to notify (`PolledInv`).

`PeersClusterProofs` (`ClusterAssumption`) proves `NoPlanLost` from `PlanInv` (a callback in progress has
not ended), and `PeersAreProtected` from `StatusInv` (the first failure counted is later than
the last success).

`PackageRegistryProofs` (`RegistryAssumption`) proves `RegistryMatchesDisk`, `StrayFolderForAReason` and
`RestartKeepsPackages` from `RegistryInv`: who holds `packagesLock` (`LockInv`), which
operations exclude each other on a package (`PairInv`) and what each has done (`WorkInv`), why a folder is
there or not (`FolderInv`), and which files are in it, or why not (`DataInv`, `ContentInv`). A creation's
folder may turn up between the steps of a fetch: what the fetch relies on has the creation that is yet to
register as its exception, and what that creation relies on has the files the fetch is writing.

*Induction.* Sums over objects, sizes of the parts of a request and the bytes a series of writes leaves
are recursive functions. The library's induction theorems take an operator, which the provers here
cannot instantiate; `NatSet` says the same of a set: one that has 0 and the successor of all it has is
`Nat`, from the least element of what it lacks. What a recursive function returns is proved with it.

*Only model-checked:* the liveness properties `CompletionSaved`, `DeletionEndsUnlessLost`,
`HeadLeavesQueue`, `NewsAreAskedFor` and `EndsOrDeadlocks`, as fairness and `ENABLED` are out of the
prover's reach. `CreatedIsValid` and `OverdueIsContacted` are refuted (`ValidUnlessExact` says when the
former fails).
Mixed forms are not theorems either: that the manager's abstraction of the ledger is
what `PackageDownloadInfo` does is argued in section 2, not proved.

## 6. Not modelled

- `ValidateRequestedParts`, `GetPackageStatusResponse`, `ExtractPackage`: they change no state; what the
  status answer may say in the middle of a return is a listed hazard.
- Intervals, fast updates and download statistics of the updater: only delays depend on them.
- The lists of long-running tasks and of packages under verification: only the user interface
  shows them.
- `PackageArchive`, messages, serializers, hashes, HTTP client, UDP discovery,
  application start, formatting and measuring helpers, web assets: sequential conversions,
  input and output, wiring, or third-party code.
- A failure to delete the folder is in `PackageLocks` and `PackageRegistry`, not in
  `PackageDownloadManager`; the tokens and the callers' races for the mark are in `PackageLocks`,
  not in `PackageRegistry`.

## 7. What is left

1. Proofs across components: that the manager's steps on `have` and on its slots' segments are steps of
   `SegmentClaims`, one per package, which would join `ImplementsSegmentClaims` to the manager; and the
   same for its tokens and `GuardedResource`.
2. The updater with `PeerRegistry`'s locks in one module, to see its counters under the real
   order of notifications, when instances of that size can be checked.
3. The verification task of `WebFacade` together with deletions.
