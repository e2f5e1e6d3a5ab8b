------------------------ MODULE PackageDownloadManager ------------------------
(***************************************************************************)
(* The download manager: the queue of packages to download, the slots that *)
(* download segments of the package at its head, and everything that makes *)
(* it look for work again: a slot that ended, new status of peers, a timer *)
(* of 2 seconds, a package that enters or leaves the queue.                *)
(*                                                                         *)
(* The manager's lock is held from a call of TryScheduleNextDownload to    *)
(* the end of its loop over peers; slots, the status updater and deletions *)
(* go on meanwhile.  The ledger is the set of segments it has (its own     *)
(* steps are in PackageDownloadInfo), a package's tokens are those of its  *)
(* slots (PackageLocks has the others, and the deletion of the folder,     *)
(* which succeeds here), and the status updater is what it answers: which  *)
(* peers told what they have, and which are postponed.                     *)
(***************************************************************************)
EXTENDS Integers, Sequences, FiniteSets, SequencesExt

CONSTANTS
    Packages, Peers, Segments,
    Offers,                 \* Offers[p][q]: the segments of p that peer q has
    Discovered,             \* packages the user may find among the discovered ones
    Slots,                  \* names of PackageDownloadSlot instances; as many tasks
                            \* may have left downloadSlots and not ended as there
                            \* are names more than MaximumDownloadSlots (a bound)
    MaximumDownloadSlots,
    SegmentsPerRequest,
    SavesMayFail,           \* writing a status file may fail with an I/O error
    MaxRetries,             \* bound: retry timers told apart
    Null

Stages == {"downloading", "returned", "stop", "unlock", "release", "remove", "reset"}

\* What slot[s] may be besides Null: a slot, or a task that has ended and whose
\* continuation has not run.
Ended       == [stage |-> "ended"]
SlotRecords == {Ended} \union [package : Packages, peer : Peers, segments : SUBSET Segments,
                               stage : Stages, ok : BOOLEAN]

ASSUME ManagerAssumption ==
    /\ Offers \in [Packages -> [Peers -> SUBSET Segments]]
    /\ Discovered \subseteq Packages
    /\ IsFiniteSet(Slots) /\ MaximumDownloadSlots \in 1..(Cardinality(Slots) - 1)
    /\ {SegmentsPerRequest, MaxRetries} \subseteq Nat \ {0}
    /\ SavesMayFail \in BOOLEAN
    /\ Null \notin [package : Packages, tmpPeers : SUBSET Peers]
    /\ Null \notin SlotRecords

VARIABLES
    local,              \* packages in the registry
    have,               \* have[p]: segments of p that are downloaded
    deleting,           \* deleting[p]: "no", "notify", "await" (DeletePackageAsync)
    downloads,          \* the queue
    slot,               \* slot[s]: one of SlotRecords, or Null
    known,              \* known[p]: peers whose status for p is known
    postponed,          \* pairs <<package, peer>> that are postponed
    postponedPeers,     \* peers that are postponed for all packages
    newData,            \* NewDataAvailable is to be raised
    scheduling,         \* TryScheduleNextDownload's package and tmpPeers, or Null
    isNextTryScheduled,
    retries,            \* retry timers that have not fired
    packageDataDownloads,
    fetching,           \* fetching[p]: "no", "hashes", "start", "finally"
    asking              \* discovered packages the user has asked for

updater  == <<known, postponed, postponedPeers>>
lookout  == <<scheduling, isNextTryScheduled>>
fetch    == <<packageDataDownloads, fetching, asking>>
ledger   == <<local, have, deleting>>
vars     == <<ledger, downloads, slot, updater, newData, lookout, retries, fetch>>

Queue       == ToSet(downloads)
Tasks       == {s \in Slots : slot[s] # Null}
Busy        == {s \in Tasks : slot[s].stage \notin {"reset", "ended"}}   \* downloadSlots
Complete(p) == have[p] = Segments
Marked(p)   == deleting[p] # "no"
Knowing(p)  == {q \in Peers : Offers[p][q] # {}}
Seeders(p)  == {q \in Peers : Offers[p][q] = Segments}

InProgress(p) == UNION {slot[s].segments : s \in {t \in Busy : slot[t].package = p}}

\* Mutant: a slot returns its token when the segments have come.
TokensEarly(p) ==
    {s \in Busy : slot[s].package = p /\ slot[s].stage = "downloading"}

\* Slots that have not returned their token of p.
Tokens(p) ==
    {s \in Busy : slot[s].package = p /\ slot[s].stage \notin {"release", "remove"}}

LockFree == scheduling = Null

Init ==
    /\ local \in {Packages, Packages \ Discovered}
    /\ have = [p \in Packages |-> {}]
    /\ deleting = [p \in Packages |-> "no"]
    /\ downloads = <<>>
    /\ slot = [s \in Slots |-> Null]
    /\ known = [p \in Packages |-> {}]
    /\ postponed = {} /\ postponedPeers = {} /\ newData = FALSE
    /\ scheduling = Null /\ isNextTryScheduled = FALSE
    /\ retries = 0
    /\ packageDataDownloads = {} /\ asking = {}
    /\ fetching = [p \in Packages |-> "no"]

-----------------------------------------------------------------------------
(* TryScheduleNextDownload. *)

\* GetClientListForPackage.
ClientList(p) ==
    {q \in known[p] \intersect Knowing(p) :
        <<p, q>> \notin postponed /\ q \notin postponedPeers}

\* Where a call starts its loop, if it does.
LoopEntry ==
    IF downloads = <<>> \/ Cardinality(Busy) >= MaximumDownloadSlots THEN Null
    ELSE [package |-> Head(downloads), tmpPeers |-> ClientList(Head(downloads))]

\* The call: the last conjunct of the actions that make it.
TryScheduleNextDownload ==
    /\ isNextTryScheduled' = FALSE
    /\ scheduling' = LoopEntry'

\* Mutant: one slot too many.
LoopingOverLimit ==
    /\ scheduling # Null
    /\ Cardinality(Busy) <= MaximumDownloadSlots
    /\ scheduling.tmpPeers # {}

Looping ==
    /\ scheduling # Null
    /\ Cardinality(Busy) < MaximumDownloadSlots
    /\ scheduling.tmpPeers # {}

\* Marked for deletion, or no more to download for now: no use to go on.
GiveUp ==
    /\ Looping
    /\ \/ Marked(scheduling.package)
       \/ have[scheduling.package] \union InProgress(scheduling.package) = Segments
    /\ scheduling' = Null
    /\ UNCHANGED <<ledger, downloads, slot, updater, newData, isNextTryScheduled,
                   retries, fetch>>

\* Mutant: the mark is not looked at, a token is taken anyway.
TryStartMarked(q) ==
    /\ Looping
    /\ q \in scheduling.tmpPeers
    /\ LET p        == scheduling.package
           eligible == Offers[p][q] \ (have[p] \union InProgress(p))
           count    == IF Cardinality(eligible) < SegmentsPerRequest
                       THEN Cardinality(eligible) ELSE SegmentsPerRequest
       IN /\ have[p] \union InProgress(p) # Segments
          /\ IF q \in known[p] /\ eligible # {}
             THEN /\ \E segments \in {S \in SUBSET eligible : Cardinality(S) = count} :
                       slot' = [slot EXCEPT ![CHOOSE s \in Slots : slot[s] = Null] =
                                  [package |-> p, peer |-> q, segments |-> segments,
                                   stage |-> "downloading", ok |-> FALSE]]
                  /\ UNCHANGED postponed
             ELSE postponed' = postponed \union {<<p, q>>} /\ UNCHANGED slot
    /\ scheduling' = [scheduling EXCEPT !.tmpPeers = @ \ {q}]
    /\ UNCHANGED <<ledger, downloads, known, postponedPeers, newData,
                   isNextTryScheduled, retries, fetch>>

\* TryStart for peer q: the slot claims segments q has and starts, or the peer
\* is postponed for this package.  TryLock is its linearization point: a mark that
\* falls between it and downloadSlots.Add finds the token out, and the deletion
\* waits for the slot as if it had started before.
TryStart(q) ==
    /\ Looping
    /\ q \in scheduling.tmpPeers
    /\ LET p        == scheduling.package
           eligible == Offers[p][q] \ (have[p] \union InProgress(p))
           count    == IF Cardinality(eligible) < SegmentsPerRequest
                       THEN Cardinality(eligible) ELSE SegmentsPerRequest
       IN /\ ~Marked(p)
          /\ have[p] \union InProgress(p) # Segments
          /\ IF q \in known[p] /\ eligible # {}
             THEN /\ \E segments \in {S \in SUBSET eligible : Cardinality(S) = count} :
                       slot' = [slot EXCEPT ![CHOOSE s \in Slots : slot[s] = Null] =
                                  [package |-> p, peer |-> q, segments |-> segments,
                                   stage |-> "downloading", ok |-> FALSE]]
                  /\ UNCHANGED postponed
             ELSE postponed' = postponed \union {<<p, q>>} /\ UNCHANGED slot
    /\ scheduling' = [scheduling EXCEPT !.tmpPeers = @ \ {q}]
    /\ UNCHANGED <<ledger, downloads, known, postponedPeers, newData,
                   isNextTryScheduled, retries, fetch>>

\* Mutant: without a peer nothing is scheduled.
EndScheduleQuietly ==
    /\ scheduling # Null /\ ~Looping
    /\ scheduling' = Null
    /\ UNCHANGED <<ledger, downloads, slot, updater, newData, isNextTryScheduled,
                   retries, fetch>>

\* After the loop: when the peers ran out, a timer will call again.
EndSchedule ==
    /\ scheduling # Null /\ ~Looping
    /\ scheduling' = Null
    /\ IF isNextTryScheduled \/ Cardinality(Busy) >= MaximumDownloadSlots
       THEN UNCHANGED <<isNextTryScheduled, retries>>
       ELSE /\ isNextTryScheduled' = TRUE
            /\ retries' = IF retries = MaxRetries THEN MaxRetries ELSE retries + 1
    /\ UNCHANGED <<ledger, downloads, slot, updater, newData, fetch>>

\* A timer fires; MaxRetries of them stand for any greater number too.
Retry ==
    /\ LockFree
    /\ retries > 0
    /\ retries' \in {retries - 1} \union (IF retries = MaxRetries THEN {retries} ELSE {})
    /\ UNCHANGED <<ledger, downloads, slot, updater, newData, fetch>>
    /\ TryScheduleNextDownload

\* The continuation of a slot's task.
Continue(s) ==
    /\ LockFree
    /\ slot[s] = Ended
    /\ slot' = [slot EXCEPT ![s] = Null]
    /\ UNCHANGED <<ledger, downloads, updater, newData, retries, fetch>>
    /\ TryScheduleNextDownload

-----------------------------------------------------------------------------
(* The status updater, as far as the manager sees it. *)

\* Peers are polled while they may have something new about queued packages.
DoUpdateStatus(q) ==
    /\ q \notin postponedPeers
    /\ \E p \in Queue : q \in Knowing(p) /\ ~(q \in known[p] /\ q \in Seeders(p))

\* A poll of peer q is answered (FetchClientStatusAsync, ApplyClientStatus): about
\* packages that were queued when it was sent and still are, and also when the
\* peer was postponed meanwhile.
ApplyClientStatus(q) ==
    \E told \in SUBSET {p \in Queue : q \in Knowing(p)} \ {{}} :
        /\ known' = [p \in Packages |-> IF p \in told THEN known[p] \union {q} ELSE known[p]]
        /\ postponed' = postponed \ (told \X {q})
        /\ postponedPeers' = postponedPeers \ {q}
        /\ newData' = TRUE
        /\ UNCHANGED <<ledger, downloads, slot, lookout, retries, fetch>>

NewDataAvailable ==
    /\ LockFree
    /\ newData
    /\ newData' = FALSE
    /\ UNCHANGED <<ledger, downloads, slot, updater, retries, fetch>>
    /\ TryScheduleNextDownload

\* 15 seconds pass since a peer was postponed for a package, or for all of them.
PackageExpires(p, q) ==
    /\ <<p, q>> \in postponed
    /\ postponed' = postponed \ {<<p, q>>}
    /\ UNCHANGED <<ledger, downloads, slot, known, postponedPeers, newData, lookout,
                   retries, fetch>>

PeerExpires(q) ==
    /\ q \in postponedPeers
    /\ postponedPeers' = postponedPeers \ {q}
    /\ UNCHANGED <<ledger, downloads, slot, known, postponed, newData, lookout,
                   retries, fetch>>

-----------------------------------------------------------------------------
(* Packages enter and leave the queue. *)

\* StartDownloadPackage, with InterestedInPackage: peers known as seeders count
\* as told, and peers that know the package are no longer postponed.
StartDownloadPackage(p) ==
    IF p \in Queue \/ Marked(p) \/ Complete(p)
    THEN UNCHANGED <<downloads, updater, lookout>>
    ELSE /\ downloads' = Append(downloads, p)
         /\ \E K \in SUBSET Seeders(p) : known' = [known EXCEPT ![p] = K]
         /\ postponedPeers' = postponedPeers \ Knowing(p)
         /\ UNCHANGED <<postponed, slot>>
         /\ TryScheduleNextDownload

\* Mutant: the queue keeps the package.
StopDownloadPackageQueued(p) ==
    IF p \notin Queue
    THEN UNCHANGED <<downloads, updater, lookout>>
    ELSE /\ known' = [known EXCEPT ![p] = {}]
         /\ postponed' = {pair \in postponed : pair[1] # p}
         /\ UNCHANGED <<downloads, postponedPeers>>
         /\ TryScheduleNextDownload

\* StopDownloadPackage, with NotInterestedInPackage.
StopDownloadPackage(p) ==
    IF p \notin Queue
    THEN UNCHANGED <<downloads, updater, lookout>>
    ELSE /\ \E i \in DOMAIN downloads :
            downloads[i] = p /\ downloads' = RemoveAt(downloads, i)
         /\ known' = [known EXCEPT ![p] = {}]
         /\ postponed' = {pair \in postponed : pair[1] # p}
         /\ UNCHANGED postponedPeers
         /\ TryScheduleNextDownload

\* The user, or RestoreUnfinishedDownloads.
Start(p) ==
    /\ LockFree
    /\ p \in local
    /\ UNCHANGED <<ledger, slot, newData, retries, fetch>>
    /\ StartDownloadPackage(p)

Stop(p) ==
    /\ LockFree
    /\ UNCHANGED <<ledger, slot, newData, retries, fetch>>
    /\ StopDownloadPackage(p)

-----------------------------------------------------------------------------
(* A slot. *)

SetStage(s, stage) == slot' = [slot EXCEPT ![s].stage = stage]

\* The segments have come and are returned as downloaded.
DownloadSucceeds(s) ==
    /\ s \in Busy /\ slot[s].stage = "downloading"
    /\ have' = [have EXCEPT ![slot[s].package] = @ \union slot[s].segments]
    /\ slot' = [slot EXCEPT ![s].segments = {}, ![s].stage = "returned",
                                ![s].ok = TRUE]
    /\ UNCHANGED <<local, deleting, downloads, updater, newData, lookout, retries, fetch>>

\* Choked, not found, corrupted, cut short, unreachable: PostponePeer.
DownloadFails(s) ==
    /\ s \in Busy /\ slot[s].stage = "downloading"
    /\ SetStage(s, "unlock")
    /\ postponedPeers' = postponedPeers \union {slot[s].peer}
    /\ UNCHANGED <<ledger, downloads, known, postponed, newData, lookout, retries, fetch>>

\* A status file cannot be written; nothing is written of a marked package.
SaveFails(p) == SavesMayFail /\ ~Marked(p)

\* Mutant: IsDownloaded is asked before the segments are returned.
CheckDownloadedEarly(s) ==
    /\ s \in Busy /\ slot[s].stage = "returned"
    /\ SetStage(s, "unlock")
    /\ UNCHANGED <<ledger, downloads, updater, newData, lookout, retries, fetch>>

\* IsDownloaded decides whether to stop the package or to save its status, where
\* an exception skips PostponePeerReset.
CheckDownloaded(s) ==
    /\ s \in Busy /\ slot[s].stage = "returned"
    /\ IF Complete(slot[s].package) THEN SetStage(s, "stop")
       ELSE \/ SetStage(s, "unlock")
            \/ /\ SaveFails(slot[s].package)
               /\ slot' = [slot EXCEPT ![s].stage = "unlock", ![s].ok = FALSE]
    /\ UNCHANGED <<ledger, downloads, updater, newData, lookout, retries, fetch>>

\* An exception in the save leaves the package in the queue.
StopCompleted(s) ==
    /\ s \in Busy /\ slot[s].stage = "stop"
    /\ LockFree
    /\ UNCHANGED <<ledger, newData, retries, fetch>>
    /\ \/ SetStage(s, "unlock") /\ StopDownloadPackage(slot[s].package)
       \/ /\ slot[s].package \in Queue /\ SaveFails(slot[s].package)
          /\ slot' = [slot EXCEPT ![s].stage = "unlock", ![s].ok = FALSE]
          /\ UNCHANGED <<downloads, updater, lookout>>

\* ReleaseLocks: the token, then the segments of a failed download.
Unlock(s) ==
    /\ s \in Busy /\ slot[s].stage = "unlock"
    /\ SetStage(s, IF slot[s].segments = {} THEN "remove" ELSE "release")
    /\ UNCHANGED <<ledger, downloads, updater, newData, lookout, retries, fetch>>

ReleaseSegments(s) ==
    /\ s \in Busy /\ slot[s].stage = "release"
    /\ slot' = [slot EXCEPT ![s].segments = {}, ![s].stage = "remove"]
    /\ UNCHANGED <<ledger, downloads, updater, newData, lookout, retries, fetch>>

\* The slot leaves downloadSlots.  The task of a failed one has ended with that.
RemoveSlot(s) ==
    /\ s \in Busy /\ slot[s].stage = "remove"
    /\ LockFree
    /\ Cardinality(Tasks \ Busy) < Cardinality(Slots) - MaximumDownloadSlots
    /\ slot' = [slot EXCEPT ![s] = IF @.ok THEN [@ EXCEPT !.stage = "reset"] ELSE Ended]
    /\ UNCHANGED <<ledger, downloads, updater, newData, lookout, retries, fetch>>

\* A peer that succeeded is no longer postponed.
PostponePeerReset(s) ==
    /\ s \in Tasks /\ slot[s].stage = "reset"
    /\ slot' = [slot EXCEPT ![s] = Ended]
    /\ postponed' = postponed \ {<<slot[s].package, slot[s].peer>>}
    /\ postponedPeers' = postponedPeers \ {slot[s].peer}
    /\ UNCHANGED <<ledger, downloads, known, newData, lookout, retries, fetch>>

-----------------------------------------------------------------------------
(* DeletePackageAsync, whose own steps are in PackageLocks. *)

Delete(p) ==
    /\ p \in local /\ ~Marked(p)
    /\ deleting' = [deleting EXCEPT ![p] = "notify"]
    /\ UNCHANGED <<local, have, downloads, slot, updater, newData, lookout, retries, fetch>>

LocalPackageDeleting(p) ==
    /\ deleting[p] = "notify"
    /\ LockFree
    /\ deleting' = [deleting EXCEPT ![p] = "await"]
    /\ UNCHANGED <<local, have, slot, newData, retries, fetch>>
    /\ StopDownloadPackage(p)

\* The last token is back.  A package of the same hash that is downloaded later
\* is another object: slots still on their way out hold nothing of it.
EndDelete(p) ==
    /\ deleting[p] = "await"
    /\ Tokens(p) = {}
    /\ local' = local \ {p}
    /\ have' = [have EXCEPT ![p] = {}]
    /\ deleting' = [deleting EXCEPT ![p] = "no"]
    /\ slot' = [s \in Slots |-> IF s \in Busy /\ slot[s].package = p
                                THEN [slot[s] EXCEPT !.segments = {}] ELSE slot[s]]
    /\ UNCHANGED <<downloads, updater, newData, lookout, retries, fetch>>

-----------------------------------------------------------------------------
(* GetDiscoveredPackageAndStartDownloadPackage. *)

\* The user picks a package from the list of discovered ones.
Ask(p) ==
    /\ p \in Discovered \ (local \union asking)
    /\ asking' = asking \union {p}
    /\ UNCHANGED <<ledger, downloads, slot, updater, newData, lookout, retries,
                   packageDataDownloads, fetching>>

\* The call: refused when the package is being fetched or has become local.
GetDiscoveredPackage(p) ==
    /\ p \in asking
    /\ LockFree
    /\ asking' = asking \ {p}
    /\ packageDataDownloads' = packageDataDownloads \union {p}
    /\ fetching' = IF p \in packageDataDownloads \union local THEN fetching
                   ELSE [fetching EXCEPT ![p] = "hashes"]
    /\ UNCHANGED <<ledger, downloads, slot, updater, newData, lookout, retries>>

\* A peer sent the hashes and they are saved, or an exception ends the task.
SaveRemotePackage(p) ==
    /\ fetching[p] = "hashes"
    /\ \/ fetching' = [fetching EXCEPT ![p] = "start"] /\ local' = local \union {p}
       \/ fetching' = [fetching EXCEPT ![p] = "finally"] /\ UNCHANGED local
    /\ UNCHANGED <<have, deleting, downloads, slot, updater, newData, lookout,
                   retries, packageDataDownloads, asking>>

StartFetched(p) ==
    /\ fetching[p] = "start"
    /\ LockFree
    /\ fetching' = [fetching EXCEPT ![p] = "finally"]
    /\ UNCHANGED <<ledger, slot, newData, retries, packageDataDownloads, asking>>
    /\ IF p \in local THEN StartDownloadPackage(p)
       ELSE UNCHANGED <<downloads, updater, lookout>>

EndFetch(p) ==
    /\ fetching[p] = "finally"
    /\ LockFree
    /\ fetching' = [fetching EXCEPT ![p] = "no"]
    /\ packageDataDownloads' = packageDataDownloads \ {p}
    /\ UNCHANGED <<ledger, downloads, slot, updater, newData, lookout, retries, asking>>

-----------------------------------------------------------------------------

SlotStep(s) ==
    \/ DownloadSucceeds(s) \/ DownloadFails(s) \/ CheckDownloaded(s)
    \/ StopCompleted(s) \/ Unlock(s) \/ ReleaseSegments(s) \/ RemoveSlot(s)
    \/ PostponePeerReset(s) \/ Continue(s)

PackageStep(p) ==
    \/ Start(p) \/ Stop(p)
    \/ Delete(p) \/ LocalPackageDeleting(p) \/ EndDelete(p)
    \/ Ask(p) \/ GetDiscoveredPackage(p) \/ SaveRemotePackage(p)
    \/ StartFetched(p) \/ EndFetch(p)

Loop == GiveUp \/ EndSchedule \/ \E q \in Peers : TryStart(q)

Next ==
    \/ Loop \/ Retry \/ NewDataAvailable
    \/ \E q \in Peers : ApplyClientStatus(q) \/ PeerExpires(q)
    \/ \E p \in Packages, q \in Peers : PackageExpires(p, q)
    \/ \E s \in Slots : SlotStep(s)
    \/ \E p \in Packages : PackageStep(p)

Spec == Init /\ [][Next]_vars

\* Threads inside the manager's lock run on, and its monitor is granted to who
\* waits again and again; requests end; timers fire.  Of the network it is
\* assumed that peers answer some of the polls, and some of the requests for
\* segments, they are sent again and again.
FairSpec ==
    /\ Spec
    /\ WF_vars(Loop)
    /\ SF_vars(Retry) /\ SF_vars(NewDataAvailable)
    /\ \A q \in Peers :
        /\ WF_vars(PeerExpires(q))
        /\ SF_vars(DoUpdateStatus(q) /\ ApplyClientStatus(q))
        /\ \A p \in Packages : WF_vars(PackageExpires(p, q))
    /\ \A s \in Slots :
        /\ WF_vars(DownloadSucceeds(s) \/ DownloadFails(s))
        /\ SF_vars(DownloadSucceeds(s))
        /\ WF_vars(CheckDownloaded(s) \/ Unlock(s) \/ ReleaseSegments(s)
                   \/ PostponePeerReset(s))
        /\ SF_vars(StopCompleted(s) \/ RemoveSlot(s) \/ Continue(s))
    /\ \A p \in Packages :
        /\ SF_vars(LocalPackageDeleting(p))
        /\ WF_vars(EndDelete(p))

-----------------------------------------------------------------------------
(* Correctness. *)

\* "Maximum number of concurrent download tasks", however many calls of
\* TryScheduleNextDownload ended slots, timers and polls bring about.
SlotLimit == Cardinality(Busy) <= MaximumDownloadSlots

\* No wake-up is lost: whenever TryScheduleNextDownload returns with a package
\* left in the queue, something is under way that will call it again: "this
\* method will be called when slot is returned", "let's try again soon".
SomethingWillCall ==
    (LockFree /\ downloads # <<>>) =>
        \/ Tasks # {} \/ retries > 0 \/ newData
        \/ deleting[Head(downloads)] = "notify"

\* A package that is not local, or whose deletion waits for its last token, is
\* not in the queue, and it stays out although starts, retries and ended slots
\* go on: nothing brings a deleted package back.
DeletedNotQueued ==
    \A p \in Packages : (p \notin local \/ deleting[p] = "await") => p \notin Queue

\* A slot at work on a package has it in the registry, and no two slots
\* work on the same segment, nor on one that is there.
SlotsWorkOnLocalPackages ==
    /\ \A s \in Busy : slot[s].stage \notin {"release", "remove"} => slot[s].package \in local
    /\ \A s \in Busy : slot[s].segments \intersect have[slot[s].package] = {}
    /\ \A s, t \in Busy :
         (s # t /\ slot[s].package = slot[t].package) =>
            slot[s].segments \intersect slot[t].segments = {}

\* A package that has been stopped gets no new slot until it is started again:
\* also when the loop over its peers was under way.
StoppedGetsNoSlot ==
    [][\A s \in Slots : (slot[s] = Null /\ slot'[s] # Null) =>
          slot'[s].package \in Queue /\ ~Marked(slot'[s].package)]_vars

\* The package at the head of the queue leaves it: downloaded, stopped or
\* deleted, when peers have its segments between them, status files can be
\* written and transfers sometimes succeed.  (What is behind it is not looked at
\* until then.)
HeadLeavesQueue ==
    \A p \in Packages :
        (downloads # <<>> /\ Head(downloads) = p) ~>
            ~(downloads # <<>> /\ Head(downloads) = p)

\* "Package has been deleted or we're waiting for last part to finish download":
\* only then the loop gives a package up without anything to call it again.
GivesUpForAReason ==
    (Looping /\ have[scheduling.package] \union InProgress(scheduling.package) = Segments) =>
        \/ Marked(scheduling.package)
        \/ \E s \in Busy : slot[s].package = scheduling.package
=============================================================================
