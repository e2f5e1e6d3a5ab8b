------------------------- MODULE PackageStatusUpdater -------------------------
(***************************************************************************)
(* The status updater: which peers know the packages of interest, what     *)
(* each of them has, and which peers are worth a poll.  That is decided by *)
(* two counters of a PeerOverallStatus object: packages of interest the    *)
(* peer knows, and those it is a seeder of.                                *)
(*                                                                         *)
(* A poll keeps the object it was sent for, and is applied to it, whatever *)
(* happened since: the peer may have been disabled, which drops its        *)
(* object, and enabled again, which makes another one, while the statuses  *)
(* of a package are found by the peer.                                     *)
(*                                                                         *)
(* Intervals and postponements only delay a poll, so when one is sent is   *)
(* left open.  A change of a peer's IsEnabled and the listeners' part in   *)
(* it are one step, as the lock of the peer's status is held throughout.   *)
(***************************************************************************)
EXTENDS Integers, FiniteSets

CONSTANTS
    Packages, Peers,
    MaxObjects,     \* bound: PeerOverallStatus objects per peer
    MaxPolls        \* bound: polls of one peer under way

ASSUME UpdaterAssumption ==
    /\ IsFiniteSet(Packages)
    /\ {MaxObjects, MaxPolls} \subseteq Nat \ {0}

Objects == 1..MaxObjects
PollIds == 1..MaxPolls

VARIABLES
    registered,     \* peers the registry has
    enabled,        \* those of them that are enabled
    known,          \* known[q][p]: PeerInfo.KnownPackages: "no", or whether it
                    \* said to be a seeder: "part", "all"
    changed,        \* peers whose KnownPackageChanged is to be raised
    interested,     \* the keys of packageStates
    peers,          \* peers[q]: the object in the dictionary of peers, 0 if none
    made,           \* made[q]: how many objects q had
    total,          \* total[q][o]: InterestedForPackagesTotalCount
    seeders,        \* seeders[q][o]: InterestedForPackagesSeederCount
    status,         \* status[q][p]: StatusDetail of the PackagePeerStatus of q for
                    \* p: "unknown", "part", "all"; "none" without such a status
    owner,          \* owner[q][p]: the object in that PackagePeerStatus
    poll,           \* poll[q][i]: object, packages asked for, stage
    syncLock        \* the poll whose answer is being applied, or NoPoll

registry == <<registered, enabled, known, changed>>
counters == <<total, seeders>>
statuses == <<status, owner>>
vars     == <<registry, interested, peers, made, counters, statuses, poll, syncLock>>

NoPoll == <<>>
Idle   == [object |-> 0, asked |-> {}, stage |-> "idle"]

Init ==
    /\ registered = {} /\ enabled = {} /\ changed = {}
    /\ known = [q \in Peers |-> [p \in Packages |-> "no"]]
    /\ interested = {}
    /\ peers = [q \in Peers |-> 0] /\ made = [q \in Peers |-> 0]
    /\ total = [q \in Peers |-> [o \in Objects |-> 0]]
    /\ seeders = [q \in Peers |-> [o \in Objects |-> 0]]
    /\ status = [q \in Peers |-> [p \in Packages |-> "none"]]
    /\ owner = [q \in Peers |-> [p \in Packages |-> 0]]
    /\ poll = [q \in Peers |-> [i \in PollIds |-> Idle]]
    /\ syncLock = NoPoll

\* The packages q has a status for, and is a seeder of.
Entries(q) == {p \in Packages : status[q][p] # "none"}
Seeds(q)   == {p \in Packages : status[q][p] = "all"}

-----------------------------------------------------------------------------
(* UpdatePeers, inside syncLock. *)

\* The status AddPeer makes of what a peer announced.
Announced(q, p) == IF known[q][p] = "all" THEN "all" ELSE "unknown"

\* A peer that was added or whose packages changed: it gets an object if it has
\* none, and a status for the packages it knows, no others.  One that has a
\* status already is left alone.
PeerAdded(q) ==
    LET o       == IF peers[q] = 0 THEN made[q] + 1 ELSE peers[q]
        added   == {p \in interested : known[q][p] # "no" /\ status[q][p] = "none"}
        removed == {p \in interested : known[q][p] = "no" /\ status[q][p] # "none"}
    IN /\ peers[q] # 0 \/ made[q] < MaxObjects
       /\ peers' = [peers EXCEPT ![q] = o]
       /\ made' = IF peers[q] = 0 THEN [made EXCEPT ![q] = o] ELSE made
       /\ status' = [status EXCEPT ![q] =
                       [p \in Packages |-> IF p \in added THEN Announced(q, p)
                                           ELSE IF p \in removed THEN "none" ELSE @[p]]]
       /\ owner' = [owner EXCEPT ![q] =
                       [p \in Packages |-> IF p \in added THEN o
                                           ELSE IF p \in removed THEN 0 ELSE @[p]]]
       /\ total' = [total EXCEPT ![q][o] = @ + Cardinality(added) - Cardinality(removed)]
       /\ seeders' = [seeders EXCEPT ![q][o] =
                       @ + Cardinality({p \in added : known[q][p] = "all"})
                         - Cardinality(removed \intersect Seeds(q))]

\* A peer that was removed: nothing if it has no object.
PeerRemoved(q) ==
    /\ peers' = [peers EXCEPT ![q] = 0]
    /\ IF peers[q] = 0 THEN UNCHANGED <<counters, statuses>>
       ELSE /\ status' = [status EXCEPT ![q] = [p \in Packages |-> "none"]]
            /\ owner' = [owner EXCEPT ![q] = [p \in Packages |-> 0]]
            /\ total' = [total EXCEPT ![q][peers[q]] = @ - Cardinality(Entries(q))]
            /\ seeders' = [seeders EXCEPT ![q][peers[q]] = @ - Cardinality(Seeds(q))]
    /\ UNCHANGED made

-----------------------------------------------------------------------------
(* The registry's side. *)

\* UpdatePeers of the registry finds a new peer.
Discover(q) ==
    /\ syncLock = NoPoll
    /\ q \notin registered
    /\ registered' = registered \union {q} /\ enabled' = enabled \union {q}
    /\ PeerAdded(q)
    /\ UNCHANGED <<known, changed, interested, poll, syncLock>>

\* A failure that reaches the limits, of whatever was asked of the peer.
Disable(q) ==
    /\ syncLock = NoPoll
    /\ q \in enabled
    /\ enabled' = enabled \ {q}
    /\ PeerRemoved(q)
    /\ UNCHANGED <<registered, known, changed, interested, poll, syncLock>>

\* A success, or a report of another peer.
Reenable(q) ==
    /\ syncLock = NoPoll
    /\ q \in registered \ enabled
    /\ enabled' = enabled \union {q}
    /\ PeerAdded(q)
    /\ UNCHANGED <<registered, known, changed, interested, poll, syncLock>>

\* The peer's announcement, which has enabled it: it counts only when the
\* packages are others than those known.
ReplaceKnownPackages(q) ==
    /\ q \in enabled \ changed
    /\ \E packages \in [Packages -> {"no", "part", "all"}] :
         /\ \E p \in Packages : (packages[p] = "no") # (known[q][p] = "no")
         /\ known' = [known EXCEPT ![q] = packages]
    /\ changed' = changed \union {q}
    /\ UNCHANGED <<registered, enabled, interested, peers, made, counters, statuses,
                   poll, syncLock>>

\* A peer answered a slot, or a fetch of hashes, that it lacks the package:
\* also when it has been disabled meanwhile.
RemoveKnownPackage(q, p) ==
    /\ q \in registered \ changed
    /\ known[q][p] # "no"
    /\ known' = [known EXCEPT ![q][p] = "no"]
    /\ changed' = changed \union {q}
    /\ UNCHANGED <<registered, enabled, interested, peers, made, counters, statuses,
                   poll, syncLock>>

KnownPackageChanged(q) ==
    /\ syncLock = NoPoll
    /\ q \in changed
    /\ changed' = changed \ {q}
    /\ PeerAdded(q)
    /\ UNCHANGED <<registered, enabled, known, interested, poll, syncLock>>

-----------------------------------------------------------------------------
(* The manager's side. *)

InterestedInPackage(p) ==
    LET adds(q) == peers[q] # 0 /\ known[q][p] # "no"
    IN /\ syncLock = NoPoll
       /\ p \notin interested
       /\ interested' = interested \union {p}
       /\ status' = [q \in Peers |->
                       IF adds(q) THEN [status[q] EXCEPT ![p] = Announced(q, p)] ELSE status[q]]
       /\ owner' = [q \in Peers |->
                       IF adds(q) THEN [owner[q] EXCEPT ![p] = peers[q]] ELSE owner[q]]
       /\ total' = [q \in Peers |->
                       IF adds(q) THEN [total[q] EXCEPT ![peers[q]] = @ + 1] ELSE total[q]]
       /\ seeders' = [q \in Peers |->
                       IF adds(q) /\ known[q][p] = "all"
                       THEN [seeders[q] EXCEPT ![peers[q]] = @ + 1] ELSE seeders[q]]
       /\ UNCHANGED <<registry, peers, made, poll, syncLock>>

\* RemoveAllPeers counts down in the objects the statuses have.
NotInterestedInPackage(p) ==
    /\ syncLock = NoPoll
    /\ p \in interested
    /\ interested' = interested \ {p}
    /\ status' = [q \in Peers |-> [status[q] EXCEPT ![p] = "none"]]
    /\ owner' = [q \in Peers |-> [owner[q] EXCEPT ![p] = 0]]
    /\ total' = [q \in Peers |->
                   IF status[q][p] # "none"
                   THEN [total[q] EXCEPT ![owner[q][p]] = @ - 1] ELSE total[q]]
    /\ seeders' = [q \in Peers |->
                     IF status[q][p] = "all"
                     THEN [seeders[q] EXCEPT ![owner[q][p]] = @ - 1] ELSE seeders[q]]
    /\ UNCHANGED <<registry, peers, made, poll, syncLock>>

-----------------------------------------------------------------------------
(* Polls. *)

\* Mutant: off by one.
DoUpdateStatusOfTwo(q) ==
    /\ peers[q] # 0
    /\ total[q][peers[q]] > 1
    /\ seeders[q][peers[q]] # total[q][peers[q]]

\* This peer knows none of the interesting packages, or is a seeder of all.
DoUpdateStatus(q) ==
    /\ peers[q] # 0
    /\ total[q][peers[q]] > 0
    /\ seeders[q][peers[q]] # total[q][peers[q]]

\* StatusUpdateInternal, for one of the peers it polls.
SendPoll(q) ==
    /\ syncLock = NoPoll
    /\ interested # {}
    /\ DoUpdateStatus(q)
    /\ \E i \in PollIds :
         /\ poll[q][i] = Idle
         /\ \A j \in 1..(i - 1) : poll[q][j] # Idle
         /\ poll' = [poll EXCEPT ![q][i] =
                       [object |-> peers[q], asked |-> interested, stage |-> "sent"]]
    /\ UNCHANGED <<registry, interested, peers, made, counters, statuses, syncLock>>

\* FetchClientStatusAsync without an answer; nothing is applied.
PollFails(q, i) ==
    /\ syncLock = NoPoll
    /\ poll[q][i].stage = "sent"
    /\ poll' = [poll EXCEPT ![q][i] = Idle]
    /\ \/ UNCHANGED <<enabled, peers, made, counters, statuses>>
       \/ q \in enabled /\ enabled' = enabled \ {q} /\ PeerRemoved(q)
    /\ UNCHANGED <<registered, known, changed, interested, syncLock>>

\* An answer enables the peer before it is applied.
PollAnswered(q, i) ==
    /\ syncLock = NoPoll
    /\ poll[q][i].stage = "sent"
    /\ poll' = [poll EXCEPT ![q][i].stage = "answered"]
    /\ enabled' = enabled \union {q}
    /\ IF q \in enabled THEN UNCHANGED <<peers, made, counters, statuses>> ELSE PeerAdded(q)
    /\ UNCHANGED <<registered, known, changed, interested, syncLock>>

ApplyClientStatus(q, i) ==
    /\ syncLock = NoPoll
    /\ poll[q][i].stage = "answered"
    /\ syncLock' = <<q, i>>
    /\ UNCHANGED <<registry, interested, peers, made, counters, statuses, poll>>

\* The answer about one package has been looked at.
Applied(q, i, p) == poll' = [poll EXCEPT ![q][i].asked = @ \ {p}]

Applying(q, i, p) == syncLock = <<q, i>> /\ p \in poll[q][i].asked

\* Nobody is interested in the package any more.
ApplySkip(q, i, p) ==
    /\ Applying(q, i, p)
    /\ p \notin interested
    /\ Applied(q, i, p)
    /\ UNCHANGED <<registry, interested, peers, made, counters, statuses, syncLock>>

\* Mutant: only the status goes.
ApplyNotFoundForgets(q, i, p) ==
    /\ Applying(q, i, p)
    /\ p \in interested
    /\ status' = [status EXCEPT ![q][p] = "none"]
    /\ owner' = [owner EXCEPT ![q][p] = 0]
    /\ Applied(q, i, p)
    /\ UNCHANGED <<registry, interested, peers, made, counters, syncLock>>

\* The peer lacks the package: RemovePeer.
ApplyNotFound(q, i, p) ==
    /\ Applying(q, i, p)
    /\ p \in interested
    /\ IF status[q][p] = "none" THEN UNCHANGED <<counters, statuses>>
       ELSE /\ status' = [status EXCEPT ![q][p] = "none"]
            /\ owner' = [owner EXCEPT ![q][p] = 0]
            /\ total' = [total EXCEPT ![q][poll[q][i].object] = @ - 1]
            /\ seeders' = [seeders EXCEPT ![q][poll[q][i].object] =
                             IF status[q][p] = "all" THEN @ - 1 ELSE @]
    /\ Applied(q, i, p)
    /\ UNCHANGED <<registry, interested, peers, made, syncLock>>

\* Mutant: what the peer was before is not looked at.
SeederDeltaUp(q, p, detail) == IF detail = "all" THEN 1 ELSE 0

\* How a detail that replaces what was known changes the number of seeders.
SeederDelta(q, p, detail) ==
    (IF detail = "all" THEN 1 ELSE 0) - (IF status[q][p] = "all" THEN 1 ELSE 0)

\* Update, which adds a status the peer has not.  A detail that fails its
\* validation is stored like any other.
Update(q, i, p) ==
    /\ Applying(q, i, p)
    /\ p \in interested
    /\ LET o == poll[q][i].object
       IN \E detail \in {"part", "all"} :
            /\ status' = [status EXCEPT ![q][p] = detail]
            /\ seeders' = [seeders EXCEPT ![q][o] = @ + SeederDelta(q, p, detail)]
            /\ IF status[q][p] # "none" THEN UNCHANGED <<total, owner>>
               ELSE /\ total' = [total EXCEPT ![q][o] = @ + 1]
                    /\ owner' = [owner EXCEPT ![q][p] = o]
    /\ Applied(q, i, p)
    /\ UNCHANGED <<registry, interested, peers, made, syncLock>>

\* Update with an invalid detail that disables the peer: UpdatePeers runs inside
\* it and removes all its statuses, the one that is then written included.  (A
\* peer that is enabled is in the dictionary.)
UpdateDisables(q, i, p) ==
    /\ Applying(q, i, p)
    /\ p \in interested
    /\ q \in enabled
    /\ enabled' = enabled \ {q}
    /\ peers' = [peers EXCEPT ![q] = 0]
    /\ status' = [status EXCEPT ![q] = [r \in Packages |-> "none"]]
    /\ owner' = [owner EXCEPT ![q] = [r \in Packages |-> 0]]
    /\ LET o     == poll[q][i].object
           added == {p} \ Entries(q)
       IN /\ total' = [total EXCEPT ![q] =
                         [x \in Objects |->
                            @[x] + (IF x = o THEN Cardinality(added) ELSE 0)
                                 - (IF x = peers[q] THEN Cardinality(Entries(q) \union added)
                                    ELSE 0)]]
          /\ \E detail \in {"part", "all"} :
               seeders' = [seeders EXCEPT ![q] =
                             [x \in Objects |->
                                @[x] - (IF x = peers[q] THEN Cardinality(Seeds(q)) ELSE 0)
                                     + (IF x = o THEN SeederDelta(q, p, detail) ELSE 0)]]
    /\ Applied(q, i, p)
    /\ UNCHANGED <<registered, known, changed, interested, made, syncLock>>

EndApply(q, i) ==
    /\ syncLock = <<q, i>>
    /\ poll[q][i].asked = {}
    /\ poll' = [poll EXCEPT ![q][i] = Idle]
    /\ syncLock' = NoPoll
    /\ UNCHANGED <<registry, interested, peers, made, counters, statuses>>

-----------------------------------------------------------------------------

Answer(q, i, p) ==
    \/ ApplySkip(q, i, p) \/ ApplyNotFound(q, i, p)
    \/ Update(q, i, p) \/ UpdateDisables(q, i, p)

PollStep(q, i) ==
    \/ PollFails(q, i) \/ PollAnswered(q, i) \/ ApplyClientStatus(q, i)
    \/ EndApply(q, i) \/ \E p \in Packages : Answer(q, i, p)

PeerStep(q) ==
    \/ Discover(q) \/ Disable(q) \/ Reenable(q)
    \/ ReplaceKnownPackages(q) \/ KnownPackageChanged(q)
    \/ \E p \in Packages : RemoveKnownPackage(q, p)
    \/ SendPoll(q)

Next ==
    \/ \E p \in Packages : InterestedInPackage(p) \/ NotInterestedInPackage(p)
    \/ \E q \in Peers : PeerStep(q) \/ \E i \in PollIds : PollStep(q, i)

Spec == Init /\ [][Next]_vars

\* The timer is armed after each round, so peers that stay due are polled; a poll
\* comes to its end, by an answer or a timeout.
FairSpec ==
    /\ Spec
    /\ \A q \in Peers :
        /\ SF_vars(SendPoll(q))
        /\ \A i \in PollIds :
            /\ SF_vars(PollFails(q, i) \/ PollAnswered(q, i))
            /\ SF_vars(ApplyClientStatus(q, i))
            /\ WF_vars(EndApply(q, i) \/ \E p \in Packages : Answer(q, i, p))

-----------------------------------------------------------------------------
(* Correctness. *)

\* "How many packages (in which we're interested) are known to this peer", and
\* "for how many is this peer seeder": as long as a peer keeps its first object,
\* its counters say exactly that, in whatever order announcements, starts, stops
\* and late answers come.  What is polled depends on nothing else.
CountersExact ==
    \A q \in Peers : (peers[q] # 0 /\ made[q] = 1) =>
        /\ total[q][peers[q]] = Cardinality(Entries(q))
        /\ seeders[q][peers[q]] = Cardinality(Seeds(q))

\* Over all objects a peer ever had, as many packages are counted as the peer
\* has statuses for: what a late answer counts in the wrong object is missing,
\* or one too many, in another.
CountersConserved ==
    \A q \in Peers :
        LET sum[o \in 0..MaxObjects] == IF o = 0 THEN 0 ELSE sum[o - 1] + total[q][o]
        IN sum[MaxObjects] = Cardinality(Entries(q))

\* A peer that keeps its object and may get something new of a package is asked
\* about it, or turns out to lack it, or to have all of it.
NewsAreAskedFor ==
    \A q \in Peers, p \in Packages :
        (made[q] = 1 /\ status[q][p] \in {"unknown", "part"}) ~>
            \/ status[q][p] \in {"none", "all"}
            \/ \E i \in PollIds : p \in poll[q][i].asked
            \/ peers[q] = 0 \/ made[q] # 1
=============================================================================
