--------------------- MODULE PackageDownloadManagerProofs ---------------------
(***************************************************************************)
(* Proofs about PackageDownloadManager for any packages, peers, segments   *)
(* and numbers of slots: the limit of slots, what slots work on, the       *)
(* queue against deletions, and that no wake-up is lost where status files *)
(* can be written.                                                         *)
(***************************************************************************)
EXTENDS PackageDownloadManager, FiniteSetTheorems, SequenceTheorems, TLAPS

-----------------------------------------------------------------------------
(* The inductive invariant. *)

TypeInv ==
    /\ local \subseteq Packages
    /\ have \in [Packages -> SUBSET Segments]
    /\ deleting \in [Packages -> {"no", "notify", "await"}]
    /\ downloads \in Seq(Packages)
    /\ slot \in [Slots -> SlotRecords \union {Null}]
    /\ retries \in Nat
    /\ scheduling # Null => scheduling \in [package : Packages, tmpPeers : SUBSET Peers]

NoDuplicates == \A i, j \in DOMAIN downloads : downloads[i] = downloads[j] => i = j

\* The queue: packages of the registry, once each, and not those whose deletion was
\* announced.  The loop goes over peers for its head, which cannot leave meanwhile.
QueueInv ==
    /\ NoDuplicates
    /\ \A p \in Queue : p \in local /\ deleting[p] # "await"
    /\ \A p \in Packages : Marked(p) => p \in local
    /\ scheduling # Null => downloads # <<>> /\ scheduling.package = Head(downloads)

\* Tasks that have left downloadSlots.
LeftInv == Cardinality(Tasks \ Busy) <= Cardinality(Slots) - MaximumDownloadSlots

ManagerInv ==
    /\ TypeInv /\ QueueInv /\ LeftInv
    /\ SlotLimit /\ SlotsWorkOnLocalPackages

-----------------------------------------------------------------------------
(* Lists. *)

LEMMA QueueAppend ==
    ASSUME NEW s \in Seq(Packages), NEW p \in Packages, p \notin ToSet(s),
           \A i, j \in DOMAIN s : s[i] = s[j] => i = j
    PROVE  /\ Append(s, p) \in Seq(Packages)
           /\ ToSet(Append(s, p)) = ToSet(s) \union {p}
           /\ \A i, j \in DOMAIN Append(s, p) : Append(s, p)[i] = Append(s, p)[j] => i = j
<1>1. /\ Append(s, p) \in Seq(Packages)
      /\ DOMAIN Append(s, p) = 1..(Len(s) + 1) /\ DOMAIN s = 1..Len(s)
      /\ \A i \in 1..Len(s) : Append(s, p)[i] = s[i]
      /\ Append(s, p)[Len(s) + 1] = p
      /\ Len(s) \in Nat
    OBVIOUS
<1> HIDE DEF ToSet
<1>2. ToSet(s) = {s[i] : i \in 1..Len(s)}
      /\ ToSet(Append(s, p)) = {Append(s, p)[i] : i \in 1..(Len(s) + 1)}
    BY DEF ToSet
<1>3. ToSet(Append(s, p)) = ToSet(s) \union {p}
    BY <1>2
<1>4. \A i \in 1..Len(s) : s[i] # p
    BY <1>2
<1>5. QED
    BY <1>3, <1>4

LEMMA QueueRemove ==
    ASSUME NEW s \in Seq(Packages), NEW k \in DOMAIN s,
           \A i, j \in DOMAIN s : s[i] = s[j] => i = j
    PROVE  /\ RemoveAt(s, k) \in Seq(Packages)
           /\ ToSet(RemoveAt(s, k)) = ToSet(s) \ {s[k]}
           /\ \A i, j \in DOMAIN RemoveAt(s, k) : RemoveAt(s, k)[i] = RemoveAt(s, k)[j] => i = j
<1> DEFINE a == SubSeq(s, 1, k - 1)
           b == SubSeq(s, k + 1, Len(s))
           r == a \o b
<1>1. /\ Len(s) \in Nat /\ k \in 1..Len(s) /\ DOMAIN s = 1..Len(s)
    OBVIOUS
<1>2. /\ r \in Seq(Packages) /\ Len(r) = Len(s) - 1 /\ DOMAIN r = 1..(Len(s) - 1)
      /\ \A i \in 1..(Len(s) - 1) : r[i] = IF i < k THEN s[i] ELSE s[i + 1]
    <2>1. /\ a \in Seq(Packages) /\ Len(a) = k - 1
          /\ \A i \in 1..(k - 1) : a[i] = s[i]
        OBVIOUS
    <2>2. /\ b \in Seq(Packages) /\ Len(b) = Len(s) - k
          /\ \A i \in 1..(Len(s) - k) : b[i] = s[i + k]
        OBVIOUS
    <2> HIDE DEF a, b
    <2>3. /\ r \in Seq(Packages) /\ Len(r) = Len(s) - 1
          /\ \A i \in 1..(Len(s) - 1) : r[i] = IF i < k THEN a[i] ELSE b[i - (k - 1)]
        <3>1. /\ r \in Seq(Packages) /\ Len(r) = Len(a) + Len(b)
              /\ \A i \in 1..(Len(a) + Len(b)) :
                    r[i] = IF i <= Len(a) THEN a[i] ELSE b[i - Len(a)]
            BY <2>1, <2>2, ConcatProperties, Zenon
        <3>2. QED
            BY <2>1, <2>2, <3>1
    <2>4. \A i \in 1..(Len(s) - 1) : i >= k => b[i - (k - 1)] = s[i + 1]
        <3>1. ASSUME NEW i \in 1..(Len(s) - 1), i >= k
              PROVE  b[i - (k - 1)] = s[i + 1]
            <4>1. i - (k - 1) \in 1..(Len(s) - k) /\ i - (k - 1) + k = i + 1
                BY <3>1
            <4>2. QED
                BY <2>2, <4>1
        <3>2. QED
            BY <3>1
    <2>5. DOMAIN r = 1..(Len(s) - 1)
        BY <2>3
    <2> HIDE DEF r
    <2>6. ASSUME NEW i \in 1..(Len(s) - 1)
          PROVE  r[i] = IF i < k THEN s[i] ELSE s[i + 1]
        BY <2>1, <2>3, <2>4
    <2>7. QED
        BY <2>3, <2>6
<1> HIDE DEF r
<1>3. \A i, j \in 1..(Len(s) - 1) : r[i] = r[j] => i = j
    <2>1. ASSUME NEW i \in 1..(Len(s) - 1)
          PROVE  /\ r[i] = s[IF i < k THEN i ELSE i + 1]
                 /\ (IF i < k THEN i ELSE i + 1) \in 1..Len(s)
        BY <1>2
    <2>2. ASSUME NEW i \in 1..(Len(s) - 1), NEW j \in 1..(Len(s) - 1), r[i] = r[j]
          PROVE  i = j
        <3>1. (IF i < k THEN i ELSE i + 1) = (IF j < k THEN j ELSE j + 1)
            BY <2>1, <2>2
        <3>2. QED
            BY <3>1
    <2>3. QED
        BY <2>2
<1>4. {r[i] : i \in 1..(Len(s) - 1)} = {s[i] : i \in 1..Len(s)} \ {s[k]}
    <2>1. ASSUME NEW i \in 1..(Len(s) - 1)
          PROVE  r[i] \in {s[j] : j \in 1..Len(s)} /\ r[i] # s[k]
        <3>1. CASE i < k
            BY <1>2, <3>1
        <3>2. CASE i >= k
            <4>1. i + 1 \in 1..Len(s) /\ i + 1 # k /\ r[i] = s[i + 1]
                BY <1>2, <3>2
            <4>2. QED
                BY <4>1
        <3>3. QED
            BY <3>1, <3>2
    <2>2. ASSUME NEW i \in 1..Len(s), s[i] # s[k]
          PROVE  s[i] \in {r[j] : j \in 1..(Len(s) - 1)}
        <3>1. CASE i < k
            <4>1. i \in 1..(Len(s) - 1) /\ r[i] = s[i]
                BY <1>2, <3>1
            <4>2. QED
                BY <4>1
        <3>2. CASE i > k
            <4>1. i - 1 \in 1..(Len(s) - 1) /\ r[i - 1] = s[i]
                BY <1>2, <3>2
            <4>2. QED
                BY <4>1
        <3>3. QED
            BY <2>2, <3>1, <3>2
    <2>3. QED
        BY <2>1, <2>2
<1>5. QED
    BY <1>1, <1>2, <1>3, <1>4 DEF ToSet, RemoveAt, r

-----------------------------------------------------------------------------
(* Calls. *)

LEMMA CallFacts ==
    ASSUME TryScheduleNextDownload, downloads' \in Seq(Packages)
    PROVE  /\ isNextTryScheduled' = FALSE
           /\ scheduling' # Null =>
                /\ scheduling' \in [package : Packages, tmpPeers : SUBSET Peers]
                /\ downloads' # <<>>
                /\ scheduling'.package = Head(downloads')
           /\ scheduling' = Null /\ downloads' # <<>> => Cardinality(Busy') >= MaximumDownloadSlots
<1> DEFINE L == ClientList(Head(downloads))'
           C == Cardinality(Busy)' >= MaximumDownloadSlots
           e == [package |-> Head(downloads'), tmpPeers |-> L]
<1>1. L \subseteq Peers
    BY DEF ClientList, Knowing
<1>2. /\ scheduling' = IF downloads' = <<>> \/ C THEN Null ELSE e
      /\ isNextTryScheduled' = FALSE
    BY Zenon DEF TryScheduleNextDownload, LoopEntry
<1> HIDE DEF L
<1>3. CASE downloads' = <<>> \/ C
    BY <1>2, <1>3
<1>4. CASE ~(downloads' = <<>> \/ C)
    <2>1. Head(downloads') \in Packages
        BY <1>4
    <2>2. e \in [package : Packages, tmpPeers : SUBSET Peers] /\ e.package = Head(downloads')
        BY <1>1, <2>1
    <2>3. e # Null
        BY <2>2, ManagerAssumption
    <2> HIDE DEF e, C
    <2>4. QED
        BY <1>2, <1>4, <2>2, <2>3
<1>5. QED
    BY <1>3, <1>4

LEMMA StopFacts ==
    ASSUME TypeInv, QueueInv, NEW p \in Packages, StopDownloadPackage(p)
    PROVE  /\ downloads' \in Seq(Packages)
           /\ NoDuplicates'
           /\ Queue' = Queue \ {p}
           /\ \/ UNCHANGED <<downloads, lookout>>
              \/ TryScheduleNextDownload
<1>1. CASE p \notin Queue
    BY <1>1 DEF StopDownloadPackage, TypeInv, QueueInv, NoDuplicates, Queue
<1>2. CASE p \in Queue
    <2>1. TryScheduleNextDownload
        BY <1>2, Zenon DEF StopDownloadPackage
    <2>2. PICK i \in DOMAIN downloads : downloads[i] = p /\ downloads' = RemoveAt(downloads, i)
        BY <1>2, Zenon DEF StopDownloadPackage
    <2>3. QED
        BY <2>1, <2>2, QueueRemove DEF TypeInv, QueueInv, NoDuplicates, Queue
<1>3. QED
    BY <1>1, <1>2

LEMMA StartFacts ==
    ASSUME TypeInv, QueueInv, NEW p \in Packages, StartDownloadPackage(p)
    PROVE  /\ downloads' \in Seq(Packages)
           /\ NoDuplicates'
           /\ \/ UNCHANGED <<downloads, lookout>>
              \/ ~Marked(p) /\ ~Complete(p) /\ Queue' = Queue \union {p} /\ TryScheduleNextDownload
<1>1. CASE p \in Queue \/ Marked(p) \/ Complete(p)
    BY <1>1 DEF StartDownloadPackage, TypeInv, QueueInv, NoDuplicates
<1>2. CASE ~(p \in Queue \/ Marked(p) \/ Complete(p))
    <2>1. TryScheduleNextDownload /\ downloads' = Append(downloads, p)
        BY <1>2, Zenon DEF StartDownloadPackage
    <2>2. QED
        BY <1>2, <2>1, QueueAppend DEF TypeInv, QueueInv, NoDuplicates, Queue
<1>3. QED
    BY <1>1, <1>2

\* What a call does to the loop it may begin, and to the queue.
LEMMA CallKeeps ==
    ASSUME TryScheduleNextDownload, downloads' \in Seq(Packages), NoDuplicates',
           slot' \in [Slots -> SlotRecords \union {Null}],
           retries' \in Nat, UNCHANGED <<local, have>>,
           deleting' \in [Packages -> {"no", "notify", "await"}],
           TypeInv,
           \A p \in Queue' : p \in local /\ deleting'[p] # "await",
           \A p \in Packages : deleting'[p] # "no" => p \in local
    PROVE  TypeInv' /\ QueueInv'
BY CallFacts DEF TypeInv, QueueInv, Marked

-----------------------------------------------------------------------------
(* Slots. *)

Work == [package : Packages, peer : Peers, segments : SUBSET Segments,
         stage : Stages, ok : BOOLEAN]

LEMMA BusyWorks ==
    ASSUME TypeInv, NEW s \in Busy
    PROVE  s \in Slots /\ slot[s] \in Work /\ slot[s].stage # "reset"
BY DEF TypeInv, Busy, Tasks, SlotRecords, Work, Ended

LEMMA WorkFields ==
    ASSUME NEW w \in Work, NEW stage \in Stages, NEW segments \in SUBSET Segments,
           NEW ok \in BOOLEAN
    PROVE  /\ [w EXCEPT !.stage = stage] \in Work
           /\ [w EXCEPT !.segments = segments] \in Work
           /\ [w EXCEPT !.ok = ok] \in Work
           /\ w \in SlotRecords
BY DEF Work, SlotRecords

LEMMA SlotChanges ==
    ASSUME TypeInv, NEW s \in Slots, NEW new \in SlotRecords,
           slot' = [slot EXCEPT ![s] = new]
    PROVE  /\ slot' \in [Slots -> SlotRecords \union {Null}]
           /\ slot'[s] = new
           /\ \A t \in Slots : t # s => slot'[t] = slot[t]
BY DEF TypeInv

LEMMA SlotsFinite ==
    /\ IsFiniteSet(Slots) /\ Cardinality(Slots) \in Nat
    /\ MaximumDownloadSlots \in Nat \ {0}
    /\ \A S \in SUBSET Slots : IsFiniteSet(S) /\ Cardinality(S) \in Nat
<1>1. /\ IsFiniteSet(Slots)
      /\ MaximumDownloadSlots \in 1..(Cardinality(Slots) - 1)
    BY ManagerAssumption
<1>2. Cardinality(Slots) \in Nat
    BY <1>1, FS_CardinalityType
<1>3. \A S \in SUBSET Slots : IsFiniteSet(S) /\ Cardinality(S) \in Nat
    BY <1>1, FS_Subset, FS_CardinalityType
<1>4. QED
    BY <1>1, <1>3

LEMMA FewerSlots ==
    ASSUME SlotLimit, LeftInv, Busy' \subseteq Busy, (Tasks \ Busy)' \subseteq Tasks \ Busy
    PROVE  SlotLimit' /\ LeftInv'
<1>1. /\ Busy \in SUBSET Slots /\ Tasks \ Busy \in SUBSET Slots
      /\ Busy' \in SUBSET Slots /\ (Tasks \ Busy)' \in SUBSET Slots
    BY DEF Busy, Tasks
<1>2. /\ Cardinality(Busy') <= Cardinality(Busy)
      /\ Cardinality((Tasks \ Busy)') <= Cardinality(Tasks \ Busy)
    BY <1>1, SlotsFinite, FS_Subset
<1>3. QED
    BY <1>1, <1>2, SlotsFinite DEF SlotLimit, LeftInv

\* There is a name for the slot that TryStart creates.
LEMMA FreeSlot ==
    ASSUME TypeInv, LeftInv, Looping
    PROVE  \E s \in Slots : slot[s] = Null
<1>1. SUFFICES ASSUME Tasks = Slots PROVE FALSE
    BY DEF Tasks
<1>2. /\ Busy \in SUBSET Slots /\ Tasks \ Busy \in SUBSET Slots
      /\ Slots = Busy \union (Tasks \ Busy) /\ Busy \intersect (Tasks \ Busy) = {}
    BY <1>1 DEF Busy
<1>3. /\ IsFiniteSet(Busy) /\ IsFiniteSet(Tasks \ Busy)
      /\ Cardinality(Busy) \in Nat /\ Cardinality(Tasks \ Busy) \in Nat
    BY <1>2, SlotsFinite
<1>4. Cardinality(Slots) = Cardinality(Busy) + Cardinality(Tasks \ Busy) - Cardinality({})
    BY <1>2, <1>3, FS_Union
<1>5. Cardinality({}) = 0
    BY FS_EmptySet
<1>6. QED
    BY <1>3, <1>4, SlotsFinite DEF Looping, LeftInv

\* A slot goes on, and holds no more than it did.
LEMMA SlotGoesOn ==
    ASSUME TypeInv, SlotsWorkOnLocalPackages, NEW s \in Busy, NEW new \in Work,
           slot' = [slot EXCEPT ![s] = new],
           new.package = slot[s].package,
           new.segments \subseteq slot[s].segments,
           slot[s].stage \in {"release", "remove"} => new.stage \in {"release", "remove", "reset"},
           UNCHANGED <<local, have>>
    PROVE  /\ slot' \in [Slots -> SlotRecords \union {Null}]
           /\ Busy' \subseteq Busy
           /\ SlotsWorkOnLocalPackages'
           /\ new.stage # "reset" => UNCHANGED <<Busy, Tasks>>
<1>1. new \in SlotRecords /\ s \in Slots
    BY BusyWorks DEF SlotRecords, Work
<1>2. /\ slot' \in [Slots -> SlotRecords \union {Null}]
      /\ slot'[s] = new
      /\ \A t \in Slots : t # s => slot'[t] = slot[t]
    BY <1>1, SlotChanges
<1>3. Busy' \subseteq Busy
    BY DEF Busy, Tasks
<1>4. SlotsWorkOnLocalPackages'
    <2>1. \A t \in Busy' : t \in Busy /\ t \in Slots
        BY <1>3, BusyWorks
    <2>2. \A t \in Busy' : /\ slot'[t].package = slot[t].package
                           /\ slot'[t].segments \subseteq slot[t].segments
        OBVIOUS
    <2>3. ASSUME NEW t \in Busy', slot'[t].stage \notin {"release", "remove"}
          PROVE  slot'[t].package \in local
        <3>1. slot'[t].stage # "reset"
            BY DEF Busy
        <3>2. slot[t].stage \notin {"release", "remove"}
            BY <2>3, <3>1
        <3>3. QED
            BY <2>1, <3>2 DEF SlotsWorkOnLocalPackages
    <2>4. QED
        BY <2>1, <2>3 DEF SlotsWorkOnLocalPackages
<1>5. new.stage # "reset" => UNCHANGED <<Busy, Tasks>>
    <2>1. new # Null /\ new.stage # "ended"
        BY <1>1, ManagerAssumption DEF Work, Stages
    <2>2. QED
        BY <2>1 DEF Busy, Tasks
<1>6. QED
    BY <1>2, <1>3, <1>4, <1>5

\* The steps that only change the stage of a slot, and perhaps its success.
LEMMA StageChanges ==
    ASSUME TypeInv, SlotsWorkOnLocalPackages, NEW s \in Busy, NEW stage \in Stages \ {"reset"},
           \/ slot' = [slot EXCEPT ![s].stage = stage]
           \/ slot' = [slot EXCEPT ![s].stage = stage, ![s].ok = FALSE],
           slot[s].stage \in {"release", "remove"} => stage \in {"release", "remove"},
           UNCHANGED <<local, have>>
    PROVE  /\ slot' \in [Slots -> SlotRecords \union {Null}]
           /\ SlotsWorkOnLocalPackages'
           /\ UNCHANGED <<Busy, Tasks>>
<1> DEFINE w == slot[s]
           a == [w EXCEPT !.stage = stage]
           b == [w EXCEPT !.stage = stage, !.ok = FALSE]
<1>1. w \in Work /\ s \in Slots
    BY BusyWorks
<1>2. /\ a \in Work /\ b \in Work
      /\ a.package = w.package /\ b.package = w.package
      /\ a.segments = w.segments /\ b.segments = w.segments
      /\ a.stage = stage /\ b.stage = stage
    BY <1>1 DEF Work
<1>3. \/ slot' = [slot EXCEPT ![s] = a]
      \/ slot' = [slot EXCEPT ![s] = b]
    OBVIOUS
<1> HIDE DEF a, b
<1>4. PICK new \in Work :
         /\ slot' = [slot EXCEPT ![s] = new]
         /\ new.package = w.package /\ new.segments = w.segments /\ new.stage = stage
    BY <1>2, <1>3
<1>5. QED
    BY <1>4, SlotGoesOn

-----------------------------------------------------------------------------
(* The loop. *)

LEMMA TryStartKeeps ==
    ASSUME ManagerInv, NEW q \in Peers, TryStart(q)
    PROVE  ManagerInv'
<1> DEFINE p        == scheduling.package
           eligible == Offers[p][q] \ (have[p] \union InProgress(p))
           new      == CHOOSE s \in Slots : slot[s] = Null
<1>1. /\ scheduling # Null /\ scheduling \in [package : Packages, tmpPeers : SUBSET Peers]
      /\ p \in Packages /\ p \in Queue /\ p \in local
    <2>1. scheduling # Null /\ scheduling \in [package : Packages, tmpPeers : SUBSET Peers]
        BY DEF TryStart, Looping, ManagerInv, TypeInv
    <2>2. p = Head(downloads) /\ downloads # <<>> /\ downloads \in Seq(Packages)
        BY <2>1 DEF ManagerInv, TypeInv, QueueInv
    <2>3. p \in Queue
        BY <2>2 DEF Queue, ToSet
    <2>4. QED
        BY <2>1, <2>3 DEF ManagerInv, QueueInv
<1>2. new \in Slots /\ slot[new] = Null
    BY FreeSlot DEF TryStart, ManagerInv
<1>3. \/ UNCHANGED slot
      \/ \E segments \in SUBSET eligible :
            slot' = [slot EXCEPT ![new] = [package |-> p, peer |-> q, segments |-> segments,
                                            stage |-> "downloading", ok |-> FALSE]]
    BY DEF TryStart
<1>4. /\ UNCHANGED <<ledger, downloads, retries>>
      /\ scheduling' = [scheduling EXCEPT !.tmpPeers = @ \ {q}]
    BY DEF TryStart
<1>5. eligible \subseteq Segments /\ eligible \intersect have[p] = {}
      /\ eligible \intersect InProgress(p) = {}
    BY <1>1, ManagerAssumption
<1> HIDE DEF new, eligible
<1>6. QueueInv' /\ scheduling' \in [package : Packages, tmpPeers : SUBSET Peers]
    <2>1. scheduling' \in [package : Packages, tmpPeers : SUBSET Peers] /\ scheduling'.package = p
        BY <1>1, <1>4
    <2>2. QED
        BY <1>1, <1>4 DEF ManagerInv, QueueInv, NoDuplicates, Queue, Marked, ledger
<1>7. CASE UNCHANGED slot
    <2>1. TypeInv'
        BY <1>4, <1>6, <1>7 DEF ManagerInv, TypeInv, ledger
    <2>2. UNCHANGED <<Busy, Tasks>> /\ SlotsWorkOnLocalPackages'
        BY <1>4, <1>7 DEF ManagerInv, Busy, Tasks, SlotsWorkOnLocalPackages, ledger
    <2>3. QED
        BY <1>6, <2>1, <2>2, FewerSlots DEF ManagerInv
<1>8. ASSUME NEW segments \in SUBSET eligible,
             slot' = [slot EXCEPT ![new] = [package |-> p, peer |-> q, segments |-> segments,
                                             stage |-> "downloading", ok |-> FALSE]]
      PROVE  ManagerInv'
    <2> DEFINE w == [package |-> p, peer |-> q, segments |-> segments,
                     stage |-> "downloading", ok |-> FALSE]
    <2>1. /\ w \in SlotRecords /\ w # Null /\ w.package = p /\ w.segments = segments
          /\ w.stage = "downloading"
        <3>1. w \in Work
            BY <1>1, <1>5 DEF Work, Stages
        <3>2. w.package = p /\ w.segments = segments /\ w.stage = "downloading"
            OBVIOUS
        <3> HIDE DEF w
        <3>3. w \in SlotRecords
            BY <3>1 DEF Work, SlotRecords
        <3>4. w # Null
            BY <3>3, ManagerAssumption
        <3>5. QED
            BY <3>2, <3>3, <3>4
    <2> HIDE DEF w
    <2>2. /\ slot' \in [Slots -> SlotRecords \union {Null}]
          /\ slot'[new] = w
          /\ \A t \in Slots : t # new => slot'[t] = slot[t]
        BY <1>2, <1>8, <2>1, SlotChanges DEF ManagerInv, w
    <2>3. Busy' = Busy \union {new} /\ (Tasks \ Busy)' \subseteq Tasks \ Busy /\ new \notin Busy
        BY <1>2, <2>1, <2>2 DEF Busy, Tasks
    <2>4. TypeInv'
        BY <1>4, <1>6, <2>2 DEF ManagerInv, TypeInv, ledger
    <2>5. SlotLimit'
        <3>1. IsFiniteSet(Busy) /\ Cardinality(Busy) \in Nat /\ Cardinality(Busy) < MaximumDownloadSlots
            BY SlotsFinite DEF Busy, Tasks, TryStart, Looping
        <3>2. Cardinality(Busy') = Cardinality(Busy) + 1
            BY <2>3, <3>1, FS_AddElement
        <3>3. QED
            BY <3>1, <3>2, SlotsFinite DEF SlotLimit
    <2>6. LeftInv'
        <3>1. Tasks \ Busy \in SUBSET Slots /\ (Tasks \ Busy)' \in SUBSET Slots
            BY DEF Tasks
        <3>2. Cardinality((Tasks \ Busy)') <= Cardinality(Tasks \ Busy)
            BY <2>3, <3>1, SlotsFinite, FS_Subset
        <3>3. QED
            BY <3>1, <3>2, SlotsFinite DEF ManagerInv, LeftInv
    <2>7. SlotsWorkOnLocalPackages'
        <3>1. \A t \in Busy : t # new /\ t \in Slots /\ slot'[t] = slot[t]
            BY <2>2, <2>3 DEF Busy, Tasks
        <3>2. \A t \in Busy : slot[t].package = p => slot[t].segments \intersect segments = {}
            BY <1>5 DEF InProgress
        <3>3. segments \intersect have[p] = {}
            BY <1>5
        <3>4. UNCHANGED <<local, have>>
            BY <1>4 DEF ledger
        <3>5. QED
            BY <1>1, <2>1, <2>2, <2>3, <3>1, <3>2, <3>3, <3>4 DEF ManagerInv,
               SlotsWorkOnLocalPackages
    <2>8. QED
        BY <1>6, <2>4, <2>5, <2>6, <2>7 DEF ManagerInv
<1>9. QED
    BY <1>3, <1>7, <1>8

LEMMA LoopEnds ==
    ASSUME ManagerInv, GiveUp \/ EndSchedule
    PROVE  ManagerInv'
<1>1. /\ scheduling' = Null /\ UNCHANGED <<ledger, downloads, slot>>
      /\ retries' \in Nat
    <2>1. retries' \in {retries, MaxRetries, retries + 1}
        BY Zenon DEF GiveUp, EndSchedule
    <2>2. QED
        BY DEF GiveUp, EndSchedule, ManagerInv, TypeInv
<1>2. TypeInv' /\ QueueInv'
    BY <1>1 DEF ManagerInv, TypeInv, QueueInv, NoDuplicates, Queue, Marked, ledger
<1>3. UNCHANGED <<Busy, Tasks>> /\ SlotsWorkOnLocalPackages'
    BY <1>1 DEF ManagerInv, Busy, Tasks, SlotsWorkOnLocalPackages, ledger
<1>4. QED
    BY <1>2, <1>3, FewerSlots DEF ManagerInv

\* A timer, an ended task or a poll calls again.
LEMMA CallsKeep ==
    ASSUME ManagerInv, Retry \/ NewDataAvailable \/ \E s \in Slots : Continue(s)
    PROVE  ManagerInv'
<1>1. CASE Retry
    <2>1. TypeInv' /\ QueueInv'
        BY <1>1, CallKeeps DEF Retry, ManagerInv, TypeInv, QueueInv, ledger, Marked,
           Queue, NoDuplicates
    <2>2. Busy' \subseteq Busy /\ (Tasks \ Busy)' \subseteq Tasks \ Busy
        BY <1>1 DEF Retry, Busy, Tasks
    <2>3. SlotsWorkOnLocalPackages'
        BY <1>1, <2>2 DEF Retry, ManagerInv, SlotsWorkOnLocalPackages, ledger
    <2>4. QED
        BY <2>1, <2>2, <2>3, FewerSlots DEF ManagerInv
<1>2. CASE NewDataAvailable
    <2>1. TypeInv' /\ QueueInv'
        BY <1>2, CallKeeps DEF NewDataAvailable, ManagerInv, TypeInv, QueueInv,
           ledger, Marked, Queue, NoDuplicates
    <2>2. Busy' \subseteq Busy /\ (Tasks \ Busy)' \subseteq Tasks \ Busy
        BY <1>2 DEF NewDataAvailable, Busy, Tasks
    <2>3. SlotsWorkOnLocalPackages'
        BY <1>2, <2>2 DEF NewDataAvailable, ManagerInv, SlotsWorkOnLocalPackages,
           ledger
    <2>4. QED
        BY <2>1, <2>2, <2>3, FewerSlots DEF ManagerInv
<1>3. ASSUME NEW s \in Slots, Continue(s)
      PROVE  ManagerInv'
    <2>1. TypeInv' /\ QueueInv'
        BY <1>3, CallKeeps DEF Continue, ManagerInv, TypeInv, QueueInv, ledger,
           Marked, Queue, NoDuplicates
    <2>2. Busy' \subseteq Busy /\ (Tasks \ Busy)' \subseteq Tasks \ Busy
        BY <1>3 DEF Continue, Busy, Tasks
    <2>3. SlotsWorkOnLocalPackages'
        BY <1>3 DEF Continue, ManagerInv, SlotsWorkOnLocalPackages, ledger, Busy,
           Tasks
    <2>4. QED
        BY <2>1, <2>2, <2>3, FewerSlots DEF ManagerInv
<1>4. QED
    BY <1>1, <1>2, <1>3

-----------------------------------------------------------------------------
(* Steps that leave the queue and the slots alone. *)

LEMMA UpdaterKeeps ==
    ASSUME ManagerInv, NEW q \in Peers,
           ApplyClientStatus(q) \/ PeerExpires(q) \/ \E p \in Packages : PackageExpires(p, q)
    PROVE  ManagerInv'
<1>1. UNCHANGED <<ledger, downloads, slot, scheduling, retries>>
    BY DEF ApplyClientStatus, PeerExpires, PackageExpires, lookout
<1>2. TypeInv' /\ QueueInv'
    BY <1>1 DEF ManagerInv, TypeInv, QueueInv, NoDuplicates, Queue, Marked, ledger
<1>3. UNCHANGED <<Busy, Tasks>> /\ SlotsWorkOnLocalPackages'
    BY <1>1 DEF ManagerInv, Busy, Tasks, SlotsWorkOnLocalPackages, ledger
<1>4. QED
    BY <1>2, <1>3, FewerSlots DEF ManagerInv

LEMMA FetchKeeps ==
    ASSUME ManagerInv, NEW p \in Packages,
           Ask(p) \/ GetDiscoveredPackage(p) \/ SaveRemotePackage(p) \/ EndFetch(p)
    PROVE  ManagerInv'
<1>1. /\ UNCHANGED <<have, deleting, downloads, slot, scheduling, retries>>
      /\ local' \in {local, local \union {p}}
    BY DEF Ask, GetDiscoveredPackage, SaveRemotePackage, EndFetch, ledger, lookout
<1>2. TypeInv' /\ QueueInv'
    BY <1>1 DEF ManagerInv, TypeInv, QueueInv, NoDuplicates, Queue, Marked
<1>3. UNCHANGED <<Busy, Tasks>> /\ SlotsWorkOnLocalPackages'
    BY <1>1 DEF ManagerInv, Busy, Tasks, SlotsWorkOnLocalPackages
<1>4. QED
    BY <1>2, <1>3, FewerSlots DEF ManagerInv

-----------------------------------------------------------------------------
(* The queue and deletions. *)

LEMMA QueueKeeps ==
    ASSUME ManagerInv, NEW p \in Packages,
           Start(p) \/ Stop(p) \/ LocalPackageDeleting(p) \/ StartFetched(p)
    PROVE  ManagerInv'
<1>1. UNCHANGED <<slot, local, have>>
    BY DEF Start, Stop, LocalPackageDeleting, StartFetched, ledger
<1>2. UNCHANGED <<Busy, Tasks>> /\ SlotsWorkOnLocalPackages'
    BY <1>1 DEF ManagerInv, Busy, Tasks, SlotsWorkOnLocalPackages
<1>3. CASE Start(p)
    <2>1. TypeInv' /\ QueueInv'
        BY <1>3, StartFacts, CallKeeps DEF Start, ManagerInv, TypeInv, QueueInv,
           ledger, lookout, Marked, Queue
    <2>2. QED
        BY <1>2, <2>1, FewerSlots DEF ManagerInv
<1>4. CASE Stop(p)
    <2>1. TypeInv' /\ QueueInv'
        BY <1>4, StopFacts, CallKeeps DEF Stop, ManagerInv, TypeInv, QueueInv, ledger,
           lookout, Marked
    <2>2. QED
        BY <1>2, <2>1, FewerSlots DEF ManagerInv
<1>5. CASE LocalPackageDeleting(p)
    <2>1. /\ UNCHANGED <<local, have, slot, retries>>
          /\ deleting' = [deleting EXCEPT ![p] = "await"] /\ deleting[p] = "notify"
          /\ downloads' \in Seq(Packages) /\ NoDuplicates' /\ Queue' = Queue \ {p}
          /\ UNCHANGED <<downloads, scheduling>> \/ TryScheduleNextDownload
        BY <1>5, StopFacts DEF LocalPackageDeleting, ManagerInv, lookout
    <2>2. /\ deleting' \in [Packages -> {"no", "notify", "await"}]
          /\ \A x \in Queue' : x \in local /\ deleting'[x] # "await"
          /\ \A x \in Packages : deleting'[x] # "no" => x \in local
        BY <2>1 DEF ManagerInv, TypeInv, QueueInv, Marked
    <2>3. TypeInv' /\ QueueInv'
        BY <2>1, CallKeeps DEF ManagerInv, TypeInv, QueueInv, Marked
    <2>4. QED
        BY <1>2, <2>3, FewerSlots DEF ManagerInv
<1>6. CASE StartFetched(p)
    <2>1. TypeInv' /\ QueueInv'
        BY <1>6, StartFacts, CallKeeps DEF StartFetched, ManagerInv, TypeInv,
           QueueInv, ledger, lookout, Marked, Queue, NoDuplicates
    <2>2. QED
        BY <1>2, <2>1, FewerSlots DEF ManagerInv
<1>7. QED
    BY <1>3, <1>4, <1>5, <1>6

LEMMA DeleteKeeps ==
    ASSUME ManagerInv, NEW p \in Packages, Delete(p)
    PROVE  ManagerInv'
<1>1. TypeInv' /\ QueueInv'
    BY DEF Delete, ManagerInv, TypeInv, QueueInv, NoDuplicates, Queue, Marked, lookout
<1>2. UNCHANGED <<Busy, Tasks>> /\ SlotsWorkOnLocalPackages'
    BY DEF Delete, ManagerInv, Busy, Tasks, SlotsWorkOnLocalPackages
<1>3. QED
    BY <1>1, <1>2, FewerSlots DEF ManagerInv

\* The package is gone, and with it what slots on their way out still held.
LEMMA EndDeleteKeeps ==
    ASSUME ManagerInv, NEW p \in Packages, EndDelete(p)
    PROVE  ManagerInv'
<1>1. /\ local' = local \ {p} /\ have' = [have EXCEPT ![p] = {}]
      /\ deleting' = [deleting EXCEPT ![p] = "no"] /\ deleting[p] = "await"
      /\ UNCHANGED <<downloads, scheduling, retries>>
    BY DEF EndDelete, lookout
<1>2. QueueInv'
    BY <1>1 DEF ManagerInv, TypeInv, QueueInv, NoDuplicates, Queue, Marked
<1>3. \A s \in Slots : /\ slot'[s] \in SlotRecords \union {Null}
                       /\ s \notin Busy => slot'[s] = slot[s]
                       /\ s \in Busy => /\ slot'[s] \in Work
                                        /\ slot'[s].package = slot[s].package
                                        /\ slot'[s].stage = slot[s].stage
                                        /\ slot'[s].segments =
                                             IF slot[s].package = p THEN {} ELSE slot[s].segments
    <2>1. ASSUME NEW s \in Busy
          PROVE  /\ slot[s] \in Work /\ [slot[s] EXCEPT !.segments = {}] \in SlotRecords
                 /\ [slot[s] EXCEPT !.segments = {}] \in Work
                 /\ [slot[s] EXCEPT !.segments = {}].package = slot[s].package
                 /\ [slot[s] EXCEPT !.segments = {}].stage = slot[s].stage
                 /\ [slot[s] EXCEPT !.segments = {}].segments = {}
        BY BusyWorks DEF ManagerInv, Work, SlotRecords
    <2>2. \A s \in Slots : slot'[s] = IF s \in Busy /\ slot[s].package = p
                                      THEN [slot[s] EXCEPT !.segments = {}] ELSE slot[s]
        BY DEF EndDelete
    <2>3. \A s \in Slots : slot[s] \in SlotRecords \union {Null}
        BY DEF ManagerInv, TypeInv
    <2>4. QED
        BY <2>1, <2>2, <2>3
<1>4. slot' \in [Slots -> SlotRecords \union {Null}]
    BY <1>3 DEF EndDelete
<1>5. TypeInv'
    BY <1>1, <1>4 DEF ManagerInv, TypeInv
<1>6. UNCHANGED <<Busy, Tasks>>
    <2>1. Work \subseteq SlotRecords
        BY DEF Work, SlotRecords
    <2>2. \A s \in Slots : s \in Tasks' <=> s \in Tasks
        BY <1>3, <2>1, ManagerAssumption DEF Tasks, Busy
    <2>3. \A s \in Slots : s \in Busy' <=> s \in Busy
        BY <1>3, <2>2 DEF Busy
    <2>4. QED
        BY <2>2, <2>3 DEF Busy, Tasks
<1>7. SlotsWorkOnLocalPackages'
    <2>1. \A s \in Busy : s \in Slots /\ slot[s] \in Work
        BY BusyWorks DEF ManagerInv
    <2>2. \A s \in Busy : slot[s].package = p => slot[s].stage \in {"release", "remove"}
        BY DEF EndDelete, Tokens
    <2>3. \A s \in Busy : slot[s].package \in Packages
        BY <2>1 DEF Work
    <2>4. \A x \in Packages : x # p => have'[x] = have[x]
        BY <1>1
    <2>5. QED
        BY <1>1, <1>3, <1>6, <2>1, <2>2 DEF ManagerInv, SlotsWorkOnLocalPackages
<1>8. QED
    BY <1>2, <1>5, <1>6, <1>7, FewerSlots DEF ManagerInv

-----------------------------------------------------------------------------
(* A slot's own steps. *)

LEMMA DownloadSucceedsKeeps ==
    ASSUME ManagerInv, NEW s \in Slots, DownloadSucceeds(s)
    PROVE  ManagerInv'
<1> DEFINE w   == slot[s]
           new == [w EXCEPT !.segments = {}, !.stage = "returned", !.ok = TRUE]
<1>1. /\ s \in Busy /\ w \in Work /\ w.stage = "downloading"
      /\ slot' = [slot EXCEPT ![s] = new]
      /\ have' = [have EXCEPT ![w.package] = @ \union w.segments]
      /\ UNCHANGED <<local, deleting, downloads, scheduling, retries>>
    BY BusyWorks DEF DownloadSucceeds, ManagerInv, lookout
<1>2. /\ new \in Work /\ new \in SlotRecords /\ new # Null
      /\ new.package = w.package /\ new.segments = {} /\ new.stage = "returned"
    BY <1>1, ManagerAssumption DEF Work, SlotRecords, Stages
<1> HIDE DEF new
<1>3. /\ slot' \in [Slots -> SlotRecords \union {Null}]
      /\ slot'[s] = new
      /\ \A t \in Slots : t # s => slot'[t] = slot[t]
    BY <1>1, <1>2, SlotChanges DEF ManagerInv
<1>4. UNCHANGED <<Busy, Tasks>>
    BY <1>1, <1>2 DEF Busy, Tasks
<1>5. TypeInv' /\ QueueInv'
    <2>1. have' \in [Packages -> SUBSET Segments]
        BY <1>1 DEF ManagerInv, TypeInv, Work
    <2>2. QED
        BY <1>1, <1>3, <2>1 DEF ManagerInv, TypeInv, QueueInv, NoDuplicates, Queue,
           Marked
<1>6. SlotsWorkOnLocalPackages'
    <2>1. \A t \in Busy : t \in Slots /\ slot[t] \in Work /\ slot[t].package \in Packages
        BY BusyWorks DEF ManagerInv, Work
    <2>2. \A x \in Packages : have'[x] = IF x = w.package THEN have[x] \union w.segments ELSE have[x]
        BY <1>1 DEF ManagerInv, TypeInv
    <2>3. QED
        BY <1>1, <1>2, <1>3, <1>4 DEF ManagerInv, SlotsWorkOnLocalPackages
<1>7. QED
    BY <1>4, <1>5, <1>6, FewerSlots DEF ManagerInv

\* Steps after which the slot is at another stage, the queue being what it was.
LEMMA StageKeeps ==
    ASSUME ManagerInv, NEW s \in Slots,
           DownloadFails(s) \/ CheckDownloaded(s) \/ Unlock(s)
    PROVE  ManagerInv'
<1>1. s \in Busy /\ UNCHANGED <<ledger, downloads, scheduling, retries>>
    BY DEF DownloadFails, CheckDownloaded, Unlock, lookout
<1>2. PICK stage \in Stages \ {"reset"} :
        /\ \/ slot' = [slot EXCEPT ![s].stage = stage]
           \/ slot' = [slot EXCEPT ![s].stage = stage, ![s].ok = FALSE]
        /\ slot[s].stage \notin {"release", "remove"}
    BY DEF DownloadFails, CheckDownloaded, Unlock, SetStage, Stages
<1>3. /\ slot' \in [Slots -> SlotRecords \union {Null}]
      /\ SlotsWorkOnLocalPackages'
      /\ UNCHANGED <<Busy, Tasks>>
    BY <1>1, <1>2, StageChanges DEF ManagerInv, ledger
<1>4. TypeInv' /\ QueueInv'
    BY <1>1, <1>3 DEF ManagerInv, TypeInv, QueueInv, NoDuplicates, Queue, Marked,
       ledger
<1>5. QED
    BY <1>3, <1>4, FewerSlots DEF ManagerInv

LEMMA StopCompletedKeeps ==
    ASSUME ManagerInv, NEW s \in Slots, StopCompleted(s)
    PROVE  ManagerInv'
<1>1. /\ s \in Busy /\ slot[s] \in Work /\ slot[s].package \in Packages
      /\ slot[s].stage = "stop"
      /\ UNCHANGED <<ledger, retries>>
    BY BusyWorks DEF StopCompleted, ManagerInv, Work
<1>2. /\ \/ slot' = [slot EXCEPT ![s].stage = "unlock"]
         \/ slot' = [slot EXCEPT ![s].stage = "unlock", ![s].ok = FALSE]
      /\ "unlock" \in Stages \ {"reset"}
    BY DEF StopCompleted, SetStage, Stages
<1>3. /\ slot' \in [Slots -> SlotRecords \union {Null}]
      /\ SlotsWorkOnLocalPackages'
      /\ UNCHANGED <<Busy, Tasks>>
    BY <1>1, <1>2, StageChanges DEF ManagerInv, ledger
<1>4. TypeInv' /\ QueueInv'
    <2>1. CASE StopDownloadPackage(slot[s].package)
        <3>1. /\ downloads' \in Seq(Packages) /\ NoDuplicates'
              /\ Queue' = Queue \ {slot[s].package}
              /\ UNCHANGED <<downloads, scheduling>> \/ TryScheduleNextDownload
            BY <1>1, <2>1, StopFacts DEF ManagerInv, lookout
        <3>2. CASE UNCHANGED <<downloads, scheduling>>
            BY <1>1, <1>3, <3>2 DEF ManagerInv, TypeInv, QueueInv, NoDuplicates,
               Queue, Marked, ledger
        <3>3. CASE TryScheduleNextDownload
            BY <1>1, <1>3, <3>1, CallKeeps DEF ManagerInv, TypeInv, QueueInv, Marked,
               ledger
        <3>4. QED
            BY <3>1, <3>2, <3>3
    <2>2. CASE UNCHANGED <<downloads, lookout>>
        BY <1>1, <1>3, <2>2 DEF ManagerInv, TypeInv, QueueInv, NoDuplicates, Queue,
           Marked, ledger, lookout
    <2>3. QED
        BY <2>1, <2>2 DEF StopCompleted
<1>5. QED
    BY <1>3, <1>4, FewerSlots DEF ManagerInv

LEMMA ReleaseSegmentsKeeps ==
    ASSUME ManagerInv, NEW s \in Slots, ReleaseSegments(s)
    PROVE  ManagerInv'
<1> DEFINE new == [slot[s] EXCEPT !.segments = {}, !.stage = "remove"]
<1>1. /\ s \in Busy /\ slot[s] \in Work
      /\ slot' = [slot EXCEPT ![s] = new]
      /\ UNCHANGED <<ledger, downloads, scheduling, retries>>
    BY BusyWorks DEF ReleaseSegments, ManagerInv, lookout
<1>2. /\ new \in Work /\ new.package = slot[s].package
      /\ new.segments = {} /\ new.stage = "remove"
    BY <1>1 DEF Work, Stages
<1> HIDE DEF new
<1>3. /\ slot' \in [Slots -> SlotRecords \union {Null}]
      /\ SlotsWorkOnLocalPackages'
      /\ UNCHANGED <<Busy, Tasks>>
    BY <1>1, <1>2, SlotGoesOn DEF ManagerInv, ledger
<1>4. TypeInv' /\ QueueInv'
    BY <1>1, <1>3 DEF ManagerInv, TypeInv, QueueInv, NoDuplicates, Queue, Marked,
       ledger
<1>5. QED
    BY <1>3, <1>4, FewerSlots DEF ManagerInv

\* The slot leaves downloadSlots; how many may have left is bounded.
LEMMA RemoveSlotKeeps ==
    ASSUME ManagerInv, NEW s \in Slots, RemoveSlot(s)
    PROVE  ManagerInv'
<1>1. /\ s \in Busy /\ slot[s] \in Work
      /\ UNCHANGED <<ledger, downloads, scheduling, retries>>
    BY BusyWorks DEF RemoveSlot, ManagerInv, lookout
<1>2. PICK new \in {[slot[s] EXCEPT !.stage = "reset"], Ended} : slot' = [slot EXCEPT ![s] = new]
    BY DEF RemoveSlot
<1>3. /\ new \in SlotRecords /\ new # Null
      /\ new.stage \in {"reset", "ended"}
    BY <1>1, ManagerAssumption DEF Work, SlotRecords, Stages, Ended
<1>4. /\ slot' \in [Slots -> SlotRecords \union {Null}]
      /\ slot'[s] = new
      /\ \A t \in Slots : t # s => slot'[t] = slot[t]
    BY <1>2, <1>3, SlotChanges DEF ManagerInv
<1>5. Busy' \subseteq Busy /\ (Tasks \ Busy)' = (Tasks \ Busy) \union {s}
    BY <1>3, <1>4 DEF Busy, Tasks
<1>6. TypeInv' /\ QueueInv'
    BY <1>1, <1>4 DEF ManagerInv, TypeInv, QueueInv, NoDuplicates, Queue, Marked,
       ledger
<1>7. SlotsWorkOnLocalPackages'
    <2>1. \A t \in Busy' : t # s /\ t \in Busy /\ t \in Slots
        BY <1>3, <1>4 DEF Busy, Tasks
    <2>2. QED
        BY <1>1, <1>4, <2>1 DEF ManagerInv, SlotsWorkOnLocalPackages, ledger
<1>8. LeftInv'
    <2>1. Tasks \ Busy \in SUBSET Slots
        BY DEF Tasks
    <2>2. Cardinality((Tasks \ Busy)') <= Cardinality(Tasks \ Busy) + 1
        BY <1>5, <2>1, SlotsFinite, FS_AddElement
    <2>3. Cardinality(Tasks \ Busy) < Cardinality(Slots) - MaximumDownloadSlots
        BY DEF RemoveSlot
    <2>4. (Tasks \ Busy)' \in SUBSET Slots
        BY DEF Tasks
    <2>5. QED
        BY <2>1, <2>2, <2>3, <2>4, SlotsFinite DEF LeftInv
<1>9. SlotLimit'
    <2>1. Busy \in SUBSET Slots /\ Busy' \in SUBSET Slots
        BY DEF Busy, Tasks
    <2>2. Cardinality(Busy') <= Cardinality(Busy)
        BY <1>5, <2>1, SlotsFinite, FS_Subset
    <2>3. QED
        BY <2>1, <2>2, SlotsFinite DEF ManagerInv, SlotLimit
<1>10. QED
    BY <1>6, <1>7, <1>8, <1>9 DEF ManagerInv

LEMMA PostponePeerResetKeeps ==
    ASSUME ManagerInv, NEW s \in Slots, PostponePeerReset(s)
    PROVE  ManagerInv'
<1>1. /\ s \in Tasks /\ s \notin Busy
      /\ slot' = [slot EXCEPT ![s] = Ended]
      /\ UNCHANGED <<ledger, downloads, scheduling, retries>>
    BY DEF PostponePeerReset, Busy, lookout
<1>2. Ended \in SlotRecords /\ Ended # Null /\ Ended.stage = "ended"
    BY ManagerAssumption DEF SlotRecords, Ended
<1>3. /\ slot' \in [Slots -> SlotRecords \union {Null}]
      /\ slot'[s] = Ended
      /\ \A t \in Slots : t # s => slot'[t] = slot[t]
    BY <1>1, <1>2, SlotChanges DEF ManagerInv
<1>4. UNCHANGED <<Busy, Tasks>>
    BY <1>1, <1>2 DEF Busy, Tasks
<1>5. TypeInv' /\ QueueInv'
    BY <1>1, <1>3 DEF ManagerInv, TypeInv, QueueInv, NoDuplicates, Queue, Marked,
       ledger
<1>6. SlotsWorkOnLocalPackages'
    <2>1. \A t \in Busy : t # s /\ t \in Slots
        BY <1>1 DEF Busy, Tasks
    <2>2. QED
        BY <1>1, <1>4 DEF ManagerInv, SlotsWorkOnLocalPackages, ledger
<1>7. QED
    BY <1>4, <1>5, <1>6, FewerSlots DEF ManagerInv

-----------------------------------------------------------------------------
(* The theorems. *)

LEMMA InitManagerInv == Init => ManagerInv
<1> SUFFICES ASSUME Init PROVE ManagerInv
    OBVIOUS
<1>1. Tasks = {} /\ Busy = {} /\ Queue = {}
    BY DEF Init, Tasks, Busy, Queue, ToSet
<1>2. TypeInv
    BY DEF Init, TypeInv
<1>3. QueueInv
    BY <1>1 DEF Init, QueueInv, NoDuplicates, Marked
<1>4. SlotLimit /\ LeftInv
    <2>1. Cardinality(Slots) - MaximumDownloadSlots \in Nat
        BY SlotsFinite, ManagerAssumption
    <2>2. Tasks \ Busy = {} /\ Cardinality({}) = 0
        BY <1>1, FS_EmptySet
    <2>3. QED
        BY <1>1, <2>1, <2>2, SlotsFinite DEF SlotLimit, LeftInv
<1>5. SlotsWorkOnLocalPackages
    BY <1>1 DEF SlotsWorkOnLocalPackages
<1>6. QED
    BY <1>2, <1>3, <1>4, <1>5 DEF ManagerInv

LEMMA NextManagerInv == ManagerInv /\ [Next]_vars => ManagerInv'
<1> SUFFICES ASSUME ManagerInv, [Next]_vars PROVE ManagerInv'
    OBVIOUS
<1>1. CASE Loop
    BY <1>1, TryStartKeeps, LoopEnds DEF Loop
<1>2. CASE Retry \/ NewDataAvailable
    BY <1>2, CallsKeep
<1>3. ASSUME NEW q \in Peers, ApplyClientStatus(q) \/ PeerExpires(q)
      PROVE  ManagerInv'
    BY <1>3, UpdaterKeeps
<1>4. ASSUME NEW p \in Packages, NEW q \in Peers, PackageExpires(p, q)
      PROVE  ManagerInv'
    BY <1>4, UpdaterKeeps
<1>5. ASSUME NEW s \in Slots, SlotStep(s)
      PROVE  ManagerInv'
    BY <1>5, DownloadSucceedsKeeps, StageKeeps, StopCompletedKeeps,
       ReleaseSegmentsKeeps, RemoveSlotKeeps, PostponePeerResetKeeps, CallsKeep DEF SlotStep
<1>6. ASSUME NEW p \in Packages, PackageStep(p)
      PROVE  ManagerInv'
    BY <1>6, QueueKeeps, DeleteKeeps, EndDeleteKeeps, FetchKeeps DEF PackageStep
<1>7. CASE UNCHANGED vars
    <2>1. UNCHANGED <<local, have, deleting, downloads, slot, scheduling, retries>>
        BY <1>7 DEF vars, ledger, lookout
    <2>2. TypeInv' /\ QueueInv'
        BY <2>1 DEF ManagerInv, TypeInv, QueueInv, NoDuplicates, Queue, Marked
    <2>3. UNCHANGED <<Busy, Tasks>> /\ SlotsWorkOnLocalPackages'
        BY <2>1 DEF ManagerInv, Busy, Tasks, SlotsWorkOnLocalPackages
    <2>4. QED
        BY <2>2, <2>3, FewerSlots DEF ManagerInv
<1>8. QED
    BY <1>1, <1>2, <1>3, <1>4, <1>5, <1>6, <1>7 DEF Next

\* The manager's invariant holds whatever timers, polls, slots, deletions and
\* fetches do between two sections under the manager's lock.
THEOREM ManagerInvariant == Spec => []ManagerInv
<1>1. QED
    BY InitManagerInv, NextManagerInv, PTL DEF Spec

\* There are never more slots than MaximumDownloadSlots.
THEOREM SlotsLimited == Spec => []SlotLimit
<1>1. ManagerInv => SlotLimit
    BY DEF ManagerInv
<1>2. QED
    BY <1>1, ManagerInvariant, PTL

\* Slots at work share no segment, have none that is there, and their package is
\* in the registry: a deletion waits for them.
THEOREM SlotsWork == Spec => []SlotsWorkOnLocalPackages
<1>1. ManagerInv => SlotsWorkOnLocalPackages
    BY DEF ManagerInv
<1>2. QED
    BY <1>1, ManagerInvariant, PTL

\* Once its deletion was announced a package stays out of the queue.
THEOREM DeletedStaysOut == Spec => []DeletedNotQueued
<1>1. ManagerInv => DeletedNotQueued
    BY DEF ManagerInv, QueueInv, DeletedNotQueued
<1>2. QED
    BY <1>1, ManagerInvariant, PTL

\* What a step does to a name of a slot that is free.
LEMMA NewSlotQueued ==
    ASSUME ManagerInv, [Next]_vars, NEW s \in Slots, slot[s] = Null, slot'[s] # Null
    PROVE  slot'[s].package \in Queue /\ ~Marked(slot'[s].package)
<1>1. s \notin Tasks /\ s \notin Busy
    BY DEF Tasks, Busy
<1>2. ASSUME UNCHANGED slot PROVE FALSE
    BY <1>2
<1>3. ASSUME NEW t \in Tasks, NEW new, slot' = [slot EXCEPT ![t] = new] PROVE FALSE
    BY <1>1, <1>3
<1>4. CASE Loop
    <2>1. PICK q \in Peers : TryStart(q)
        BY <1>4 DEF Loop, GiveUp, EndSchedule
    <2> DEFINE free == CHOOSE x \in Slots : slot[x] = Null
               p    == scheduling.package
    <2>2. PICK segments :
            slot' = [slot EXCEPT ![free] = [package |-> p, peer |-> q, segments |-> segments,
                                             stage |-> "downloading", ok |-> FALSE]]
        BY <2>1 DEF TryStart
    <2>3. p \in Queue /\ ~Marked(p)
        <3>1. /\ p = Head(downloads) /\ downloads # <<>> /\ downloads \in Seq(Packages)
              /\ ~Marked(p)
            BY <2>1 DEF TryStart, Looping, ManagerInv, TypeInv, QueueInv
        <3>2. QED
            BY <3>1 DEF Queue, ToSet
    <2> HIDE DEF free, p
    <2>4. slot'[s].package = p
        BY <2>2
    <2>5. QED
        BY <2>3, <2>4
<1>5. CASE Retry \/ NewDataAvailable
    BY <1>5 DEF Retry, NewDataAvailable
<1>6. ASSUME NEW q \in Peers, ApplyClientStatus(q) \/ PeerExpires(q) PROVE FALSE
    BY <1>6 DEF ApplyClientStatus, PeerExpires
<1>7. ASSUME NEW p \in Packages, NEW q \in Peers, PackageExpires(p, q) PROVE FALSE
    BY <1>7 DEF PackageExpires
<1>8. ASSUME NEW t \in Slots, SlotStep(t) PROVE FALSE
    <2>1. CASE Continue(t)
        BY <2>1 DEF Continue
    <2>2. CASE ~Continue(t)
        <3>1. t \in Tasks
            BY <1>8, <2>2 DEF SlotStep, DownloadSucceeds, DownloadFails,
               CheckDownloaded, StopCompleted, Unlock, ReleaseSegments, RemoveSlot,
               PostponePeerReset, Busy
        <3>2. PICK new : slot' = [slot EXCEPT ![t] = new]
            BY <1>8, <2>2, Zenon DEF SlotStep, SetStage, DownloadSucceeds,
               DownloadFails, CheckDownloaded, StopCompleted, Unlock, ReleaseSegments,
               RemoveSlot, PostponePeerReset
        <3>3. QED
            BY <1>3, <3>1, <3>2
    <2>3. QED
        BY <2>1, <2>2
<1>9. ASSUME NEW p \in Packages, PackageStep(p) PROVE FALSE
    <2>1. CASE EndDelete(p)
        BY <1>1, <2>1 DEF EndDelete
    <2>2. CASE ~EndDelete(p)
        BY <1>9, <2>2 DEF PackageStep, Start, Stop, Delete, LocalPackageDeleting, Ask,
           GetDiscoveredPackage, SaveRemotePackage, StartFetched, EndFetch
    <2>3. QED
        BY <2>1, <2>2
<1>10. CASE UNCHANGED vars
    BY <1>10 DEF vars
<1>11. QED
    BY <1>4, <1>5, <1>6, <1>7, <1>8, <1>9, <1>10 DEF Next

\* No slot is given to a package that was stopped, completed or marked, however
\* far the loop over its peers had come.
THEOREM StoppedStays == Spec => StoppedGetsNoSlot
<1>1. ManagerInv /\ [Next]_vars =>
        [\A s \in Slots : (slot[s] = Null /\ slot'[s] # Null) =>
            slot'[s].package \in Queue /\ ~Marked(slot'[s].package)]_vars
    BY NewSlotQueued
<1>2. QED
    BY <1>1, ManagerInvariant, PTL DEF Spec, StoppedGetsNoSlot

-----------------------------------------------------------------------------
(* No wake-up is lost, where status files can be written. *)

\* The slot that takes a complete package out of the queue is still to do so.
Completing(p) ==
    \E s \in Busy : slot[s].package = p /\ slot[s].stage \in {"returned", "stop"}

CompletedInv == \A p \in Queue : Complete(p) => Completing(p)

WakeInv ==
    /\ CompletedInv
    /\ scheduling # Null => ~isNextTryScheduled
    /\ SomethingWillCall

LEMMA CallWakes ==
    ASSUME TryScheduleNextDownload, downloads' \in Seq(Packages), CompletedInv'
    PROVE  WakeInv'
<1>1. /\ isNextTryScheduled' = FALSE
      /\ scheduling' = Null /\ downloads' # <<>> => Cardinality(Busy') >= MaximumDownloadSlots
    BY CallFacts
<1>2. ASSUME scheduling' = Null, downloads' # <<>> PROVE Tasks' # {}
    <2>1. Busy' # {}
        BY <1>1, <1>2, SlotsFinite, FS_EmptySet
    <2>2. QED
        BY <2>1 DEF Busy
<1>3. QED
    BY <1>1, <1>2 DEF WakeInv, SomethingWillCall, LockFree

LEMMA OtherStepsWake ==
    ASSUME TypeInv, WakeInv, CompletedInv',
           UNCHANGED <<downloads, scheduling, isNextTryScheduled, retries>>,
           Tasks' = Tasks, newData => newData',
           \A p \in Packages : deleting[p] = "notify" /\ p \in Queue => deleting'[p] = "notify"
    PROVE  WakeInv'
<1>1. ASSUME downloads # <<>> PROVE Head(downloads) \in Packages /\ Head(downloads) \in Queue
    BY <1>1 DEF TypeInv, Queue, ToSet
<1>2. QED
    BY <1>1 DEF WakeInv, SomethingWillCall, LockFree

LEMMA LoopWakes ==
    ASSUME ManagerInv, WakeInv, Loop
    PROVE  WakeInv'
<1>1. CASE \E q \in Peers : TryStart(q)
    <2>1. PICK q \in Peers : TryStart(q)
        BY <1>1
    <2>2. /\ UNCHANGED <<have, downloads, isNextTryScheduled>> /\ scheduling # Null
          /\ scheduling' = [scheduling EXCEPT !.tmpPeers = @ \ {q}]
        BY <2>1 DEF TryStart, Looping, ledger
    <2>3. scheduling' # Null
        BY <2>2, ManagerAssumption DEF ManagerInv, TypeInv
    <2>4. \A s \in Busy : s \in Busy' /\ slot'[s] = slot[s]
        <3>1. \A s \in Slots : slot[s] # Null => slot'[s] = slot[s]
            <4> DEFINE free == CHOOSE x \in Slots : slot[x] = Null
            <4>1. free \in Slots /\ slot[free] = Null
                BY <2>1, FreeSlot DEF ManagerInv, TryStart
            <4> HIDE DEF free
            <4>2. UNCHANGED slot \/ \E w : slot' = [slot EXCEPT ![free] = w]
                BY <2>1, Zenon DEF TryStart, free
            <4>3. QED
                BY <4>1, <4>2 DEF ManagerInv, TypeInv
        <3>2. QED
            BY <3>1 DEF Busy, Tasks
    <2>5. CompletedInv'
        BY <2>2, <2>4 DEF WakeInv, CompletedInv, Completing, Complete, Queue
    <2>6. QED
        BY <2>2, <2>3, <2>5 DEF WakeInv, SomethingWillCall, LockFree
<1>2. CASE GiveUp
    <2> DEFINE p == scheduling.package
    <2>1. /\ UNCHANGED <<have, deleting, downloads, slot, isNextTryScheduled>>
          /\ scheduling' = Null /\ scheduling # Null
          /\ Marked(p) \/ have[p] \union InProgress(p) = Segments
        BY <1>2 DEF GiveUp, Looping, ledger
    <2>2. p = Head(downloads) /\ downloads # <<>> /\ p \in Packages /\ p \in Queue
        BY <2>1 DEF ManagerInv, TypeInv, QueueInv, Queue, ToSet
    <2>3. CompletedInv'
        BY <2>1 DEF WakeInv, CompletedInv, Completing, Complete, Queue, Busy, Tasks
    <2>4. CASE Marked(p)
        <3>1. deleting[p] = "notify"
            BY <2>2, <2>4 DEF ManagerInv, TypeInv, QueueInv, Marked
        <3>2. QED
            BY <2>1, <2>2, <2>3, <3>1 DEF WakeInv, SomethingWillCall
    <2>5. CASE have[p] \union InProgress(p) = Segments
        <3>1. Busy # {}
            <4>1. CASE InProgress(p) = {}
                BY <2>2, <2>5, <4>1 DEF WakeInv, CompletedInv, Completing, Complete
            <4>2. CASE InProgress(p) # {}
                BY <4>2 DEF InProgress
            <4>3. QED
                BY <4>1, <4>2
        <3>2. Tasks' # {}
            BY <2>1, <3>1 DEF Busy, Tasks
        <3>3. QED
            BY <2>1, <2>3, <3>2 DEF WakeInv, SomethingWillCall
    <2>6. QED
        BY <2>1, <2>4, <2>5
<1>3. CASE EndSchedule
    <2>1. /\ UNCHANGED <<have, downloads, slot>> /\ scheduling' = Null /\ scheduling # Null
        BY <1>3 DEF EndSchedule, ledger
    <2>2. CompletedInv'
        BY <2>1 DEF WakeInv, CompletedInv, Completing, Complete, Queue, Busy, Tasks
    <2>3. Tasks' # {} \/ retries' > 0
        <3>1. CASE Cardinality(Busy) >= MaximumDownloadSlots
            <4>1. Busy # {}
                BY <3>1, SlotsFinite, FS_EmptySet
            <4>2. QED
                BY <2>1, <4>1 DEF Busy, Tasks
        <3>2. CASE ~(Cardinality(Busy) >= MaximumDownloadSlots)
            <4>1. ~isNextTryScheduled
                BY <2>1 DEF WakeInv
            <4>2. retries' \in {MaxRetries, retries + 1}
                BY <1>3, <3>2, <4>1, Zenon DEF EndSchedule
            <4>3. QED
                BY <4>2, ManagerAssumption DEF ManagerInv, TypeInv
        <3>3. QED
            BY <3>1, <3>2
    <2>4. QED
        BY <2>1, <2>2, <2>3 DEF WakeInv, SomethingWillCall
<1>4. QED
    BY <1>1, <1>2, <1>3 DEF Loop

LEMMA CallsWake ==
    ASSUME ManagerInv, WakeInv, Retry \/ NewDataAvailable \/ \E s \in Slots : Continue(s)
    PROVE  WakeInv'
<1>1. UNCHANGED <<have, downloads>> /\ TryScheduleNextDownload
    BY Zenon DEF Retry, NewDataAvailable, Continue, ledger
<1>2. \A s \in Busy : s \in Busy' /\ slot'[s] = slot[s]
    <2>1. CASE UNCHANGED slot
        BY <2>1 DEF Busy, Tasks
    <2>2. CASE \E t \in Slots : Continue(t)
        BY <2>2 DEF Continue, Ended, Busy, Tasks
    <2>3. QED
        BY <2>1, <2>2 DEF Retry, NewDataAvailable
<1>3. CompletedInv'
    BY <1>1, <1>2 DEF WakeInv, CompletedInv, Completing, Complete, Queue
<1>4. QED
    BY <1>1, <1>3, CallWakes DEF ManagerInv, TypeInv

LEMMA QuietStepsWake ==
    ASSUME ManagerInv, WakeInv, NEW p \in Packages,
           \/ Delete(p) \/ EndDelete(p)
           \/ Ask(p) \/ GetDiscoveredPackage(p) \/ SaveRemotePackage(p) \/ EndFetch(p)
           \/ \E q \in Peers : ApplyClientStatus(q) \/ PeerExpires(q) \/ PackageExpires(p, q)
           \/ UNCHANGED vars
    PROVE  WakeInv'
<1>1. CASE EndDelete(p)
    <2>1. /\ have' = [have EXCEPT ![p] = {}] /\ deleting' = [deleting EXCEPT ![p] = "no"]
          /\ p \notin Queue
          /\ UNCHANGED <<downloads, newData, scheduling, isNextTryScheduled, retries>>
        BY <1>1 DEF EndDelete, lookout, ManagerInv, QueueInv
    <2>2. Tasks' = Tasks /\ \A s \in Busy : /\ s \in Busy'
                                          /\ slot'[s].package = slot[s].package
                                          /\ slot'[s].stage = slot[s].stage
        <3>1. ASSUME NEW s \in Busy
              PROVE  /\ [slot[s] EXCEPT !.segments = {}] # Null
                     /\ [slot[s] EXCEPT !.segments = {}].package = slot[s].package
                     /\ [slot[s] EXCEPT !.segments = {}].stage = slot[s].stage
            <4>1. slot[s] \in Work
                BY BusyWorks DEF ManagerInv
            <4>2. [slot[s] EXCEPT !.segments = {}] \in SlotRecords
                BY <4>1, WorkFields DEF Work
            <4>3. QED
                BY <4>1, <4>2, ManagerAssumption DEF Work
        <3>2. \A s \in Slots : slot'[s] = IF s \in Busy /\ slot[s].package = p
                                         THEN [slot[s] EXCEPT !.segments = {}] ELSE slot[s]
            BY <1>1 DEF EndDelete
        <3>3. \A s \in Slots : s \in Tasks' <=> s \in Tasks
            BY <3>1, <3>2 DEF Tasks, Busy
        <3>4. QED
            BY <3>1, <3>2 DEF Busy, Tasks
    <2>3. CompletedInv'
        BY <2>1, <2>2 DEF WakeInv, CompletedInv, Completing, Complete, Queue
    <2>4. QED
        BY <2>1, <2>2, <2>3, OtherStepsWake DEF ManagerInv
<1>2. CASE ~EndDelete(p)
    <2>1. UNCHANGED <<have, downloads, slot, scheduling, isNextTryScheduled, retries>>
        BY <1>2 DEF Delete, Ask, GetDiscoveredPackage, SaveRemotePackage, EndFetch,
           ApplyClientStatus, PeerExpires, PackageExpires, vars, ledger, lookout
    <2>2. /\ newData => newData'
          /\ \A x \in Packages : deleting[x] = "notify" => deleting'[x] = "notify"
        <3>1. deleting' = deleting \/ deleting' = [deleting EXCEPT ![p] = "notify"]
            BY <1>2 DEF Delete, Ask, GetDiscoveredPackage, SaveRemotePackage,
               EndFetch, ApplyClientStatus, PeerExpires, PackageExpires, vars, ledger
        <3>2. newData' = newData \/ newData' = TRUE
            BY <1>2, Zenon DEF Delete, Ask, GetDiscoveredPackage, SaveRemotePackage,
               EndFetch, ApplyClientStatus, PeerExpires, PackageExpires, vars
        <3>3. QED
            BY <3>1, <3>2 DEF ManagerInv, TypeInv
    <2>3. CompletedInv'
        BY <2>1 DEF WakeInv, CompletedInv, Completing, Complete, Queue, Busy, Tasks
    <2>4. Tasks' = Tasks
        BY <2>1 DEF Tasks
    <2>5. QED
        BY <2>1, <2>2, <2>3, <2>4, OtherStepsWake DEF ManagerInv
<1>3. QED
    BY <1>1, <1>2

LEMMA QueueStepsWake ==
    ASSUME ManagerInv, WakeInv, NEW p \in Packages,
           Start(p) \/ Stop(p) \/ LocalPackageDeleting(p) \/ StartFetched(p)
    PROVE  WakeInv'
<1>1. UNCHANGED <<have, slot, retries, newData>>
    BY DEF Start, Stop, LocalPackageDeleting, StartFetched, ledger
<1>2. /\ downloads' \in Seq(Packages)
      /\ \/ StartDownloadPackage(p) \/ StopDownloadPackage(p)
         \/ UNCHANGED <<downloads, lookout>>
    BY StartFacts, StopFacts DEF Start, Stop, LocalPackageDeleting, StartFetched,
       ManagerInv, TypeInv
<1>3. Busy' = Busy /\ Tasks' = Tasks
    BY <1>1 DEF Busy, Tasks
<1>4. \A x \in Queue' : x \in Queue \/ ~Complete(x)
    BY <1>2, StartFacts, StopFacts DEF ManagerInv, Queue
<1>5. CompletedInv'
    BY <1>1, <1>3, <1>4 DEF WakeInv, CompletedInv, Completing, Complete
<1>6. CASE TryScheduleNextDownload
    BY <1>2, <1>5, <1>6, CallWakes
<1>7. CASE UNCHANGED <<downloads, lookout>>
    <2>1. \A x \in Packages : deleting[x] = "notify" /\ x \in Queue => deleting'[x] = "notify"
        <3>1. CASE LocalPackageDeleting(p)
            <4>1. p \notin Queue'
                BY <3>1, StopFacts DEF LocalPackageDeleting, ManagerInv
            <4>2. p \notin Queue
                BY <1>7, <4>1 DEF Queue
            <4>3. QED
                BY <3>1, <4>2 DEF LocalPackageDeleting
        <3>2. CASE UNCHANGED deleting
            BY <3>2
        <3>3. QED
            BY <3>1 DEF Start, Stop, StartFetched, ledger
    <2>2. QED
        BY <1>1, <1>3, <1>5, <1>7, <2>1, OtherStepsWake DEF ManagerInv, lookout
<1>8. QED
    BY <1>2, <1>6, <1>7, StartFacts, StopFacts DEF ManagerInv

LEMMA SlotStepsWake ==
    ASSUME ManagerInv, WakeInv, ~SavesMayFail, NEW s \in Slots, SlotStep(s), ~Continue(s)
    PROVE  WakeInv'
<1>1. PICK new : /\ slot' = [slot EXCEPT ![s] = new] /\ new \in SlotRecords
                 /\ s \in Tasks
                 /\ ~DownloadSucceeds(s) => UNCHANGED have
                 /\ UNCHANGED <<deleting, newData, retries>>
                 /\ s \in Busy => slot[s] \in Work
                 /\ StopCompleted(s) \/ UNCHANGED <<downloads, lookout>>
    <2>1. s \in Busy => slot[s] \in Work
        BY BusyWorks DEF ManagerInv
    <2>2. QED
        BY <2>1 DEF SlotStep, SetStage, DownloadSucceeds, DownloadFails,
           CheckDownloaded, StopCompleted, Unlock, ReleaseSegments, RemoveSlot,
           PostponePeerReset, SlotRecords, Work, Stages, Busy, ledger
<1>2. /\ slot'[s] = new /\ new # Null
      /\ \A t \in Slots : t # s => slot'[t] = slot[t]
    BY <1>1, SlotChanges, ManagerAssumption DEF ManagerInv
<1>3. Tasks' = Tasks
    BY <1>1, <1>2 DEF Tasks
<1>4. \A t \in Busy : t # s => t \in Busy' /\ slot'[t] = slot[t]
    BY <1>2 DEF Busy, Tasks
<1>5. CompletedInv'
    <2>1. CASE DownloadSucceeds(s)
        <3>1. /\ s \in Busy /\ slot[s] \in Work /\ slot[s].stage = "downloading"
              /\ have' = [have EXCEPT ![slot[s].package] = @ \union slot[s].segments]
              /\ slot' = [slot EXCEPT ![s] = [slot[s] EXCEPT !.segments = {}, !.stage = "returned",
                                                           !.ok = TRUE]]
              /\ UNCHANGED downloads
            BY <1>1, <2>1 DEF DownloadSucceeds
        <3>2. /\ slot'[s].package = slot[s].package /\ slot'[s].stage = "returned"
              /\ s \in Busy'
            <4> DEFINE w == [slot[s] EXCEPT !.segments = {}, !.stage = "returned", !.ok = TRUE]
            <4>1. w.package = slot[s].package /\ w.stage = "returned"
                OBVIOUS
            <4>2. slot' = [slot EXCEPT ![s] = w]
                BY <3>1
            <4> HIDE DEF w
            <4>3. slot'[s] = w
                BY <4>2 DEF ManagerInv, TypeInv
            <4>4. QED
                BY <1>1, <1>3, <4>1, <4>3 DEF Busy
        <3>3. \A x \in Packages : x # slot[s].package => have'[x] = have[x]
            BY <3>1
        <3>4. Queue \subseteq Packages /\ Queue' = Queue
            BY <3>1 DEF ManagerInv, TypeInv, Queue, ToSet
        <3>5. QED
            BY <1>4, <3>1, <3>2, <3>4 DEF WakeInv, CompletedInv, Completing, Complete
    <2>2. CASE StopCompleted(s)
        <3>1. /\ s \in Busy /\ slot[s].package \in Packages /\ UNCHANGED have
              /\ StopDownloadPackage(slot[s].package)
            BY <1>1, <2>2 DEF StopCompleted, SaveFails, Work, ledger
        <3>2. Queue' = Queue \ {slot[s].package}
            BY <3>1, StopFacts DEF ManagerInv
        <3>3. QED
            BY <1>4, <3>1, <3>2 DEF WakeInv, CompletedInv, Completing, Complete
    <2>3. CASE CheckDownloaded(s) /\ Complete(slot[s].package)
        <3>1. /\ slot' = [slot EXCEPT ![s] = [slot[s] EXCEPT !.stage = "stop"]]
              /\ UNCHANGED <<have, downloads>> /\ s \in Busy /\ slot[s] \in Work
            BY <1>1, <2>3 DEF CheckDownloaded, SetStage, ledger
        <3>2. /\ slot'[s].package = slot[s].package /\ slot'[s].stage = "stop" /\ s \in Busy'
            <4> DEFINE w == [slot[s] EXCEPT !.stage = "stop"]
            <4>1. w.package = slot[s].package /\ w.stage = "stop"
                OBVIOUS
            <4>2. slot' = [slot EXCEPT ![s] = w]
                BY <3>1
            <4> HIDE DEF w
            <4>3. slot'[s] = w
                BY <4>2 DEF ManagerInv, TypeInv
            <4>4. QED
                BY <1>1, <1>3, <4>1, <4>3 DEF Busy
        <3>3. QED
            BY <1>4, <3>1, <3>2 DEF WakeInv, CompletedInv, Completing, Complete, Queue
    <2>4. CASE ~DownloadSucceeds(s) /\ ~StopCompleted(s)
               /\ ~(CheckDownloaded(s) /\ Complete(slot[s].package))
        <3>1. UNCHANGED <<have, downloads>>
            BY <1>1, <2>4
        <3>2. s \in Busy => slot[s].stage \notin {"returned", "stop"} \/ ~Complete(slot[s].package)
            BY <2>4 DEF SlotStep, DownloadFails, Unlock, ReleaseSegments, RemoveSlot,
               PostponePeerReset
        <3>3. QED
            BY <1>4, <3>1, <3>2 DEF WakeInv, CompletedInv, Completing, Complete, Queue
    <2>5. QED
        BY <2>1, <2>2, <2>3, <2>4
<1>6. CASE UNCHANGED <<downloads, lookout>>
    BY <1>1, <1>3, <1>5, <1>6, OtherStepsWake DEF ManagerInv, lookout
<1>7. CASE StopCompleted(s)
    <2>1. StopDownloadPackage(slot[s].package) /\ slot[s].package \in Packages
        BY <1>1, <1>7 DEF StopCompleted, SaveFails, Work
    <2>2. downloads' \in Seq(Packages) /\ (UNCHANGED <<downloads, lookout>> \/ TryScheduleNextDownload)
        BY <2>1, StopFacts DEF ManagerInv
    <2>3. QED
        BY <1>5, <1>6, <2>2, CallWakes
<1>8. QED
    BY <1>1, <1>6, <1>7

LEMMA WakeInvariant ==
    ASSUME ~SavesMayFail
    PROVE  Spec => []WakeInv
<1>1. Init => WakeInv
    BY DEF Init, WakeInv, CompletedInv, SomethingWillCall, Queue, ToSet
<1>2. ManagerInv /\ WakeInv /\ [Next]_vars => WakeInv'
    <2> SUFFICES ASSUME ManagerInv, WakeInv, [Next]_vars PROVE WakeInv'
        OBVIOUS
    <2>1. CASE Loop
        BY <2>1, LoopWakes
    <2>2. CASE Retry \/ NewDataAvailable
        BY <2>2, CallsWake
    <2>3. ASSUME NEW p \in Packages, NEW q \in Peers,
                 ApplyClientStatus(q) \/ PeerExpires(q) \/ PackageExpires(p, q)
          PROVE  WakeInv'
        BY <2>3, QuietStepsWake
    <2>4. ASSUME NEW q \in Peers, ApplyClientStatus(q) \/ PeerExpires(q), Packages = {}
          PROVE  WakeInv'
        <3>1. downloads = <<>> /\ UNCHANGED <<downloads, scheduling, isNextTryScheduled>>
            BY <2>4 DEF ApplyClientStatus, PeerExpires, lookout, ManagerInv, TypeInv
        <3>2. QED
            BY <3>1 DEF WakeInv, CompletedInv, Queue, ToSet, SomethingWillCall
    <2>5. ASSUME NEW s \in Slots, SlotStep(s) PROVE WakeInv'
        BY <2>5, SlotStepsWake, CallsWake
    <2>6. ASSUME NEW p \in Packages, PackageStep(p) PROVE WakeInv'
        BY <2>6, QuietStepsWake, QueueStepsWake DEF PackageStep
    <2>7. CASE UNCHANGED vars
        <3>1. UNCHANGED <<have, deleting, downloads, slot, scheduling, isNextTryScheduled, retries,
                          newData>>
            BY <2>7 DEF vars, ledger, lookout
        <3>2. CompletedInv' /\ Tasks' = Tasks
            BY <3>1 DEF WakeInv, CompletedInv, Completing, Complete, Queue, Busy,
               Tasks
        <3>3. QED
            BY <3>1, <3>2, OtherStepsWake DEF ManagerInv
    <2>8. QED
        BY <2>1, <2>2, <2>3, <2>4, <2>5, <2>6, <2>7 DEF Next
<1>3. QED
    BY <1>1, <1>2, ManagerInvariant, PTL DEF Spec

\* Whenever the queue is not empty something under way will call
\* TryScheduleNextDownload again, where status files can be written.
THEOREM WakeUpsKept ==
    ASSUME ~SavesMayFail
    PROVE  Spec => []SomethingWillCall
<1>1. WakeInv => SomethingWillCall
    BY DEF WakeInv
<1>2. QED
    BY <1>1, WakeInvariant, PTL

\* The loop over peers gives a package up, with nothing to call it again, only when it
\* is marked for deletion or a slot still works on it, where status files can be written:
\* a complete package stays at the head of the queue no longer than the slot that
\* completed it.
THEOREM GivingUpHasAReason ==
    ASSUME ~SavesMayFail
    PROVE  Spec => []GivesUpForAReason
<1>1. ASSUME ManagerInv, WakeInv, Looping, ~Marked(scheduling.package),
             have[scheduling.package] \union InProgress(scheduling.package) = Segments
      PROVE  \E s \in Busy : slot[s].package = scheduling.package
    <2> DEFINE p == scheduling.package
    <2>1. p \in Queue
        BY <1>1 DEF Looping, ManagerInv, TypeInv, QueueInv, Queue, ToSet
    <2>2. CASE InProgress(p) = {}
        <3>1. Completing(p)
            BY <1>1, <2>1, <2>2 DEF WakeInv, CompletedInv, Complete
        <3>2. QED
            BY <3>1 DEF Completing
    <2>3. CASE InProgress(p) # {}
        BY <2>3 DEF InProgress
    <2>4. QED
        BY <2>2, <2>3
<1>2. ManagerInv /\ WakeInv => GivesUpForAReason
    BY <1>1 DEF GivesUpForAReason
<1>3. QED
    BY <1>2, ManagerInvariant, WakeInvariant, PTL
=============================================================================
