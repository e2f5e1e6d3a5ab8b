----------------------- MODULE PackageStatusUpdaterProofs -----------------------
(***************************************************************************)
(* Proofs about PackageStatusUpdater for any peers, finite set of packages *)
(* and numbers of objects and polls: what the two counters of a peer say.  *)
(*                                                                         *)
(* The sum of CountersConserved is a recursive function.  That it is what  *)
(* its equations say, and how it changes with one counter, are proved by   *)
(* induction in the form of NatSet: a set that has 0, and the successor of *)
(* all it has, is Nat.                                                     *)
(***************************************************************************)
EXTENDS PackageStatusUpdater, FiniteSetTheorems, WellFoundedInduction, TLAPS

-----------------------------------------------------------------------------
(* The inductive invariant. *)

ObjectTypes ==
    /\ peers \in [Peers -> 0..MaxObjects]
    /\ made \in [Peers -> 0..MaxObjects]
    /\ total \in [Peers -> [Objects -> Int]]
    /\ seeders \in [Peers -> [Objects -> Int]]
    /\ status \in [Peers -> [Packages -> {"none", "unknown", "part", "all"}]]
    /\ owner \in [Peers -> [Packages -> 0..MaxObjects]]

Polls == [object : 0..MaxObjects, asked : SUBSET Packages, stage : {"idle", "sent", "answered"}]

TypeInv ==
    /\ ObjectTypes
    /\ known \in [Peers -> [Packages -> {"no", "part", "all"}]]
    /\ interested \subseteq Packages
    /\ poll \in [Peers -> [PollIds -> Polls]]

\* A peer's object is its last one, and an enabled peer has one.
PeerOK(q) ==
    /\ peers[q] \in {0, made[q]}
    /\ q \in enabled => peers[q] # 0

\* Statuses are of packages of interest, and have objects the peer had.
StatusOK(q) ==
    \A p \in Packages :
        /\ owner[q][p] \in 0..made[q]
        /\ owner[q][p] = 0 <=> status[q][p] = "none"
        /\ status[q][p] # "none" => p \in interested

\* So have polls.
PollOK(q) ==
    \A i \in PollIds :
        IF poll[q][i].stage = "idle" THEN poll[q][i].asked = {}
        ELSE poll[q][i].object \in 1..made[q]

Sum(f) ==
    LET sum[o \in 0..MaxObjects] == IF o = 0 THEN 0 ELSE sum[o - 1] + f[o]
    IN sum[MaxObjects]

\* Objects not made yet count nothing; the first one, while it is the peer's, counts
\* the packages the peer is a seeder of.
CountOK(q) ==
    /\ Sum(total[q]) = Cardinality(Entries(q))
    /\ made[q] = 1 /\ peers[q] # 0 => seeders[q][1] = Cardinality(Seeds(q))
    /\ \A o \in Objects : o > made[q] => total[q][o] = 0 /\ seeders[q][o] = 0

UpdaterInv ==
    /\ TypeInv
    /\ \A q \in Peers : PeerOK(q) /\ StatusOK(q) /\ PollOK(q) /\ CountOK(q)

-----------------------------------------------------------------------------
(* Induction over the naturals. *)

LEMMA NatMin ==
    ASSUME NEW T \in SUBSET Nat, T # {}
    PROVE  \E n \in T : \A m \in T : n <= m
<1> DEFINE R == OpToRel(<, Nat)
<1>1. IsWellFoundedOn(R, Nat)
    BY NatLessThanWellFounded, Zenon
<1>2. \A x, y \in Nat : <<y, x>> \in R <=> y < x
    BY DEF OpToRel
<1> HIDE DEF R
<1>3. PICK n \in T : \A m \in T : ~ (<<m, n>> \in R)
    BY <1>1, WFMin, Zenon
<1>4. ASSUME NEW m \in T PROVE ~(m < n)
    BY <1>2, <1>3
<1>5. \A m \in T : n <= m
    BY <1>4
<1>6. QED
    BY <1>5

LEMMA NatSet ==
    ASSUME NEW T \in SUBSET Nat, 0 \in T, \A n \in T : n + 1 \in T
    PROVE  T = Nat
<1> SUFFICES ASSUME T # Nat PROVE FALSE
    OBVIOUS
<1>1. PICK n \in Nat \ T : \A m \in Nat \ T : n <= m
    BY NatMin
<1>2. n - 1 \in T
    BY <1>1
<1>3. QED
    BY <1>1, <1>2

-----------------------------------------------------------------------------
(* The sum over a peer's objects. *)

\* s lists the partial sums of f.
PartialSums(s, f) ==
    /\ s \in [0..MaxObjects -> Int]
    /\ s[0] = 0
    /\ \A o \in Objects : s[o] = s[o - 1] + f[o]

LEMMA SumsExist ==
    ASSUME NEW f \in [Objects -> Int]
    PROVE  \E s : PartialSums(s, f)
<1> DEFINE UpTo(s, n) == /\ s \in [0..MaxObjects -> Int]
                         /\ s[0] = 0
                         /\ \A o \in Objects : o <= n => s[o] = s[o - 1] + f[o]
           T == {n \in Nat : n <= MaxObjects => \E s : UpTo(s, n)}
<1>1. MaxObjects \in Nat /\ Objects = 1..MaxObjects
    BY UpdaterAssumption DEF Objects
<1>2. 0 \in T
    <2>1. UpTo([o \in 0..MaxObjects |-> 0], 0)
        BY <1>1
    <2>2. QED
        BY <2>1
<1>3. ASSUME NEW n \in T PROVE n + 1 \in T
    <2> SUFFICES ASSUME n + 1 <= MaxObjects PROVE \E s : UpTo(s, n + 1)
        BY <1>3
    <2>1. PICK s : UpTo(s, n)
        BY <1>1
    <2> DEFINE r == [s EXCEPT ![n + 1] = s[n] + f[n + 1]]
    <2>2. n + 1 \in 0..MaxObjects /\ n \in 0..MaxObjects /\ n + 1 \in Objects
        BY <1>1
    <2>3. /\ r \in [0..MaxObjects -> Int]
          /\ r[n + 1] = s[n] + f[n + 1]
          /\ \A o \in 0..MaxObjects : o # n + 1 => r[o] = s[o]
        BY <2>1, <2>2
    <2> HIDE DEF r
    <2>4. ASSUME NEW o \in Objects, o <= n + 1
          PROVE  r[o] = r[o - 1] + f[o]
        <3>1. o - 1 \in 0..MaxObjects /\ o \in 0..MaxObjects /\ o - 1 # n + 1 /\ r[o - 1] = s[o - 1]
            BY <1>1, <2>3, <2>4
        <3>2. CASE o = n + 1
            BY <2>3, <3>1, <3>2
        <3>3. CASE o # n + 1
            BY <2>1, <2>3, <2>4, <3>1, <3>3
        <3>4. QED
            BY <3>2, <3>3
    <2>5. UpTo(r, n + 1)
        BY <1>1, <2>1, <2>3, <2>4
    <2>6. QED
        BY <2>5
<1>4. T = Nat
    BY <1>2, <1>3, NatSet
<1> HIDE DEF T
<1>5. PICK s : UpTo(s, MaxObjects)
    <2>1. MaxObjects \in T
        BY <1>1, <1>4
    <2>2. QED
        BY <2>1 DEF T
<1>6. PartialSums(s, f)
    BY <1>1, <1>5 DEF PartialSums
<1>7. QED
    BY <1>6

LEMMA SumOfSums ==
    ASSUME NEW f \in [Objects -> Int]
    PROVE  \E s : PartialSums(s, f) /\ Sum(f) = s[MaxObjects]
<1> DEFINE D(s) == s = [o \in 0..MaxObjects |-> IF o = 0 THEN 0 ELSE s[o - 1] + f[o]]
           sum == CHOOSE s : D(s)
<1>1. MaxObjects \in Nat \ {0} /\ Objects = 1..MaxObjects
    BY UpdaterAssumption DEF Objects
<1>2. PICK s : PartialSums(s, f)
    BY SumsExist
<1>3. D(s)
    BY <1>1, <1>2 DEF PartialSums
<1>4. D(sum)
    BY <1>3, Zenon
<1>5. Sum(f) = sum[MaxObjects]
    BY Zenon DEF Sum
<1> HIDE DEF sum
<1>6. /\ \A o \in 0..MaxObjects : sum[o] = IF o = 0 THEN 0 ELSE sum[o - 1] + f[o]
      /\ sum = [o \in 0..MaxObjects |-> sum[o]]
    BY <1>4
<1> HIDE DEF D
<1> DEFINE T == {n \in Nat : n <= MaxObjects => sum[n] \in Int}
<1>7. 0 \in T
    BY <1>1, <1>6
<1>8. ASSUME NEW n \in T PROVE n + 1 \in T
    <2>1. ASSUME n + 1 <= MaxObjects PROVE sum[n + 1] \in Int
        <3>1. n + 1 \in 0..MaxObjects /\ n + 1 \in Objects /\ n + 1 # 0 /\ (n + 1) - 1 = n
            BY <1>1, <2>1
        <3>2. sum[n + 1] = sum[n] + f[n + 1]
            BY <1>6, <3>1
        <3>3. f[n + 1] \in Int
            BY <3>1
        <3>4. sum[n] \in Int
            BY <1>1, <1>8, <2>1
        <3>5. QED
            BY <3>2, <3>3, <3>4
    <2>2. QED
        BY <2>1
<1>9. T = Nat
    BY <1>7, <1>8, NatSet
<1>10. \A o \in 0..MaxObjects : sum[o] \in Int
    BY <1>1, <1>9
<1>11. PartialSums(sum, f)
    <2>1. sum \in [0..MaxObjects -> Int]
        BY <1>6, <1>10
    <2>2. QED
        BY <1>1, <1>6, <2>1 DEF PartialSums
<1>12. QED
    BY <1>5, <1>11

\* One counter goes up or down, and the sum with it.
LEMMA SumChange ==
    ASSUME NEW f \in [Objects -> Int], NEW o \in Objects, NEW d \in Int
    PROVE  /\ [f EXCEPT ![o] = @ + d] \in [Objects -> Int]
           /\ Sum(f) \in Int
           /\ Sum([f EXCEPT ![o] = @ + d]) = Sum(f) + d
<1> DEFINE g == [f EXCEPT ![o] = @ + d]
<1>1. /\ g \in [Objects -> Int] /\ g[o] = f[o] + d
      /\ \A x \in Objects : x # o => g[x] = f[x]
    OBVIOUS
<1> HIDE DEF g
<1>2. MaxObjects \in Nat \ {0} /\ Objects = 1..MaxObjects
    BY UpdaterAssumption DEF Objects
<1>3. PICK s : PartialSums(s, f) /\ Sum(f) = s[MaxObjects]
    BY SumOfSums
<1>4. PICK r : PartialSums(r, g) /\ Sum(g) = r[MaxObjects]
    BY <1>1, SumOfSums
<1> DEFINE T == {n \in Nat : n <= MaxObjects => r[n] = s[n] + IF n < o THEN 0 ELSE d}
<1>5. 0 \in T
    BY <1>2, <1>3, <1>4 DEF PartialSums
<1>6. ASSUME NEW n \in T PROVE n + 1 \in T
    <2> SUFFICES ASSUME n + 1 <= MaxObjects
                 PROVE  r[n + 1] = s[n + 1] + IF n + 1 < o THEN 0 ELSE d
        BY <1>6
    <2>1. /\ r[n] = s[n] + IF n < o THEN 0 ELSE d
          /\ n + 1 \in Objects /\ n \in 0..MaxObjects /\ (n + 1) - 1 = n
        BY <1>2
    <2>2. /\ r[n + 1] = r[n] + g[n + 1] /\ s[n + 1] = s[n] + f[n + 1]
          /\ s[n] \in Int /\ f[n + 1] \in Int
        BY <1>3, <1>4, <2>1 DEF PartialSums
    <2>3. g[n + 1] = IF n + 1 = o THEN f[n + 1] + d ELSE f[n + 1]
        BY <1>1, <2>1
    <2>4. QED
        BY <1>2, <2>1, <2>2, <2>3
<1>7. T = Nat
    BY <1>5, <1>6, NatSet
<1>8. r[MaxObjects] = s[MaxObjects] + d /\ s[MaxObjects] \in Int
    <2>1. MaxObjects \in T
        BY <1>2, <1>7, Zenon
    <2>2. QED
        BY <1>2, <1>3, <2>1 DEF PartialSums
<1>9. QED
    BY <1>1, <1>3, <1>4, <1>8 DEF g

\* Where the later objects count nothing the sum is what the first one counts.
LEMMA SumOfFirst ==
    ASSUME NEW f \in [Objects -> Int], \A o \in Objects : o > 1 => f[o] = 0
    PROVE  Sum(f) = f[1]
<1>1. MaxObjects \in Nat \ {0} /\ Objects = 1..MaxObjects
    BY UpdaterAssumption DEF Objects
<1>2. PICK s : PartialSums(s, f) /\ Sum(f) = s[MaxObjects]
    BY SumOfSums
<1> DEFINE T == {n \in Nat : n + 1 <= MaxObjects => s[n + 1] = f[1]}
<1>3. 0 \in T
    BY <1>1, <1>2 DEF PartialSums
<1>4. ASSUME NEW n \in T PROVE n + 1 \in T
    <2> SUFFICES ASSUME n + 2 <= MaxObjects PROVE s[n + 2] = f[1]
        BY <1>4
    <2>1. n + 2 \in Objects /\ n + 2 > 1 /\ (n + 2) - 1 = n + 1 /\ s[n + 1] = f[1] /\ 1 \in Objects
        BY <1>1
    <2>2. s[n + 2] = s[n + 1] + f[n + 2]
        BY <1>2, <2>1 DEF PartialSums
    <2>3. QED
        BY <2>1, <2>2
<1>5. T = Nat
    BY <1>3, <1>4, NatSet
<1>6. MaxObjects - 1 \in T
    <2>1. MaxObjects - 1 \in Nat
        BY <1>1
    <2>2. QED
        BY <1>5, <2>1, Zenon
<1>7. QED
    BY <1>1, <1>2, <1>6

-----------------------------------------------------------------------------
(* Calls of UpdatePeers. *)

\* Nothing of peer q's objects and statuses changes.
Same(q) ==
    /\ peers'[q] = peers[q] /\ made'[q] = made[q]
    /\ total'[q] = total[q] /\ seeders'[q] = seeders[q]
    /\ status'[q] = status[q] /\ owner'[q] = owner[q]

LEMMA SetChange ==
    ASSUME NEW S, IsFiniteSet(S), NEW A, IsFiniteSet(A), A \intersect S = {},
           NEW R, R \subseteq S
    PROVE  /\ Cardinality(S) \in Nat /\ Cardinality(A) \in Nat /\ Cardinality(R) \in Nat
           /\ Cardinality((S \union A) \ R) = Cardinality(S) + Cardinality(A) - Cardinality(R)
<1>1. IsFiniteSet(R)
    BY FS_Subset
<1>2. Cardinality(S) \in Nat /\ Cardinality(A) \in Nat /\ Cardinality(R) \in Nat
    BY <1>1, FS_CardinalityType
<1>3. S \intersect A = {} /\ (S \union A) \intersect R = R
    OBVIOUS
<1>4. /\ IsFiniteSet(S \union A)
      /\ Cardinality(S \union A) = Cardinality(S) + Cardinality(A)
    BY <1>2, <1>3, FS_Union, FS_EmptySet
<1>5. Cardinality((S \union A) \ R) = Cardinality(S \union A) - Cardinality(R)
    <2> DEFINE U == S \union A
    <2>1. IsFiniteSet(U) /\ U \intersect R = R
        BY <1>3, <1>4
    <2> HIDE DEF U
    <2>2. Cardinality(U \ R) = Cardinality(U) - Cardinality(R)
        BY <2>1, FS_Difference
    <2>3. QED
        BY <2>2 DEF U
<1>6. QED
    BY <1>2, <1>4, <1>5

LEMMA Finite ==
    ASSUME NEW S \in SUBSET Packages
    PROVE  IsFiniteSet(S) /\ Cardinality(S) \in Nat
BY UpdaterAssumption, FS_Subset, FS_CardinalityType

LEMMA SumUnmade ==
    ASSUME UpdaterInv, NEW q \in Peers, made[q] = 0
    PROVE  Entries(q) = {} /\ Seeds(q) = {}
<1>1. \A p \in Packages : status[q][p] = "none"
    BY UpdaterAssumption DEF UpdaterInv, TypeInv, ObjectTypes, StatusOK
<1>2. QED
    BY <1>1 DEF Entries, Seeds

LEMMA AddFacts ==
    ASSUME UpdaterInv, NEW q \in Peers, PeerAdded(q), UNCHANGED interested
    PROVE  /\ ObjectTypes'
           /\ peers'[q] = made'[q] /\ peers'[q] # 0 /\ made[q] <= made'[q]
           /\ StatusOK(q)' /\ CountOK(q)'
           /\ \A r \in Peers : r # q => Same(r)
<1> DEFINE o       == IF peers[q] = 0 THEN made[q] + 1 ELSE peers[q]
           added   == {p \in interested : known[q][p] # "no" /\ status[q][p] = "none"}
           removed == {p \in interested : known[q][p] = "no" /\ status[q][p] # "none"}
           news    == {p \in added : known[q][p] = "all"}
           gone    == removed \intersect Seeds(q)
           d       == Cardinality(added) - Cardinality(removed)
           e       == Cardinality(news) - Cardinality(gone)
<1>1. /\ MaxObjects \in Nat \ {0} /\ Objects = 1..MaxObjects
      /\ o \in Objects /\ 1 \in Objects
      /\ made[q] \in 0..MaxObjects /\ peers[q] \in {0, made[q]}
    BY UpdaterAssumption DEF Objects, PeerAdded, UpdaterInv, TypeInv, ObjectTypes, PeerOK
<1>2. /\ added \subseteq Packages /\ removed \subseteq Entries(q) /\ added \intersect Entries(q) = {}
      /\ news \subseteq Packages /\ gone \subseteq Seeds(q) /\ news \intersect Seeds(q) = {}
      /\ Entries(q) \subseteq Packages /\ Seeds(q) \subseteq Packages
    BY DEF UpdaterInv, TypeInv, Entries, Seeds
<1>3. /\ peers' = [peers EXCEPT ![q] = o]
      /\ made' = IF peers[q] = 0 THEN [made EXCEPT ![q] = o] ELSE made
      /\ status' = [status EXCEPT ![q] =
                       [p \in Packages |-> IF p \in added THEN Announced(q, p)
                                           ELSE IF p \in removed THEN "none" ELSE @[p]]]
      /\ owner' = [owner EXCEPT ![q] =
                       [p \in Packages |-> IF p \in added THEN o
                                           ELSE IF p \in removed THEN 0 ELSE @[p]]]
      /\ total' = [total EXCEPT ![q][o] = @ + Cardinality(added) - Cardinality(removed)]
      /\ seeders' = [seeders EXCEPT ![q][o] = @ + Cardinality(news) - Cardinality(gone)]
    BY Zenon DEF PeerAdded
<1> HIDE DEF o, news, gone
<1>4. /\ Cardinality(added) \in Nat /\ Cardinality(removed) \in Nat
      /\ Cardinality(news) \in Nat /\ Cardinality(gone) \in Nat
      /\ d \in Int /\ e \in Int
    BY <1>2, Finite
<1> HIDE DEF added, removed
<1>5. /\ total' = [total EXCEPT ![q] = [total[q] EXCEPT ![o] = @ + d]]
      /\ seeders' = [seeders EXCEPT ![q] = [seeders[q] EXCEPT ![o] = @ + e]]
    BY <1>1, <1>3, <1>4 DEF UpdaterInv, TypeInv, ObjectTypes
<1>6. total[q] \in [Objects -> Int] /\ seeders[q] \in [Objects -> Int]
    BY DEF UpdaterInv, TypeInv, ObjectTypes
<1> HIDE DEF d, e
<1>7. /\ total'[q] = [total[q] EXCEPT ![o] = @ + d] /\ total'[q] \in [Objects -> Int]
      /\ seeders'[q] = [seeders[q] EXCEPT ![o] = @ + e] /\ seeders'[q] \in [Objects -> Int]
    BY <1>1, <1>4, <1>5, <1>6 DEF UpdaterInv, TypeInv, ObjectTypes
<1>8. peers'[q] = o /\ made'[q] = o /\ made[q] <= made'[q]
    BY <1>1, <1>3 DEF UpdaterInv, TypeInv, ObjectTypes, o
<1>9. ObjectTypes'
    <2>1. peers' \in [Peers -> 0..MaxObjects] /\ made' \in [Peers -> 0..MaxObjects]
        BY <1>1, <1>3 DEF UpdaterInv, TypeInv, ObjectTypes
    <2>2. total' \in [Peers -> [Objects -> Int]] /\ seeders' \in [Peers -> [Objects -> Int]]
        BY <1>5, <1>7 DEF UpdaterInv, TypeInv, ObjectTypes
    <2>3. status' \in [Peers -> [Packages -> {"none", "unknown", "part", "all"}]]
        BY <1>3 DEF UpdaterInv, TypeInv, ObjectTypes, Announced
    <2>4. owner' \in [Peers -> [Packages -> 0..MaxObjects]]
        BY <1>1, <1>3 DEF UpdaterInv, TypeInv, ObjectTypes
    <2>5. QED
        BY <2>1, <2>2, <2>3, <2>4 DEF ObjectTypes
<1>10. \A r \in Peers : r # q => Same(r)
    BY <1>3, <1>5 DEF Same, UpdaterInv, TypeInv, ObjectTypes
<1>11. \A p \in Packages :
        /\ status'[q][p] = IF p \in added THEN Announced(q, p)
                           ELSE IF p \in removed THEN "none" ELSE status[q][p]
        /\ owner'[q][p] = IF p \in added THEN o
                          ELSE IF p \in removed THEN 0 ELSE owner[q][p]
    BY <1>3 DEF UpdaterInv, TypeInv, ObjectTypes
<1>12. StatusOK(q)'
    BY <1>1, <1>8, <1>11 DEF StatusOK, UpdaterInv, Announced, added, removed
<1>13. /\ Entries(q)' = (Entries(q) \union added) \ removed
       /\ Seeds(q)' = (Seeds(q) \union news) \ gone
    BY <1>2, <1>11 DEF Entries, Seeds, Announced, news, gone, added
<1>14. /\ Cardinality(Entries(q))' = Cardinality(Entries(q)) + d
       /\ Cardinality(Seeds(q))' = Cardinality(Seeds(q)) + e
       /\ Cardinality(Entries(q)) \in Nat /\ Cardinality(Seeds(q)) \in Nat
    <2>1. /\ IsFiniteSet(Entries(q)) /\ IsFiniteSet(added)
          /\ IsFiniteSet(Seeds(q)) /\ IsFiniteSet(news)
          /\ Cardinality(Entries(q)) \in Nat /\ Cardinality(Seeds(q)) \in Nat
        <3>1. added \in SUBSET Packages /\ news \in SUBSET Packages
              /\ Entries(q) \in SUBSET Packages /\ Seeds(q) \in SUBSET Packages
            BY <1>2
        <3>2. QED
            BY <3>1, Finite
    <2>2. Cardinality((Entries(q) \union added) \ removed) =
                Cardinality(Entries(q)) + Cardinality(added) - Cardinality(removed)
        BY <1>2, <2>1, SetChange
    <2>3. Cardinality((Seeds(q) \union news) \ gone) =
                Cardinality(Seeds(q)) + Cardinality(news) - Cardinality(gone)
        <3>1. news \intersect Seeds(q) = {} /\ gone \subseteq Seeds(q)
            BY <1>2
        <3>2. QED
            BY <2>1, <3>1, SetChange
    <2>4. QED
        BY <1>4, <1>13, <2>1, <2>2, <2>3 DEF d, e
<1>15. CountOK(q)'
    <2>1. Sum(total'[q]) = Cardinality(Entries(q))'
        <3>1. Sum(total'[q]) = Sum(total[q]) + d
            <4>1. Sum([total[q] EXCEPT ![o] = @ + d]) = Sum(total[q]) + d
                BY <1>1, <1>4, <1>6, SumChange
            <4>2. total'[q] = [total[q] EXCEPT ![o] = @ + d]
                BY <1>7
            <4>3. QED
                BY <4>1, <4>2
        <3>2. Sum(total[q]) = Cardinality(Entries(q))
            BY DEF UpdaterInv, CountOK
        <3>3. QED
            BY <1>14, <3>1, <3>2
    <2>2. ASSUME made'[q] = 1, peers'[q] # 0 PROVE seeders'[q][1] = Cardinality(Seeds(q))'
        <3>1. o = 1 /\ seeders'[q][1] = seeders[q][1] + e
            BY <1>1, <1>4, <1>6, <1>7, <1>8, <2>2
        <3>2. CASE peers[q] = 0
            <4>1. made[q] = 0
                BY <1>1, <3>1, <3>2 DEF o
            <4>2. seeders[q][1] = 0 /\ Seeds(q) = {}
                BY <1>1, <4>1, SumUnmade DEF UpdaterInv, CountOK
            <4>3. QED
                BY <1>4, <1>14, <3>1, <4>2, FS_EmptySet DEF e
        <3>3. CASE peers[q] # 0
            <4>1. made[q] = 1
                BY <1>1, <3>1, <3>3 DEF o
            <4>2. seeders[q][1] = Cardinality(Seeds(q))
                BY <3>3, <4>1 DEF UpdaterInv, CountOK
            <4>3. QED
                BY <1>14, <3>1, <4>2
        <3>4. QED
            BY <3>2, <3>3
    <2>3. ASSUME NEW x \in Objects, x > made'[q] PROVE total'[q][x] = 0 /\ seeders'[q][x] = 0
        <3>1. x # o /\ x > made[q]
            BY <1>1, <1>8, <2>3
        <3>2. QED
            BY <1>6, <1>7, <3>1 DEF UpdaterInv, CountOK
    <2>4. QED
        BY <2>1, <2>2, <2>3 DEF CountOK
<1>16. QED
    BY <1>1, <1>8, <1>9, <1>10, <1>12, <1>15

\* One counter of each kind changes as the sets they count do.
LEMMA CountStep ==
    ASSUME UpdaterInv, NEW q \in Peers, NEW o \in 1..made[q], NEW d \in Int, NEW e \in Int,
           total'[q] = [total[q] EXCEPT ![o] = @ + d],
           seeders'[q] = [seeders[q] EXCEPT ![o] = @ + e],
           made'[q] = made[q], peers'[q] \in {0, peers[q]},
           Cardinality(Entries(q))' = Cardinality(Entries(q)) + d,
           Cardinality(Seeds(q))' = Cardinality(Seeds(q)) + e
    PROVE  CountOK(q)'
<1>1. /\ made[q] \in 0..MaxObjects /\ MaxObjects \in Nat \ {0} /\ Objects = 1..MaxObjects
      /\ total[q] \in [Objects -> Int] /\ seeders[q] \in [Objects -> Int]
      /\ CountOK(q)
    BY UpdaterAssumption DEF Objects, UpdaterInv, TypeInv, ObjectTypes
<1>2. o \in Objects
    BY <1>1
<1>3. Sum(total'[q]) = Cardinality(Entries(q))'
    <2>1. Sum([total[q] EXCEPT ![o] = @ + d]) = Sum(total[q]) + d
        <3>1. total[q] \in [Objects -> Int]
            BY <1>1
        <3>2. QED
            BY <1>2, <3>1, SumChange
    <2>2. QED
        BY <1>1, <2>1 DEF CountOK
<1>4. ASSUME made'[q] = 1, peers'[q] # 0 PROVE seeders'[q][1] = Cardinality(Seeds(q))'
    <2>1. o = 1 /\ seeders'[q][1] = seeders[q][1] + e
        BY <1>1, <1>2, <1>4
    <2>2. QED
        BY <1>1, <1>4, <2>1 DEF CountOK
<1>5. ASSUME NEW x \in Objects, x > made'[q] PROVE total'[q][x] = 0 /\ seeders'[q][x] = 0
    <2>1. x # o /\ x > made[q]
        BY <1>1, <1>5
    <2>2. total'[q][x] = total[q][x] /\ seeders'[q][x] = seeders[q][x]
        BY <1>1, <2>1
    <2>3. QED
        BY <1>1, <2>1, <2>2 DEF CountOK
<1>6. QED
    BY <1>3, <1>4, <1>5 DEF CountOK

LEMMA SameOK ==
    ASSUME UpdaterInv, NEW q \in Peers, Same(q)
    PROVE  CountOK(q)'
<1>1. Entries(q)' = Entries(q) /\ Seeds(q)' = Seeds(q)
    BY DEF Same, Entries, Seeds
<1>2. CountOK(q)
    BY DEF UpdaterInv
<1>3. QED
    BY <1>1, <1>2 DEF Same, CountOK

LEMMA RemoveFacts ==
    ASSUME UpdaterInv, NEW q \in Peers, PeerRemoved(q), UNCHANGED interested
    PROVE  /\ ObjectTypes'
           /\ peers'[q] = 0 /\ made' = made
           /\ StatusOK(q)' /\ CountOK(q)'
           /\ \A r \in Peers : r # q => Same(r)
<1>1. /\ peers[q] \in {0, made[q]} /\ made[q] \in 0..MaxObjects
      /\ MaxObjects \in Nat \ {0} /\ Objects = 1..MaxObjects
    BY UpdaterAssumption DEF Objects, UpdaterInv, TypeInv, ObjectTypes, PeerOK
<1>2. /\ Entries(q) \in SUBSET Packages /\ Seeds(q) \in SUBSET Packages
      /\ Cardinality(Entries(q)) \in Nat /\ Cardinality(Seeds(q)) \in Nat
    BY Finite DEF Entries, Seeds
<1>3. peers' = [peers EXCEPT ![q] = 0] /\ made' = made
    BY DEF PeerRemoved
<1>4. peers'[q] = 0 /\ peers' \in [Peers -> 0..MaxObjects]
    BY <1>1, <1>3 DEF UpdaterInv, TypeInv, ObjectTypes
<1>5. CASE peers[q] = 0
    <2>1. UNCHANGED <<counters, statuses>>
        BY <1>5 DEF PeerRemoved
    <2>2. \A r \in Peers : Same(r)
        BY <1>3, <1>5, <2>1 DEF Same, counters, statuses, UpdaterInv, TypeInv, ObjectTypes
    <2>3. ObjectTypes'
        BY <1>3, <1>4, <2>1 DEF ObjectTypes, counters, statuses, UpdaterInv, TypeInv
    <2>4. QED
        BY <1>3, <1>4, <2>1, <2>2, <2>3, SameOK DEF StatusOK, statuses, UpdaterInv
<1>6. CASE peers[q] # 0
    <2> DEFINE o == peers[q]
               d == -Cardinality(Entries(q))
               e == -Cardinality(Seeds(q))
    <2>1. /\ status' = [status EXCEPT ![q] = [p \in Packages |-> "none"]]
          /\ owner' = [owner EXCEPT ![q] = [p \in Packages |-> 0]]
          /\ total' = [total EXCEPT ![q][o] = @ - Cardinality(Entries(q))]
          /\ seeders' = [seeders EXCEPT ![q][o] = @ - Cardinality(Seeds(q))]
        BY <1>6, Zenon DEF PeerRemoved
    <2>2. d \in Int /\ e \in Int /\ o \in Objects /\ o \in 1..made[q]
        BY <1>1, <1>2, <1>6
    <2>3. total[q] \in [Objects -> Int] /\ seeders[q] \in [Objects -> Int]
        BY DEF UpdaterInv, TypeInv, ObjectTypes
    <2>4. /\ total' = [total EXCEPT ![q] = [total[q] EXCEPT ![o] = @ + d]]
          /\ seeders' = [seeders EXCEPT ![q] = [seeders[q] EXCEPT ![o] = @ + e]]
        BY <1>2, <2>1, <2>2, <2>3
    <2>5. Entries(q)' = {} /\ Seeds(q)' = {}
        BY <2>1 DEF Entries, Seeds, UpdaterInv, TypeInv, ObjectTypes
    <2>6. /\ Cardinality(Entries(q))' = Cardinality(Entries(q)) + d
          /\ Cardinality(Seeds(q))' = Cardinality(Seeds(q)) + e
        BY <1>2, <2>5, FS_EmptySet
    <2> HIDE DEF d, e
    <2>7. /\ total'[q] = [total[q] EXCEPT ![o] = @ + d]
          /\ seeders'[q] = [seeders[q] EXCEPT ![o] = @ + e]
        BY <2>4 DEF UpdaterInv, TypeInv, ObjectTypes
    <2>8. CountOK(q)'
        BY <1>3, <1>4, <2>2, <2>6, <2>7, CountStep
    <2>9. ObjectTypes'
        <3>1. total'[q] \in [Objects -> Int] /\ seeders'[q] \in [Objects -> Int]
            BY <2>2, <2>3, <2>7
        <3>2. total' \in [Peers -> [Objects -> Int]] /\ seeders' \in [Peers -> [Objects -> Int]]
            BY <2>4, <3>1 DEF UpdaterInv, TypeInv, ObjectTypes
        <3>3. /\ status' \in [Peers -> [Packages -> {"none", "unknown", "part", "all"}]]
              /\ owner' \in [Peers -> [Packages -> 0..MaxObjects]]
            BY <1>1, <2>1 DEF UpdaterInv, TypeInv, ObjectTypes
        <3>4. QED
            BY <1>3, <1>4, <3>2, <3>3 DEF ObjectTypes, UpdaterInv, TypeInv
    <2>10. StatusOK(q)'
        BY <1>1, <1>3, <2>1 DEF StatusOK, UpdaterInv, TypeInv, ObjectTypes
    <2>11. \A r \in Peers : r # q => Same(r)
        BY <1>3, <2>1, <2>4 DEF Same, UpdaterInv, TypeInv, ObjectTypes
    <2>12. QED
        BY <1>3, <1>4, <2>8, <2>9, <2>10, <2>11
<1>7. QED
    BY <1>5, <1>6

\* How many statuses, and how many of a seeder, there are more with v in the place of
\* what q has for p.
EntryDelta(q, p, v) == (IF v = "none" THEN 0 ELSE 1) - (IF status[q][p] = "none" THEN 0 ELSE 1)
SeedDelta(q, p, v)  == (IF v = "all" THEN 1 ELSE 0) - (IF status[q][p] = "all" THEN 1 ELSE 0)

\* One status of a peer is replaced.
LEMMA StatusChange ==
    ASSUME UpdaterInv, NEW q \in Peers, NEW p \in Packages, NEW v,
           status'[q] = [status[q] EXCEPT ![p] = v]
    PROVE  /\ Cardinality(Entries(q))' = Cardinality(Entries(q)) + EntryDelta(q, p, v)
           /\ Cardinality(Seeds(q))' = Cardinality(Seeds(q)) + SeedDelta(q, p, v)
<1>1. /\ IsFiniteSet(Entries(q)) /\ Cardinality(Entries(q)) \in Nat
      /\ IsFiniteSet(Seeds(q)) /\ Cardinality(Seeds(q)) \in Nat
    BY Finite DEF Entries, Seeds
<1>2. /\ status'[q][p] = v
      /\ \A r \in Packages : r # p => status'[q][r] = status[q][r]
    BY DEF UpdaterInv, TypeInv, ObjectTypes
<1>3. /\ Entries(q)' = IF v = "none" THEN Entries(q) \ {p} ELSE Entries(q) \union {p}
      /\ Seeds(q)' = IF v = "all" THEN Seeds(q) \union {p} ELSE Seeds(q) \ {p}
      /\ p \in Entries(q) <=> status[q][p] # "none"
      /\ p \in Seeds(q) <=> status[q][p] = "all"
    BY <1>2 DEF Entries, Seeds
<1>4. /\ Cardinality(Entries(q) \union {p}) =
            IF p \in Entries(q) THEN Cardinality(Entries(q)) ELSE Cardinality(Entries(q)) + 1
      /\ Cardinality(Seeds(q) \union {p}) =
            IF p \in Seeds(q) THEN Cardinality(Seeds(q)) ELSE Cardinality(Seeds(q)) + 1
    BY <1>1, FS_AddElement
<1>5. /\ Cardinality(Entries(q) \ {p}) =
            IF p \in Entries(q) THEN Cardinality(Entries(q)) - 1 ELSE Cardinality(Entries(q))
      /\ Cardinality(Seeds(q) \ {p}) =
            IF p \in Seeds(q) THEN Cardinality(Seeds(q)) - 1 ELSE Cardinality(Seeds(q))
    BY <1>1, FS_RemoveElement
<1>6. QED
    BY <1>1, <1>3, <1>4, <1>5 DEF EntryDelta, SeedDelta

-----------------------------------------------------------------------------
(* Steps. *)

\* What a step does to polls: idle ones ask for nothing, others keep to objects the
\* peer had before the step.
PollMove ==
    /\ poll' \in [Peers -> [PollIds -> Polls]]
    /\ \A r \in Peers, i \in PollIds :
        IF poll'[r][i].stage = "idle" THEN poll'[r][i].asked = {}
        ELSE poll'[r][i].object \in 1..made[r]

LEMMA PollStays ==
    ASSUME UpdaterInv, UNCHANGED poll
    PROVE  PollMove
BY DEF PollMove, UpdaterInv, TypeInv, PollOK

LEMMA PollChanges ==
    ASSUME UpdaterInv, NEW q \in Peers, NEW i \in PollIds, NEW w \in Polls,
           poll' = [poll EXCEPT ![q][i] = w],
           IF w.stage = "idle" THEN w.asked = {} ELSE w.object \in 1..made[q]
    PROVE  PollMove
<1>1. /\ poll' = [poll EXCEPT ![q] = [poll[q] EXCEPT ![i] = w]]
      /\ poll \in [Peers -> [PollIds -> Polls]]
    BY DEF UpdaterInv, TypeInv
<1>2. /\ poll' \in [Peers -> [PollIds -> Polls]]
      /\ \A r \in Peers, j \in PollIds : poll'[r][j] = IF r = q /\ j = i THEN w ELSE poll[r][j]
    BY <1>1
<1>3. QED
    BY <1>2 DEF PollMove, UpdaterInv, PollOK

LEMMA PollFields ==
    ASSUME UpdaterInv, NEW q \in Peers, NEW i \in PollIds
    PROVE  /\ poll[q][i] \in Polls /\ Idle \in Polls
           /\ poll[q][i].stage # "idle" => poll[q][i].object \in 1..made[q]
           /\ poll[q][i].stage = "idle" => poll[q][i].asked = {}
<1>1. poll[q][i] \in Polls /\ PollOK(q)
    BY DEF UpdaterInv, TypeInv
<1>2. Idle \in Polls
    BY UpdaterAssumption DEF Idle, Polls
<1>3. QED
    BY <1>1, <1>2 DEF PollOK

LEMMA AddStep ==
    ASSUME UpdaterInv, PollMove, NEW q \in Peers, PeerAdded(q),
           UNCHANGED <<known, interested>>, enabled' \subseteq enabled \union {q}
    PROVE  UpdaterInv'
<1>1. /\ ObjectTypes'
      /\ peers'[q] = made'[q] /\ peers'[q] # 0 /\ made[q] <= made'[q]
      /\ StatusOK(q)' /\ CountOK(q)'
      /\ \A r \in Peers : r # q => Same(r)
    BY AddFacts
<1>2. TypeInv'
    BY <1>1 DEF TypeInv, UpdaterInv, PollMove
<1>3. ASSUME NEW r \in Peers, r # q
      PROVE  PeerOK(r)' /\ StatusOK(r)' /\ CountOK(r)'
    BY <1>1, <1>3, SameOK DEF Same, PeerOK, StatusOK, UpdaterInv
<1>4. PeerOK(q)'
    BY <1>1 DEF PeerOK
<1>5. ASSUME NEW r \in Peers PROVE PollOK(r)'
    <2>1. made[r] <= made'[r] /\ made[r] \in Nat /\ made'[r] \in Nat
        <3>1. made'[r] = made[r] \/ r = q
            BY <1>1 DEF Same
        <3>2. made[r] \in 0..MaxObjects /\ made'[r] \in 0..MaxObjects
            BY <1>1 DEF ObjectTypes, UpdaterInv, TypeInv
        <3>3. QED
            BY <1>1, <3>1, <3>2, UpdaterAssumption
    <2>2. QED
        BY <2>1 DEF PollMove, PollOK
<1>6. QED
    BY <1>1, <1>2, <1>3, <1>4, <1>5 DEF UpdaterInv

LEMMA RemoveStep ==
    ASSUME UpdaterInv, PollMove, NEW q \in Peers, PeerRemoved(q),
           UNCHANGED <<known, interested>>, enabled' \subseteq enabled \ {q}
    PROVE  UpdaterInv'
<1>1. /\ ObjectTypes'
      /\ peers'[q] = 0 /\ made' = made
      /\ StatusOK(q)' /\ CountOK(q)'
      /\ \A r \in Peers : r # q => Same(r)
    BY RemoveFacts
<1>2. TypeInv'
    BY <1>1 DEF TypeInv, UpdaterInv, PollMove
<1>3. ASSUME NEW r \in Peers, r # q
      PROVE  PeerOK(r)' /\ StatusOK(r)' /\ CountOK(r)'
    BY <1>1, <1>3, SameOK DEF Same, PeerOK, StatusOK, UpdaterInv
<1>4. PeerOK(q)'
    BY <1>1 DEF PeerOK
<1>5. ASSUME NEW r \in Peers PROVE PollOK(r)'
    BY <1>1 DEF PollMove, PollOK
<1>6. QED
    BY <1>1, <1>2, <1>3, <1>4, <1>5 DEF UpdaterInv

LEMMA QuietStep ==
    ASSUME UpdaterInv, PollMove, known' \in [Peers -> [Packages -> {"no", "part", "all"}]],
           UNCHANGED <<enabled, interested, peers, made, counters, statuses>>
    PROVE  UpdaterInv'
<1>1. TypeInv'
    BY DEF UpdaterInv, TypeInv, ObjectTypes, counters, statuses, PollMove
<1>2. ASSUME NEW r \in Peers
      PROVE  PeerOK(r)' /\ StatusOK(r)' /\ CountOK(r)' /\ PollOK(r)'
    <2>1. Same(r)
        BY DEF Same, counters, statuses
    <2>2. PeerOK(r)' /\ StatusOK(r)'
        BY DEF PeerOK, StatusOK, UpdaterInv, counters, statuses
    <2>3. PollOK(r)'
        BY DEF PollMove, PollOK
    <2>4. QED
        BY <2>1, <2>2, <2>3, SameOK
<1>3. QED
    BY <1>1, <1>2 DEF UpdaterInv

\* Steps of the registry, and polls that are sent, fail or come back.
LEMMA PeerStepKeeps ==
    ASSUME UpdaterInv, NEW q \in Peers, PeerStep(q)
    PROVE  UpdaterInv'
<1>1. CASE Discover(q) \/ Reenable(q) \/ KnownPackageChanged(q)
    <2>1. /\ PeerAdded(q) /\ UNCHANGED <<known, interested, poll>>
          /\ enabled' \subseteq enabled \union {q}
        BY <1>1 DEF Discover, Reenable, KnownPackageChanged
    <2>2. QED
        BY <2>1, PollStays, AddStep
<1>2. CASE Disable(q)
    BY <1>2, PollStays, RemoveStep DEF Disable
<1>3. CASE ReplaceKnownPackages(q)
    <2>1. known' \in [Peers -> [Packages -> {"no", "part", "all"}]]
        BY <1>3 DEF ReplaceKnownPackages, UpdaterInv, TypeInv
    <2>2. QED
        BY <1>3, <2>1, PollStays, QuietStep DEF ReplaceKnownPackages
<1>4. ASSUME NEW p \in Packages, RemoveKnownPackage(q, p) PROVE UpdaterInv'
    <2>1. known' \in [Peers -> [Packages -> {"no", "part", "all"}]]
        BY <1>4 DEF RemoveKnownPackage, UpdaterInv, TypeInv
    <2>2. QED
        BY <1>4, <2>1, PollStays, QuietStep DEF RemoveKnownPackage
<1>5. CASE SendPoll(q)
    <2> DEFINE w == [object |-> peers[q], asked |-> interested, stage |-> "sent"]
    <2>1. PICK i \in PollIds : poll' = [poll EXCEPT ![q][i] = w]
        BY <1>5 DEF SendPoll
    <2>2. peers[q] \in 1..made[q] /\ peers[q] \in 0..MaxObjects
        BY <1>5, UpdaterAssumption DEF SendPoll, DoUpdateStatus, UpdaterInv, PeerOK, TypeInv, ObjectTypes
    <2>3. w \in Polls /\ w.stage = "sent" /\ w.object = peers[q]
        BY <2>2 DEF Polls, UpdaterInv, TypeInv
    <2> HIDE DEF w
    <2>4. PollMove
        BY <2>1, <2>2, <2>3, PollChanges
    <2>5. UNCHANGED <<known, enabled, interested, peers, made, counters, statuses>>
        BY <1>5 DEF SendPoll, registry
    <2>6. QED
        BY <2>4, <2>5, QuietStep DEF UpdaterInv, TypeInv
<1>6. QED
    BY <1>1, <1>2, <1>3, <1>4, <1>5 DEF PeerStep

LEMMA PollStepKeeps ==
    ASSUME UpdaterInv, NEW q \in Peers, NEW i \in PollIds,
           PollFails(q, i) \/ PollAnswered(q, i) \/ ApplyClientStatus(q, i) \/ EndApply(q, i)
    PROVE  UpdaterInv'
<1>1. /\ poll[q][i] \in Polls /\ Idle \in Polls
      /\ poll[q][i].stage # "idle" => poll[q][i].object \in 1..made[q]
    BY PollFields
<1>2. known' = known /\ known \in [Peers -> [Packages -> {"no", "part", "all"}]]
    BY DEF PollFails, PollAnswered, ApplyClientStatus, EndApply, registry, UpdaterInv, TypeInv
<1>3. PollMove
    <2>1. CASE PollFails(q, i) \/ EndApply(q, i)
        <3>1. poll' = [poll EXCEPT ![q][i] = Idle] /\ Idle.stage = "idle" /\ Idle.asked = {}
            BY <2>1 DEF PollFails, EndApply, Idle
        <3>2. QED
            BY <1>1, <3>1, PollChanges
    <2>2. CASE PollAnswered(q, i)
        <3> DEFINE w == [poll[q][i] EXCEPT !.stage = "answered"]
        <3>1. /\ w \in Polls /\ w.stage = "answered" /\ w.object = poll[q][i].object
              /\ poll[q][i].stage = "sent"
            BY <1>1, <2>2 DEF Polls, PollAnswered
        <3>2. poll' = [poll EXCEPT ![q][i] = w]
            BY <2>2 DEF PollAnswered, UpdaterInv, TypeInv
        <3> HIDE DEF w
        <3>3. QED
            BY <1>1, <3>1, <3>2, PollChanges
    <2>3. CASE ApplyClientStatus(q, i)
        BY <2>3, PollStays DEF ApplyClientStatus
    <2>4. QED
        BY <2>1, <2>2, <2>3
<1>4. CASE PollFails(q, i)
    BY <1>2, <1>3, <1>4, RemoveStep, QuietStep DEF PollFails
<1>5. CASE PollAnswered(q, i)
    <2>1. CASE q \in enabled
        BY <1>2, <1>3, <1>5, <2>1, QuietStep DEF PollAnswered
    <2>2. CASE q \notin enabled
        BY <1>2, <1>3, <1>5, <2>2, AddStep DEF PollAnswered
    <2>3. QED
        BY <2>1, <2>2
<1>6. CASE ApplyClientStatus(q, i) \/ EndApply(q, i)
    BY <1>2, <1>3, <1>6, QuietStep DEF ApplyClientStatus, EndApply, registry
<1>7. QED
    BY <1>4, <1>5, <1>6

\* One status of a peer is replaced by v, and object o counts the change.
Replaces(q, p, o, v) ==
    /\ status'[q] = [status[q] EXCEPT ![p] = v]
    /\ owner'[q] = [owner[q] EXCEPT ![p] = IF v = "none" THEN 0
                                           ELSE IF status[q][p] = "none" THEN o ELSE owner[q][p]]
    /\ total'[q] = [total[q] EXCEPT ![o] = @ + EntryDelta(q, p, v)]
    /\ seeders'[q] = [seeders[q] EXCEPT ![o] = @ + SeedDelta(q, p, v)]
    /\ made'[q] = made[q] /\ peers'[q] \in {0, peers[q]}
    /\ v # "none" => p \in interested'
    /\ \A r \in interested \ {p} : r \in interested'

LEMMA StatusStep ==
    ASSUME UpdaterInv, NEW q \in Peers, NEW p \in Packages, NEW o \in 1..made[q],
           NEW v \in {"none", "unknown", "part", "all"}, Replaces(q, p, o, v)
    PROVE  /\ StatusOK(q)' /\ CountOK(q)'
           /\ total'[q] \in [Objects -> Int] /\ seeders'[q] \in [Objects -> Int]
           /\ status'[q] \in [Packages -> {"none", "unknown", "part", "all"}]
           /\ owner'[q] \in [Packages -> 0..MaxObjects]
<1> DEFINE d == EntryDelta(q, p, v)
           e == SeedDelta(q, p, v)
           w == IF v = "none" THEN 0 ELSE IF status[q][p] = "none" THEN o ELSE owner[q][p]
<1>0. /\ status'[q] = [status[q] EXCEPT ![p] = v]
      /\ owner'[q] = [owner[q] EXCEPT ![p] = w]
      /\ total'[q] = [total[q] EXCEPT ![o] = @ + d]
      /\ seeders'[q] = [seeders[q] EXCEPT ![o] = @ + e]
      /\ made'[q] = made[q] /\ peers'[q] \in {0, peers[q]}
      /\ v # "none" => p \in interested'
      /\ \A r \in interested \ {p} : r \in interested'
      /\ d \in Int /\ e \in Int
    BY DEF Replaces, EntryDelta, SeedDelta
<1>1. /\ total[q] \in [Objects -> Int] /\ seeders[q] \in [Objects -> Int]
      /\ status[q] \in [Packages -> {"none", "unknown", "part", "all"}]
      /\ owner[q] \in [Packages -> 0..MaxObjects]
      /\ made[q] \in 0..MaxObjects /\ MaxObjects \in Nat \ {0} /\ Objects = 1..MaxObjects
    BY UpdaterAssumption DEF Objects, UpdaterInv, TypeInv, ObjectTypes
<1>2. o \in Objects /\ w \in 0..made[q] /\ (w = 0 <=> v = "none")
    BY <1>1 DEF UpdaterInv, StatusOK
<1> HIDE DEF w
<1>3. /\ Cardinality(Entries(q))' = Cardinality(Entries(q)) + d
      /\ Cardinality(Seeds(q))' = Cardinality(Seeds(q)) + e
    BY <1>0, StatusChange
<1> HIDE DEF d, e
<1>4. CountOK(q)'
    BY <1>0, <1>3, CountStep
<1>5. /\ total'[q] \in [Objects -> Int] /\ seeders'[q] \in [Objects -> Int]
      /\ status'[q] \in [Packages -> {"none", "unknown", "part", "all"}]
      /\ owner'[q] \in [Packages -> 0..MaxObjects]
    <2>1. w \in 0..MaxObjects
        BY <1>1, <1>2
    <2>2. total'[q] \in [Objects -> Int] /\ seeders'[q] \in [Objects -> Int]
        <3>1. /\ total[q] \in [Objects -> Int] /\ seeders[q] \in [Objects -> Int]
              /\ o \in Objects /\ d \in Int /\ e \in Int
            BY <1>0, <1>1, <1>2
        <3>2. /\ [total[q] EXCEPT ![o] = @ + d] \in [Objects -> Int]
              /\ [seeders[q] EXCEPT ![o] = @ + e] \in [Objects -> Int]
            BY <3>1
        <3>3. QED
            BY <1>0, <3>2
    <2>3. status'[q] \in [Packages -> {"none", "unknown", "part", "all"}]
        BY <1>0, <1>1
    <2>4. owner'[q] \in [Packages -> 0..MaxObjects]
        BY <1>0, <1>1, <2>1
    <2>5. QED
        BY <2>2, <2>3, <2>4
<1>6. \A r \in Packages : /\ owner'[q][r] = IF r = p THEN w ELSE owner[q][r]
                         /\ status'[q][r] = IF r = p THEN v ELSE status[q][r]
    BY <1>0, <1>1
<1>7. StatusOK(q)'
    BY <1>0, <1>2, <1>6 DEF StatusOK, UpdaterInv
<1>8. QED
    BY <1>4, <1>5, <1>7

LEMMA InterestKeeps ==
    ASSUME UpdaterInv, NEW p \in Packages, InterestedInPackage(p)
    PROVE  UpdaterInv'
<1> DEFINE adds(q) == peers[q] # 0 /\ known[q][p] # "no"
<1>1. /\ p \notin interested /\ interested' = interested \union {p}
      /\ UNCHANGED <<registry, peers, made, poll>>
    BY DEF InterestedInPackage
<1>2. ASSUME NEW q \in Peers
      PROVE  /\ StatusOK(q)' /\ CountOK(q)'
             /\ total'[q] \in [Objects -> Int] /\ seeders'[q] \in [Objects -> Int]
             /\ status'[q] \in [Packages -> {"none", "unknown", "part", "all"}]
             /\ owner'[q] \in [Packages -> 0..MaxObjects]
    <2>1. CASE adds(q)
        <3> DEFINE v == Announced(q, p)
                   e == IF v = "all" THEN 1 ELSE 0
        <3>1. /\ status'[q] = [status[q] EXCEPT ![p] = v]
              /\ owner'[q] = [owner[q] EXCEPT ![p] = peers[q]]
              /\ total'[q] = [total[q] EXCEPT ![peers[q]] = @ + 1]
              /\ seeders'[q] = [seeders[q] EXCEPT ![peers[q]] = @ + e]
            <4>1. peers[q] \in Objects /\ seeders[q] \in [Objects -> Int]
                BY <2>1, UpdaterAssumption DEF Objects, UpdaterInv, TypeInv, ObjectTypes
            <4>2. seeders[q] = [seeders[q] EXCEPT ![peers[q]] = @ + 0]
                BY <4>1
            <4>3. QED
                BY <2>1, <4>2 DEF InterestedInPackage, Announced
        <3>2. v \in {"unknown", "all"} /\ e \in Int
            BY DEF Announced
        <3>3. status[q][p] = "none"
            BY <1>1 DEF UpdaterInv, StatusOK
        <3>4. peers[q] \in 1..made[q]
            BY <2>1, UpdaterAssumption DEF UpdaterInv, TypeInv, ObjectTypes, PeerOK
        <3>5. Replaces(q, p, peers[q], v)
            <4>1. EntryDelta(q, p, v) = 1 /\ SeedDelta(q, p, v) = e
                BY <3>2, <3>3 DEF EntryDelta, SeedDelta
            <4> HIDE DEF v, e
            <4>2. QED
                BY <1>1, <3>1, <3>2, <3>3, <4>1 DEF Replaces
        <3> HIDE DEF v
        <3>6. QED
            BY <3>2, <3>4, <3>5, StatusStep
    <2>2. CASE ~adds(q)
        <3>1. Same(q)
            BY <1>1, <2>2 DEF Same, InterestedInPackage
        <3>2. StatusOK(q)'
            BY <1>1, <3>1 DEF Same, StatusOK, UpdaterInv
        <3>3. QED
            BY <3>1, <3>2, SameOK DEF Same, UpdaterInv, TypeInv, ObjectTypes
    <2>3. QED
        BY <2>1, <2>2
<1>3. ObjectTypes'
    <2>1. /\ total' = [q \in Peers |-> total'[q]] /\ seeders' = [q \in Peers |-> seeders'[q]]
          /\ status' = [q \in Peers |-> status'[q]] /\ owner' = [q \in Peers |-> owner'[q]]
        BY DEF InterestedInPackage
    <2>2. QED
        BY <1>1, <1>2, <2>1 DEF ObjectTypes, UpdaterInv, TypeInv
<1>4. TypeInv'
    BY <1>1, <1>3 DEF TypeInv, UpdaterInv, registry
<1>5. ASSUME NEW q \in Peers PROVE PeerOK(q)' /\ PollOK(q)'
    BY <1>1 DEF PeerOK, PollOK, UpdaterInv, registry
<1>6. QED
    BY <1>2, <1>4, <1>5 DEF UpdaterInv

LEMMA NoInterestKeeps ==
    ASSUME UpdaterInv, NEW p \in Packages, NotInterestedInPackage(p)
    PROVE  UpdaterInv'
<1>1. /\ interested' = interested \ {p}
      /\ UNCHANGED <<registry, peers, made, poll>>
    BY DEF NotInterestedInPackage
<1>2. ASSUME NEW q \in Peers
      PROVE  /\ StatusOK(q)' /\ CountOK(q)'
             /\ total'[q] \in [Objects -> Int] /\ seeders'[q] \in [Objects -> Int]
             /\ status'[q] \in [Packages -> {"none", "unknown", "part", "all"}]
             /\ owner'[q] \in [Packages -> 0..MaxObjects]
    <2>1. /\ status'[q] = [status[q] EXCEPT ![p] = "none"]
          /\ owner'[q] = [owner[q] EXCEPT ![p] = 0]
        BY DEF NotInterestedInPackage
    <2>2. CASE status[q][p] # "none"
        <3> DEFINE o == owner[q][p]
                   e == IF status[q][p] = "all" THEN -1 ELSE 0
        <3>1. o \in 1..made[q] /\ o \in Objects
            BY <2>2, UpdaterAssumption DEF Objects, UpdaterInv, TypeInv, ObjectTypes, StatusOK
        <3>2. /\ total'[q] = [total[q] EXCEPT ![o] = @ + (-1)]
              /\ seeders'[q] = [seeders[q] EXCEPT ![o] = @ + e]
            <4>1. seeders[q] \in [Objects -> Int] /\ total[q] \in [Objects -> Int]
                BY DEF UpdaterInv, TypeInv, ObjectTypes
            <4>2. /\ seeders[q] = [seeders[q] EXCEPT ![o] = @ + 0]
                  /\ [total[q] EXCEPT ![o] = @ - 1] = [total[q] EXCEPT ![o] = @ + (-1)]
                  /\ [seeders[q] EXCEPT ![o] = @ - 1] = [seeders[q] EXCEPT ![o] = @ + (-1)]
                BY <3>1, <4>1
            <4>3. /\ total'[q] = [total[q] EXCEPT ![o] = @ - 1]
                  /\ seeders'[q] = IF status[q][p] = "all" THEN [seeders[q] EXCEPT ![o] = @ - 1]
                                   ELSE seeders[q]
                BY <2>2 DEF NotInterestedInPackage
            <4>4. QED
                BY <4>2, <4>3
        <3>3. Replaces(q, p, o, "none")
            <4>1. EntryDelta(q, p, "none") = -1 /\ SeedDelta(q, p, "none") = e
                BY <2>2 DEF EntryDelta, SeedDelta
            <4> HIDE DEF o, e
            <4>2. QED
                BY <1>1, <2>1, <3>2, <4>1 DEF Replaces
        <3> HIDE DEF o
        <3>4. QED
            BY <3>1, <3>3, StatusStep
    <2>3. CASE status[q][p] = "none"
        <3>1. owner[q][p] = 0 /\ total'[q] = total[q] /\ seeders'[q] = seeders[q]
            BY <2>3 DEF NotInterestedInPackage, UpdaterInv, StatusOK
        <3>2. status'[q] = status[q] /\ owner'[q] = owner[q]
            BY <2>1, <2>3, <3>1 DEF UpdaterInv, TypeInv, ObjectTypes
        <3>3. Same(q)
            BY <1>1, <3>1, <3>2 DEF Same
        <3>4. StatusOK(q)'
            BY <1>1, <2>3, <3>2 DEF StatusOK, UpdaterInv
        <3>5. QED
            BY <3>1, <3>2, <3>3, <3>4, SameOK DEF UpdaterInv, TypeInv, ObjectTypes
    <2>4. QED
        BY <2>2, <2>3
<1>3. ObjectTypes'
    <2>1. /\ total' = [q \in Peers |-> total'[q]] /\ seeders' = [q \in Peers |-> seeders'[q]]
          /\ status' = [q \in Peers |-> status'[q]] /\ owner' = [q \in Peers |-> owner'[q]]
        BY DEF NotInterestedInPackage
    <2>2. QED
        BY <1>1, <1>2, <2>1 DEF ObjectTypes, UpdaterInv, TypeInv
<1>4. TypeInv'
    BY <1>1, <1>3 DEF TypeInv, UpdaterInv, registry
<1>5. ASSUME NEW q \in Peers PROVE PeerOK(q)' /\ PollOK(q)'
    BY <1>1 DEF PeerOK, PollOK, UpdaterInv, registry
<1>6. QED
    BY <1>2, <1>4, <1>5 DEF UpdaterInv

-----------------------------------------------------------------------------
(* An answer is applied. *)

LEMMA AppliedMoves ==
    ASSUME UpdaterInv, NEW q \in Peers, NEW i \in PollIds, NEW p \in Packages,
           Applying(q, i, p), Applied(q, i, p)
    PROVE  PollMove /\ poll[q][i].object \in 1..made[q]
<1> DEFINE w == [poll[q][i] EXCEPT !.asked = @ \ {p}]
<1>1. poll[q][i] \in Polls /\ poll[q][i].stage # "idle" /\ poll[q][i].object \in 1..made[q]
    BY PollFields DEF Applying
<1>2. w \in Polls /\ w.stage = poll[q][i].stage /\ w.object = poll[q][i].object
    BY <1>1 DEF Polls
<1>3. poll' = [poll EXCEPT ![q][i] = w]
    BY DEF Applied, UpdaterInv, TypeInv
<1> HIDE DEF w
<1>4. QED
    BY <1>1, <1>2, <1>3, PollChanges

\* A status of peer q is replaced, and the peers stay as they are.
LEMMA ReplaceStep ==
    ASSUME UpdaterInv, PollMove, NEW q \in Peers, NEW p \in Packages, NEW o \in 1..made[q],
           NEW v \in {"none", "unknown", "part", "all"}, Replaces(q, p, o, v),
           \A r \in Peers : r # q => Same(r),
           UNCHANGED <<known, enabled, interested, peers, made>>,
           /\ total' = [r \in Peers |-> total'[r]] /\ seeders' = [r \in Peers |-> seeders'[r]]
           /\ status' = [r \in Peers |-> status'[r]] /\ owner' = [r \in Peers |-> owner'[r]]
    PROVE  UpdaterInv'
<1>1. /\ StatusOK(q)' /\ CountOK(q)'
      /\ total'[q] \in [Objects -> Int] /\ seeders'[q] \in [Objects -> Int]
      /\ status'[q] \in [Packages -> {"none", "unknown", "part", "all"}]
      /\ owner'[q] \in [Packages -> 0..MaxObjects]
    BY StatusStep
<1>2. ASSUME NEW r \in Peers
      PROVE  /\ total'[r] \in [Objects -> Int] /\ seeders'[r] \in [Objects -> Int]
             /\ status'[r] \in [Packages -> {"none", "unknown", "part", "all"}]
             /\ owner'[r] \in [Packages -> 0..MaxObjects]
    BY <1>1 DEF Same, UpdaterInv, TypeInv, ObjectTypes
<1>3. ObjectTypes'
    BY <1>2 DEF ObjectTypes, UpdaterInv, TypeInv
<1>4. TypeInv'
    BY <1>3 DEF TypeInv, UpdaterInv, PollMove
<1>5. ASSUME NEW r \in Peers, r # q PROVE StatusOK(r)' /\ CountOK(r)'
    BY <1>5, SameOK DEF Same, StatusOK, UpdaterInv
<1>6. ASSUME NEW r \in Peers PROVE PeerOK(r)' /\ PollOK(r)'
    BY DEF PeerOK, PollOK, PollMove, UpdaterInv
<1>7. QED
    BY <1>1, <1>4, <1>5, <1>6 DEF UpdaterInv

LEMMA NotFoundKeeps ==
    ASSUME UpdaterInv, NEW q \in Peers, NEW i \in PollIds, NEW p \in Packages,
           ApplyNotFound(q, i, p)
    PROVE  UpdaterInv'
<1> DEFINE o == poll[q][i].object
<1>1. /\ PollMove /\ o \in 1..made[q]
      /\ UNCHANGED <<known, enabled, interested, peers, made>>
    BY AppliedMoves DEF ApplyNotFound, registry
<1>2. CASE status[q][p] = "none"
    BY <1>1, <1>2, QuietStep DEF ApplyNotFound, UpdaterInv, TypeInv
<1>3. CASE status[q][p] # "none"
    <2>1. /\ status' = [status EXCEPT ![q][p] = "none"]
          /\ owner' = [owner EXCEPT ![q][p] = 0]
          /\ total' = [total EXCEPT ![q][o] = @ - 1]
          /\ seeders' = [seeders EXCEPT ![q][o] = IF status[q][p] = "all" THEN @ - 1 ELSE @]
        BY <1>3, Zenon DEF ApplyNotFound
    <2>2. o \in Objects /\ EntryDelta(q, p, "none") = -1
          /\ SeedDelta(q, p, "none") = IF status[q][p] = "all" THEN -1 ELSE 0
        BY <1>1, <1>3, UpdaterAssumption
           DEF Objects, EntryDelta, SeedDelta, UpdaterInv, TypeInv, ObjectTypes
    <2> HIDE DEF o
    <2>3. /\ status'[q] = [status[q] EXCEPT ![p] = "none"]
          /\ owner'[q] = [owner[q] EXCEPT ![p] = 0]
        BY <2>1 DEF UpdaterInv, TypeInv, ObjectTypes
    <2>4. /\ total'[q] = [total[q] EXCEPT ![o] = @ + EntryDelta(q, p, "none")]
          /\ seeders'[q] = [seeders[q] EXCEPT ![o] = @ + SeedDelta(q, p, "none")]
        <3>1. total[q] \in [Objects -> Int] /\ seeders[q] \in [Objects -> Int]
            BY DEF UpdaterInv, TypeInv, ObjectTypes
        <3>2. /\ total'[q] = [total[q] EXCEPT ![o] = @ - 1]
              /\ seeders'[q] = [seeders[q] EXCEPT ![o] = IF status[q][p] = "all" THEN @ - 1 ELSE @]
            BY <2>1 DEF UpdaterInv, TypeInv, ObjectTypes
        <3>3. [total[q] EXCEPT ![o] = @ - 1] = [total[q] EXCEPT ![o] = @ + (-1)]
            BY <2>2, <3>1
        <3>4. [seeders[q] EXCEPT ![o] = IF status[q][p] = "all" THEN @ - 1 ELSE @]
                = [seeders[q] EXCEPT ![o] = @ + SeedDelta(q, p, "none")]
            BY <2>2, <3>1
        <3>5. QED
            BY <2>2, <3>2, <3>3, <3>4
    <2>5. Replaces(q, p, o, "none")
        BY <1>1, <2>3, <2>4 DEF Replaces
    <2>6. /\ \A r \in Peers : r # q => Same(r)
          /\ total' = [r \in Peers |-> total'[r]] /\ seeders' = [r \in Peers |-> seeders'[r]]
          /\ status' = [r \in Peers |-> status'[r]] /\ owner' = [r \in Peers |-> owner'[r]]
        BY <1>1, <2>1 DEF Same, UpdaterInv, TypeInv, ObjectTypes
    <2>7. QED
        BY <1>1, <2>5, <2>6, ReplaceStep
<1>4. QED
    BY <1>2, <1>3

LEMMA UpdateKeeps ==
    ASSUME UpdaterInv, NEW q \in Peers, NEW i \in PollIds, NEW p \in Packages,
           Update(q, i, p)
    PROVE  UpdaterInv'
<1> DEFINE o == poll[q][i].object
<1>1. /\ PollMove /\ o \in 1..made[q] /\ p \in interested
      /\ UNCHANGED <<known, enabled, interested, peers, made>>
    BY AppliedMoves DEF Update, registry
<1>2. PICK v \in {"part", "all"} :
        /\ status' = [status EXCEPT ![q][p] = v]
        /\ seeders' = [seeders EXCEPT ![q][o] = @ + SeederDelta(q, p, v)]
        /\ IF status[q][p] # "none" THEN UNCHANGED <<total, owner>>
           ELSE /\ total' = [total EXCEPT ![q][o] = @ + 1]
                /\ owner' = [owner EXCEPT ![q][p] = o]
    BY Zenon DEF Update
<1>3. /\ o \in Objects /\ SeedDelta(q, p, v) = SeederDelta(q, p, v)
      /\ EntryDelta(q, p, v) = IF status[q][p] = "none" THEN 1 ELSE 0
    BY <1>1, UpdaterAssumption
       DEF Objects, EntryDelta, SeedDelta, SeederDelta, UpdaterInv, TypeInv, ObjectTypes
<1> HIDE DEF o
<1>4. /\ total[q] \in [Objects -> Int] /\ seeders[q] \in [Objects -> Int]
      /\ owner[q] \in [Packages -> 0..MaxObjects]
    BY DEF UpdaterInv, TypeInv, ObjectTypes
<1>5. /\ status'[q] = [status[q] EXCEPT ![p] = v]
      /\ seeders'[q] = [seeders[q] EXCEPT ![o] = @ + SeedDelta(q, p, v)]
    BY <1>2, <1>3 DEF UpdaterInv, TypeInv, ObjectTypes
<1>6. owner'[q] = [owner[q] EXCEPT ![p] = IF v = "none" THEN 0
                                          ELSE IF status[q][p] = "none" THEN o ELSE owner[q][p]]
    BY <1>2, <1>4 DEF UpdaterInv, TypeInv, ObjectTypes
<1>7. total'[q] = [total[q] EXCEPT ![o] = @ + EntryDelta(q, p, v)]
    <2>1. total[q] = [total[q] EXCEPT ![o] = @ + 0]
        BY <1>3, <1>4
    <2>2. QED
        <3>1. CASE status[q][p] = "none"
            <4>1. total' = [total EXCEPT ![q][o] = @ + 1] /\ EntryDelta(q, p, v) = 1
                BY <1>2, <1>3, <3>1
            <4>2. QED
                BY <4>1 DEF UpdaterInv, TypeInv, ObjectTypes
        <3>2. CASE status[q][p] # "none"
            <4>1. total' = total /\ EntryDelta(q, p, v) = 0
                BY <1>2, <1>3, <3>2
            <4>2. QED
                BY <2>1, <4>1
        <3>3. QED
            BY <3>1, <3>2
<1>8. Replaces(q, p, o, v)
    BY <1>1, <1>5, <1>6, <1>7 DEF Replaces
<1>9. /\ \A r \in Peers : r # q => Same(r)
      /\ total' = [r \in Peers |-> total'[r]] /\ seeders' = [r \in Peers |-> seeders'[r]]
      /\ status' = [r \in Peers |-> status'[r]] /\ owner' = [r \in Peers |-> owner'[r]]
    BY <1>1, <1>2 DEF Same, UpdaterInv, TypeInv, ObjectTypes
<1>10. v \in {"none", "unknown", "part", "all"}
    OBVIOUS
<1>11. QED
    BY <1>1, <1>8, <1>9, <1>10, ReplaceStep

LEMMA UpdateDisablesKeeps ==
    ASSUME UpdaterInv, NEW q \in Peers, NEW i \in PollIds, NEW p \in Packages,
           UpdateDisables(q, i, p)
    PROVE  UpdaterInv'
<1> DEFINE o     == poll[q][i].object
           c     == peers[q]
           added == {p} \ Entries(q)
           a     == Cardinality(added)
           b     == Cardinality(Entries(q) \union added)
           t     == [total[q] EXCEPT ![o] = @ + a]
           z     == Cardinality(Seeds(q))
           u     == [seeders[q] EXCEPT ![c] = @ - z]
           tt    == [x \in Objects |-> total[q][x] + (IF x = o THEN a ELSE 0)
                                                    - (IF x = c THEN b ELSE 0)]
           uu(e) == [x \in Objects |-> seeders[q][x] - (IF x = c THEN z ELSE 0)
                                                      + (IF x = o THEN e ELSE 0)]
<1>1. /\ PollMove /\ o \in 1..made[q] /\ q \in enabled
      /\ enabled' = enabled \ {q} /\ peers' = [peers EXCEPT ![q] = 0]
      /\ UNCHANGED <<known, interested, made>>
    BY AppliedMoves DEF UpdateDisables
<1>2. c \in 1..made[q] /\ c \in Objects /\ o \in Objects /\ made[q] \in 0..MaxObjects
    BY <1>1, UpdaterAssumption DEF Objects, UpdaterInv, TypeInv, ObjectTypes, PeerOK
<1>3. /\ status' = [status EXCEPT ![q] = [r \in Packages |-> "none"]]
      /\ owner' = [owner EXCEPT ![q] = [r \in Packages |-> 0]]
      /\ total' = [total EXCEPT ![q] = tt]
    BY Zenon DEF UpdateDisables
<1>4. PICK e \in {SeederDelta(q, p, v) : v \in {"part", "all"}} :
        seeders' = [seeders EXCEPT ![q] = uu(e)]
    BY Zenon DEF UpdateDisables
<1>5. e \in Int
    BY <1>4 DEF SeederDelta
<1>6. /\ Cardinality(Entries(q)) \in Nat /\ a \in Nat /\ b \in Nat
      /\ b = Cardinality(Entries(q)) + a /\ z \in Nat
    <2>1. /\ Entries(q) \in SUBSET Packages /\ added \in SUBSET Packages
          /\ Seeds(q) \in SUBSET Packages /\ Entries(q) \intersect added = {}
        BY DEF Entries, Seeds
    <2>2. /\ IsFiniteSet(Entries(q)) /\ Cardinality(Entries(q)) \in Nat
          /\ IsFiniteSet(added) /\ Cardinality(added) \in Nat
          /\ Cardinality(Seeds(q)) \in Nat
        BY <2>1, Finite
    <2> HIDE DEF added
    <2>3. b = Cardinality(Entries(q)) + a
        BY <2>1, <2>2, FS_Union, FS_EmptySet
    <2>4. QED
        BY <2>2, <2>3
<1> HIDE DEF a, b, z, o, c, added
<1>7. total[q] \in [Objects -> Int] /\ seeders[q] \in [Objects -> Int]
    BY DEF UpdaterInv, TypeInv, ObjectTypes
<1>8. /\ t \in [Objects -> Int] /\ Sum(t) = Sum(total[q]) + a
      /\ \A x \in Objects : x > made[q] => t[x] = 0
    <2>1. t \in [Objects -> Int] /\ Sum(t) = Sum(total[q]) + a
        BY <1>2, <1>6, <1>7, SumChange
    <2>2. ASSUME NEW x \in Objects, x > made[q] PROVE t[x] = 0
        <3>1. x # o /\ total[q][x] = 0
            BY <1>1, <1>2, <2>2, UpdaterAssumption DEF UpdaterInv, CountOK, Objects
        <3>2. QED
            BY <1>7, <3>1
    <2>3. QED
        BY <2>1, <2>2
<1>9. /\ u \in [Objects -> Int]
      /\ \A x \in Objects : x > made[q] => u[x] = 0
    <2>1. u \in [Objects -> Int]
        BY <1>2, <1>6, <1>7
    <2>2. ASSUME NEW x \in Objects, x > made[q] PROVE u[x] = 0
        <3>1. x # c /\ seeders[q][x] = 0
            BY <1>2, <2>2, UpdaterAssumption DEF UpdaterInv, CountOK, Objects
        <3>2. QED
            BY <1>7, <3>1
    <2>3. QED
        BY <2>1, <2>2
<1> HIDE DEF t, u
<1>10. -b \in Int
    BY <1>6
<1>11. /\ total'[q] = [t EXCEPT ![c] = @ + (-b)]
       /\ seeders'[q] = [u EXCEPT ![o] = @ + e]
    <2>1. total'[q] = tt /\ seeders'[q] = uu(e)
        BY <1>3, <1>4 DEF UpdaterInv, TypeInv, ObjectTypes
    <2>2. tt = [t EXCEPT ![c] = @ + (-b)]
        <3>1. ASSUME NEW x \in Objects PROVE tt[x] = [t EXCEPT ![c] = @ + (-b)][x]
            BY <1>2, <1>6, <1>7 DEF t
        <3>2. QED
            BY <1>8, <3>1
    <2>3. uu(e) = [u EXCEPT ![o] = @ + e]
        <3>1. ASSUME NEW x \in Objects PROVE uu(e)[x] = [u EXCEPT ![o] = @ + e][x]
            BY <1>2, <1>5, <1>6, <1>7 DEF u
        <3>2. QED
            BY <1>9, <3>1
    <2>4. QED
        BY <2>1, <2>2, <2>3
<1>12. total'[q] \in [Objects -> Int] /\ Sum(total'[q]) = Sum(t) + (-b)
    <2>1. /\ [t EXCEPT ![c] = @ + (-b)] \in [Objects -> Int]
          /\ Sum([t EXCEPT ![c] = @ + (-b)]) = Sum(t) + (-b)
        <3>1. t \in [Objects -> Int] /\ c \in Objects /\ -b \in Int
            BY <1>2, <1>8, <1>10
        <3>2. QED
            BY <3>1, SumChange
    <2>2. QED
        BY <1>11, <2>1
<1>13. seeders'[q] \in [Objects -> Int]
    BY <1>2, <1>5, <1>9, <1>11
<1>14. /\ made'[q] = made[q] /\ peers'[q] = 0
       /\ \A r \in Packages : status'[q][r] = "none" /\ owner'[q][r] = 0
    BY <1>1, <1>3 DEF UpdaterInv, TypeInv, ObjectTypes
<1>15. CountOK(q)'
    <2>1. Sum(total'[q]) = Cardinality(Entries(q))'
        <3>1. Entries(q)' = {}
            BY <1>14 DEF Entries
        <3>2. Sum(total[q]) = Cardinality(Entries(q))
            BY DEF UpdaterInv, CountOK
        <3>3. QED
            BY <1>6, <1>8, <1>12, <3>1, <3>2, FS_EmptySet
    <2>2. ASSUME NEW x \in Objects, x > made'[q] PROVE total'[q][x] = 0 /\ seeders'[q][x] = 0
        <3>1. x # o /\ x # c /\ t[x] = 0 /\ u[x] = 0
            BY <1>1, <1>2, <1>8, <1>9, <1>14, <2>2, UpdaterAssumption DEF Objects
        <3>2. QED
            BY <1>8, <1>9, <1>11, <3>1
    <2>3. QED
        BY <1>14, <2>1, <2>2 DEF CountOK
<1>16. \A r \in Peers : r # q => Same(r)
    BY <1>1, <1>3, <1>4 DEF Same, UpdaterInv, TypeInv, ObjectTypes
<1>17. StatusOK(q)'
    BY <1>2, <1>14 DEF StatusOK
<1>18. TypeInv'
    <2>1. total' \in [Peers -> [Objects -> Int]] /\ seeders' \in [Peers -> [Objects -> Int]]
        BY <1>3, <1>4, <1>12, <1>13 DEF UpdaterInv, TypeInv, ObjectTypes
    <2>2. /\ status' \in [Peers -> [Packages -> {"none", "unknown", "part", "all"}]]
          /\ owner' \in [Peers -> [Packages -> 0..MaxObjects]]
          /\ peers' \in [Peers -> 0..MaxObjects]
        BY <1>1, <1>2, <1>3, UpdaterAssumption DEF UpdaterInv, TypeInv, ObjectTypes
    <2>3. QED
        BY <1>1, <2>1, <2>2 DEF TypeInv, ObjectTypes, UpdaterInv, PollMove
<1>19. ASSUME NEW r \in Peers PROVE PeerOK(r)' /\ PollOK(r)'
    BY <1>1, <1>14, <1>16 DEF Same, PeerOK, PollOK, PollMove, UpdaterInv
<1>20. ASSUME NEW r \in Peers, r # q PROVE StatusOK(r)' /\ CountOK(r)'
    BY <1>1, <1>16, <1>20, SameOK DEF Same, StatusOK, UpdaterInv
<1>21. QED
    BY <1>15, <1>17, <1>18, <1>19, <1>20 DEF UpdaterInv

-----------------------------------------------------------------------------
(* The theorems. *)

\* Whatever the order of announcements, starts and stops, failures and answers.
THEOREM UpdaterInvariant == Spec => []UpdaterInv
<1>1. Init => UpdaterInv
    <2> SUFFICES ASSUME Init PROVE UpdaterInv
        OBVIOUS
    <2>1. MaxObjects \in Nat \ {0} /\ Objects = 1..MaxObjects
        BY UpdaterAssumption DEF Objects
    <2>2. TypeInv
        <3>1. ObjectTypes
            BY <2>1 DEF Init, ObjectTypes
        <3>2. Idle \in Polls
            BY <2>1 DEF Idle, Polls
        <3>3. QED
            BY <3>1, <3>2 DEF Init, TypeInv
    <2>3. ASSUME NEW q \in Peers PROVE PeerOK(q) /\ StatusOK(q) /\ PollOK(q)
        BY DEF Init, PeerOK, StatusOK, PollOK, Idle
    <2>4. ASSUME NEW q \in Peers PROVE CountOK(q)
        <3>1. /\ total[q] = [o \in Objects |-> 0] /\ seeders[q] = [o \in Objects |-> 0]
              /\ made[q] = 0 /\ Entries(q) = {}
            BY DEF Init, Entries
        <3>2. Sum(total[q]) = 0
            <4>1. total[q] \in [Objects -> Int] /\ (\A o \in Objects : o > 1 => total[q][o] = 0)
                  /\ total[q][1] = 0
                BY <2>1, <3>1
            <4>2. QED
                BY <4>1, SumOfFirst
        <3>3. QED
            BY <3>1, <3>2, FS_EmptySet DEF CountOK
    <2>5. QED
        BY <2>2, <2>3, <2>4 DEF UpdaterInv
<1>2. UpdaterInv /\ [Next]_vars => UpdaterInv'
    <2> SUFFICES ASSUME UpdaterInv, [Next]_vars PROVE UpdaterInv'
        OBVIOUS
    <2>1. ASSUME NEW p \in Packages, InterestedInPackage(p) \/ NotInterestedInPackage(p)
          PROVE  UpdaterInv'
        BY <2>1, InterestKeeps, NoInterestKeeps
    <2>2. ASSUME NEW q \in Peers, PeerStep(q) PROVE UpdaterInv'
        BY <2>2, PeerStepKeeps
    <2>3. ASSUME NEW q \in Peers, NEW i \in PollIds, PollStep(q, i) PROVE UpdaterInv'
        <3>1. ASSUME NEW p \in Packages, Answer(q, i, p) PROVE UpdaterInv'
            <4>1. CASE ApplySkip(q, i, p)
                <5>1. PollMove
                    BY <4>1, AppliedMoves DEF ApplySkip
                <5>2. QED
                    BY <4>1, <5>1, QuietStep DEF ApplySkip, registry, UpdaterInv, TypeInv
            <4>2. QED
                BY <3>1, <4>1, NotFoundKeeps, UpdateKeeps, UpdateDisablesKeeps DEF Answer
        <3>2. QED
            BY <2>3, <3>1, PollStepKeeps DEF PollStep
    <2>4. CASE UNCHANGED vars
        BY <2>4, PollStays, QuietStep DEF vars, registry, UpdaterInv, TypeInv
    <2>5. QED
        BY <2>1, <2>2, <2>3, <2>4 DEF Next
<1>3. QED
    BY <1>1, <1>2, PTL DEF Spec

\* Over all objects a peer had, as many packages are counted as it has statuses for.
THEOREM NothingMiscounted == Spec => []CountersConserved
<1>1. UpdaterInv => CountersConserved
    <2>1. (\A q \in Peers : Sum(total[q]) = Cardinality(Entries(q))) => CountersConserved
        BY Zenon DEF Sum, CountersConserved
    <2>2. QED
        BY <2>1 DEF UpdaterInv, CountOK
<1>2. QED
    BY <1>1, UpdaterInvariant, PTL

\* A peer that keeps its first object has counters that are exact.
THEOREM FirstObjectExact == Spec => []CountersExact
<1>1. ASSUME UpdaterInv, NEW q \in Peers, peers[q] # 0, made[q] = 1
      PROVE  /\ total[q][peers[q]] = Cardinality(Entries(q))
             /\ seeders[q][peers[q]] = Cardinality(Seeds(q))
    <2>1. peers[q] = 1 /\ CountOK(q) /\ total[q] \in [Objects -> Int]
        BY <1>1 DEF UpdaterInv, TypeInv, ObjectTypes, PeerOK
    <2>2. Sum(total[q]) = total[q][1]
        BY <1>1, <2>1, SumOfFirst DEF CountOK
    <2>3. QED
        BY <1>1, <2>1, <2>2 DEF CountOK
<1>2. UpdaterInv => CountersExact
    BY <1>1 DEF CountersExact
<1>3. QED
    BY <1>2, UpdaterInvariant, PTL
=============================================================================
