---------------------------- MODULE SegmentClaims ----------------------------
(***************************************************************************)
(* What the segment ledger of one package promises to the download slots   *)
(* that share it, with none of its locks and counters: a segment is        *)
(* missing, claimed by exactly one slot, or owned.  A claim ends by owning *)
(* the segment or by giving it back; an owned segment is never lost.       *)
(***************************************************************************)
CONSTANTS
    Segment,    \* the segments of the package
    Slots       \* the download slots

VARIABLES
    have,       \* the segments that are owned
    claim       \* claim[s]: the segments slot s is downloading

vars == <<have, claim>>

Claimed == UNION {claim[s] : s \in Slots}

TypeOK ==
    /\ have \in SUBSET Segment
    /\ claim \in [Slots -> SUBSET Segment]

Init ==
    /\ have \in SUBSET Segment
    /\ claim = [s \in Slots |-> {}]

\* Slot s, which downloads nothing, claims segments nobody owns or claims.
Claim(s, S) ==
    /\ claim[s] = {}
    /\ S \subseteq Segment \ (have \union Claimed)
    /\ claim' = [claim EXCEPT ![s] = S]
    /\ UNCHANGED have

\* Slot s has downloaded the claimed segment k.
Own(s, k) ==
    /\ k \in claim[s]
    /\ have' = have \union {k}
    /\ claim' = [claim EXCEPT ![s] = @ \ {k}]

\* Slot s gives the claimed segment k back.
GiveBack(s, k) ==
    /\ k \in claim[s]
    /\ claim' = [claim EXCEPT ![s] = @ \ {k}]
    /\ UNCHANGED have

Next ==
    \E s \in Slots :
        \/ \E S \in SUBSET Segment : Claim(s, S)
        \/ \E k \in Segment : Own(s, k) \/ GiveBack(s, k)

Spec == Init /\ [][Next]_vars
=============================================================================
