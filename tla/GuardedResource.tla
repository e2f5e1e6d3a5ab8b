--------------------------- MODULE GuardedResource ---------------------------
(***************************************************************************)
(* What PackageLocks promises about the files of a package: users hold it  *)
(* for a while, nobody starts to use it once it is doomed, and it is       *)
(* destroyed, once, when its last user is gone.                            *)
(***************************************************************************)
CONSTANT Users

VARIABLES
    users,      \* who holds the resource
    doomed,     \* it is to be destroyed
    destroyed   \* it has been destroyed, wholly or in part

Init == users = {} /\ doomed = FALSE /\ destroyed = FALSE

Acquire(u) ==
    /\ ~doomed
    /\ u \notin users
    /\ users' = users \union {u}
    /\ UNCHANGED <<doomed, destroyed>>

Release(u) ==
    /\ u \in users
    /\ users' = users \ {u}
    /\ UNCHANGED <<doomed, destroyed>>

Doom ==
    /\ ~doomed
    /\ doomed' = TRUE
    /\ UNCHANGED <<users, destroyed>>

Destroy ==
    /\ doomed /\ users = {} /\ ~destroyed
    /\ destroyed' = TRUE
    /\ UNCHANGED <<users, doomed>>

Next == (\E u \in Users : Acquire(u) \/ Release(u)) \/ Doom \/ Destroy

Spec == Init /\ [][Next]_<<users, doomed, destroyed>>
=============================================================================
