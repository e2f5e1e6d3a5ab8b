-------------------------- MODULE PeerRegistryProofs --------------------------
(***************************************************************************)
(* Proofs about PeerRegistry for any peers, threads and lists: the list    *)
(* that is published and the peers that are polled agree with the flags of *)
(* the peers once the calls that change them are through, although the     *)
(* flags are read without their locks.                                     *)
(***************************************************************************)
EXTENDS PeerRegistry, TLAPS

-----------------------------------------------------------------------------
(* The inductive invariant. *)

Places == {"idle", "mark", "changed", "notify", "unlock", "list", "added", "apply", "none"}

TypeInv ==
    /\ registered \subseteq Peers
    /\ enabled \subseteq registered
    /\ pc \in [Threads -> Places]
    /\ outer \in [Threads -> {"none", "list", "apply"}]
    /\ target \in [Threads -> [peer : Peers \union {Null}, on : BOOLEAN]]
    /\ list \in [Threads -> Seq(Peers)]
    /\ added \in [Threads -> SUBSET Peers]
    /\ refresh \in [Threads -> BOOLEAN]
    /\ statusLock \in [Peers -> Threads \union {Null}]

\* What a thread has set out to change, and which locks it holds meanwhile.
CallInv ==
    \A t \in Threads :
        /\ pc[t] = "list" => outer[t] = "list"
        /\ pc[t] = "apply" => outer[t] = "apply"
        /\ outer[t] = "list" => peersLock = t
        /\ outer[t] = "apply" => \A k \in 1..Len(list[t]) : list[t][k] \in registered
        /\ pc[t] \in {"mark", "changed", "notify", "unlock"} => target[t].peer \in registered
        /\ pc[t] \in {"changed", "notify", "unlock"} =>
             /\ statusLock[target[t].peer] = t
             /\ target[t].on <=> target[t].peer \in enabled

\* The published list is what the flags say, but for a peer whose change is yet to
\* be published, and while UpdatePeers is going to publish all of them.
ListInv ==
    \A p \in registered :
        \/ p \in immutablePeers <=> p \in enabled
        \/ \E t \in Threads : target[t].peer = p /\ pc[t] = "changed"
        \/ peersLock \in Threads /\ refresh[peersLock]

\* An enabled peer is polled, or is about to be.
PolledInv ==
    \A p \in enabled :
        \/ p \in polled
        \/ \E t \in Threads : target[t].peer = p /\ pc[t] \in {"changed", "notify"}
        \/ \E t \in Threads : p \in added[t]

PeersInv == TypeInv /\ CallInv /\ ListInv /\ PolledInv

-----------------------------------------------------------------------------
(* What the calls keep in their variables. *)

LEMMA HeadOfList ==
    ASSUME TypeInv, NEW t \in Threads, list[t] # <<>>
    PROVE  /\ Head(list[t]) \in Peers /\ Tail(list[t]) \in Seq(Peers)
           /\ [list EXCEPT ![t] = Tail(@)] \in [Threads -> Seq(Peers)]
BY DEF TypeInv

LEMMA NewTarget ==
    ASSUME TypeInv, NEW t \in Threads, NEW p \in Peers, NEW on \in BOOLEAN
    PROVE  [target EXCEPT ![t] = [peer |-> p, on |-> on]]
             \in [Threads -> [peer : Peers \union {Null}, on : BOOLEAN]]
BY DEF TypeInv

-----------------------------------------------------------------------------
(* A status changes. *)

LEMMA ChangeStatusKeeps ==
    ASSUME PeersInv, NEW t \in Threads, ChangeStatus(t)
    PROVE  PeersInv'
<1> DEFINE p == target[t].peer
<1>1. /\ p \in registered /\ p \in Peers
      /\ pc[t] = "mark" /\ statusLock[p] = Null
      /\ outer[t] \in {"none", "list", "apply"}
    BY DEF ChangeStatus, PeersInv, TypeInv, CallInv
<1>2. /\ UNCHANGED <<registered, immutablePeers, polled, peersLock, updaterLock, outer, list, added, refresh>>
      /\ pc' \in [Threads -> Places]
      /\ \A u \in Threads : u # t => pc'[u] = pc[u] /\ target'[u] = target[u]
    BY DEF ChangeStatus, PeersInv, TypeInv, Goto, Places
<1>3. CASE pc'[t] = "changed"
    <2>1. /\ UNCHANGED target
          /\ statusLock' = [statusLock EXCEPT ![p] = t]
          /\ enabled' \subseteq registered
          /\ \A x \in registered : x # p => (x \in enabled' <=> x \in enabled)
        BY <1>1, <1>3 DEF ChangeStatus, PeersInv, TypeInv, Goto
    <2>2. target[t].on <=> p \in enabled'
        BY <1>3 DEF ChangeStatus, PeersInv, TypeInv, Goto
    <2>3. TypeInv'
        BY <1>2, <2>1 DEF PeersInv, TypeInv
    <2>4. CallInv'
        <3>1. ASSUME NEW u \in Threads, pc'[u] \in {"changed", "notify", "unlock"}
              PROVE  /\ statusLock'[target[u].peer] = u
                     /\ target[u].on <=> target[u].peer \in enabled'
            <4>1. CASE u = t
                BY <1>1, <2>1, <2>2, <4>1 DEF PeersInv, TypeInv
            <4>2. CASE u # t
                <5>1. /\ target[u].peer \in registered /\ statusLock[target[u].peer] = u
                      /\ target[u].on <=> target[u].peer \in enabled
                    BY <1>2, <3>1, <4>2 DEF PeersInv, CallInv
                <5>2. target[u].peer # p /\ target[u].peer \in Peers
                    BY <1>1, <5>1, RegistryAssumption DEF PeersInv, TypeInv
                <5>3. target[u].peer \in enabled' <=> target[u].peer \in enabled
                    BY <2>1, <5>1, <5>2
                <5>4. QED
                    BY <2>1, <5>1, <5>2
            <4>3. QED
                BY <4>1, <4>2
        <3>2. QED
            BY <1>1, <1>2, <1>3, <2>1, <3>1 DEF PeersInv, CallInv
    <2>5. ListInv'
        BY <1>2, <1>3, <2>1 DEF PeersInv, ListInv
    <2>6. PolledInv'
        BY <1>2, <1>3, <2>1 DEF PeersInv, PolledInv
    <2>7. QED
        BY <2>3, <2>4, <2>5, <2>6 DEF PeersInv
<1>4. CASE pc'[t] # "changed"
    <2>1. /\ UNCHANGED <<enabled, statusLock>>
          /\ pc'[t] = outer[t]
          /\ target' = [target EXCEPT ![t] = NoTarget]
        BY <1>4 DEF ChangeStatus, PeersInv, TypeInv, Goto
    <2>2. target' \in [Threads -> [peer : Peers \union {Null}, on : BOOLEAN]]
        BY <2>1 DEF PeersInv, TypeInv, NoTarget
    <2>3. TypeInv'
        BY <1>2, <2>1, <2>2 DEF PeersInv, TypeInv
    <2>4. CallInv'
        BY <1>1, <1>2, <2>1 DEF PeersInv, CallInv
    <2>5. ListInv'
        BY <1>1, <1>2, <2>1 DEF PeersInv, ListInv
    <2>6. PolledInv'
        BY <1>1, <1>2, <2>1 DEF PeersInv, PolledInv
    <2>7. QED
        BY <2>3, <2>4, <2>5, <2>6 DEF PeersInv
<1>5. QED
    BY <1>3, <1>4

\* The change is published, and its listeners run, before the lock of the status
\* is let go.
LEMMA MarkKeeps ==
    ASSUME PeersInv, NEW t \in Threads,
           Publish(t) \/ Notify(t) \/ EndChange(t)
    PROVE  PeersInv'
<1>1. CASE Publish(t)
    <2>1. TypeInv' /\ CallInv'
        BY <1>1 DEF PeersInv, TypeInv, CallInv, Publish, Goto, Places, lockVars
    <2>2. ListInv'
        BY <1>1 DEF ListInv, Publish
    <2>3. PolledInv'
        BY <1>1 DEF PeersInv, PolledInv, Publish, Goto
    <2>4. QED
        BY <2>1, <2>2, <2>3 DEF PeersInv
<1>2. CASE Notify(t)
    <2>1. TypeInv' /\ CallInv'
        BY <1>2 DEF PeersInv, TypeInv, CallInv, Notify, Goto, Places, lockVars
    <2>2. ListInv'
        BY <1>2 DEF PeersInv, ListInv, Notify, Goto, lockVars
    <2>3. PolledInv'
        BY <1>2, RegistryAssumption DEF PeersInv, TypeInv, CallInv, PolledInv, Notify, Goto,
           Free, NoTarget, Places, dataVars, lockVars
    <2>4. QED
        BY <2>1, <2>2, <2>3 DEF PeersInv
<1>3. CASE EndChange(t)
    <2>1. TypeInv' /\ CallInv'
        BY <1>3 DEF PeersInv, TypeInv, CallInv, EndChange, Goto, NoTarget, Places,
           dataVars
    <2>2. ListInv'
        BY <1>3 DEF PeersInv, ListInv, EndChange, Goto, dataVars
    <2>3. PolledInv'
        BY <1>3 DEF PeersInv, PolledInv, EndChange, Goto, dataVars
    <2>4. QED
        BY <2>1, <2>2, <2>3 DEF PeersInv
<1>4. QED
    BY <1>1, <1>2, <1>3

-----------------------------------------------------------------------------
(* UpdatePeers. *)

LEMMA RegisterKeeps ==
    ASSUME PeersInv, NEW t \in Threads, Register(t)
    PROVE  PeersInv'
<1>1. TypeInv' /\ CallInv'
    BY DEF PeersInv, TypeInv, CallInv, Register, lockVars
<1>2. ListInv'
    BY DEF PeersInv, TypeInv, CallInv, ListInv, Register, lockVars
<1>3. PolledInv'
    <2>1. /\ enabled' = enabled \union {Head(list[t])}
          /\ added' = [added EXCEPT ![t] = @ \union {Head(list[t])}]
          /\ UNCHANGED <<polled, pc, target>>
        BY DEF Register
    <2>2. Head(list[t]) \in added'[t] /\ \A u \in Threads : added[u] \subseteq added'[u]
        BY <2>1 DEF PeersInv, TypeInv
    <2>3. QED
        BY <2>1, <2>2 DEF PeersInv, PolledInv
<1>4. QED
    BY <1>1, <1>2, <1>3 DEF PeersInv

LEMMA LookAtRegisteredKeeps ==
    ASSUME PeersInv, NEW t \in Threads, NEW heard \in BOOLEAN, LookAtRegistered(t, heard)
    PROVE  PeersInv'
<1> DEFINE p == Head(list[t])
<1>1. p \in Peers /\ list' \in [Threads -> Seq(Peers)]
    BY HeadOfList DEF LookAtRegistered, PeersInv
<1>2. target' \in [Threads -> [peer : Peers \union {Null}, on : BOOLEAN]]
    <2>1. CASE target' = [target EXCEPT ![t] = [peer |-> p, on |-> TRUE]]
        BY <1>1, <2>1, NewTarget DEF PeersInv
    <2>2. CASE UNCHANGED target
        BY <2>2 DEF PeersInv, TypeInv
    <2>3. QED
        BY <2>1, <2>2 DEF LookAtRegistered
<1>3. /\ pc' \in [Threads -> Places]
      /\ refresh' \in [Threads -> BOOLEAN]
    BY DEF LookAtRegistered, PeersInv, TypeInv, Goto, Places
<1>4. TypeInv'
    BY <1>1, <1>2, <1>3 DEF LookAtRegistered, PeersInv, TypeInv, dataVars, lockVars
<1>5. CallInv'
    BY DEF LookAtRegistered, PeersInv, TypeInv, CallInv, Goto, dataVars, lockVars
<1>6. ListInv'
    BY DEF LookAtRegistered, PeersInv, TypeInv, CallInv, ListInv, dataVars, lockVars
<1>7. \A u \in Threads :
         pc[u] \in {"changed", "notify"} => pc'[u] = pc[u] /\ target'[u] = target[u]
    BY DEF LookAtRegistered, PeersInv, TypeInv, Goto
<1>8. PolledInv'
    BY <1>7 DEF LookAtRegistered, PeersInv, PolledInv, dataVars
<1>9. QED
    BY <1>4, <1>5, <1>6, <1>8 DEF PeersInv

\* What was not published yet is published before peersLock is free.
LEMMA UpdatePeersKeeps ==
    ASSUME PeersInv, NEW t \in Threads,
           (\E u \in Updates : EnterUpdatePeers(t, u)) \/ LeaveUpdatePeers(t)
             \/ NotifyAdded(t) \/ Return(t)
    PROVE  PeersInv'
<1>1. ASSUME NEW u \in Updates, EnterUpdatePeers(t, u)
      PROVE  PeersInv'
    <2>1. TypeInv' /\ CallInv'
        BY <1>1, RegistryAssumption DEF PeersInv, TypeInv, CallInv, EnterUpdatePeers,
           Goto, Places, dataVars
    <2>2. ListInv'
        BY <1>1, RegistryAssumption DEF PeersInv, ListInv, EnterUpdatePeers, Goto,
           dataVars
    <2>3. PolledInv'
        BY <1>1 DEF PeersInv, PolledInv, EnterUpdatePeers, Goto, dataVars
    <2>4. QED
        BY <2>1, <2>2, <2>3 DEF PeersInv
<1>2. CASE LeaveUpdatePeers(t)
    <2>1. TypeInv' /\ CallInv'
        BY <1>2 DEF PeersInv, TypeInv, CallInv, LeaveUpdatePeers, Goto, Places
    <2>2. ListInv'
        BY <1>2 DEF PeersInv, CallInv, ListInv, LeaveUpdatePeers, Goto
    <2>3. PolledInv'
        BY <1>2 DEF PeersInv, PolledInv, LeaveUpdatePeers, Goto
    <2>4. QED
        BY <2>1, <2>2, <2>3 DEF PeersInv
<1>3. CASE NotifyAdded(t)
    <2>1. TypeInv' /\ CallInv'
        BY <1>3 DEF PeersInv, TypeInv, CallInv, NotifyAdded, Goto, Places, lockVars
    <2>2. ListInv'
        BY <1>3 DEF PeersInv, ListInv, NotifyAdded, Goto, lockVars
    <2>3. PolledInv'
        BY <1>3, RegistryAssumption DEF PeersInv, TypeInv, CallInv, PolledInv, NotifyAdded,
           Goto, Free, NoTarget, Places, dataVars, lockVars
    <2>4. QED
        BY <2>1, <2>2, <2>3 DEF PeersInv
<1>4. CASE Return(t)
    <2>1. TypeInv' /\ CallInv'
        BY <1>4 DEF PeersInv, TypeInv, CallInv, Return, Goto, Places, dataVars,
           lockVars
    <2>2. ListInv'
        BY <1>4 DEF PeersInv, ListInv, Return, Goto, dataVars, lockVars
    <2>3. PolledInv'
        BY <1>4 DEF PeersInv, PolledInv, Return, Goto, dataVars
    <2>4. QED
        BY <2>1, <2>2, <2>3 DEF PeersInv
<1>5. QED
    BY <1>1, <1>2, <1>3, <1>4

-----------------------------------------------------------------------------
(* The updater, and calls that begin. *)

LEMMA ApplyKeeps ==
    ASSUME PeersInv, NEW t \in Threads, NEW valid \in BOOLEAN, Apply(t, valid)
    PROVE  PeersInv'
<1> DEFINE p == Head(list[t])
<1>1. p \in Peers /\ list' \in [Threads -> Seq(Peers)]
    BY HeadOfList DEF Apply, PeersInv
<1>2. target' \in [Threads -> [peer : Peers \union {Null}, on : BOOLEAN]]
    <2>1. CASE target' = [target EXCEPT ![t] = [peer |-> p, on |-> FALSE]]
        BY <1>1, <2>1, NewTarget DEF PeersInv
    <2>2. CASE UNCHANGED target
        BY <2>2 DEF PeersInv, TypeInv
    <2>3. QED
        BY <2>1, <2>2 DEF Apply
<1>3. pc' \in [Threads -> Places]
    BY DEF Apply, PeersInv, TypeInv, Goto, Places
<1>4. TypeInv'
    BY <1>1, <1>2, <1>3 DEF Apply, PeersInv, TypeInv, dataVars, lockVars
<1>5. CallInv'
    <2>1. /\ outer[t] = "apply" /\ pc[t] = "apply"
          /\ list[t] \in Seq(Peers) /\ list[t] # <<>>
          /\ list'[t] = Tail(list[t])
        BY DEF Apply, PeersInv, TypeInv, CallInv
    <2>2. p \in registered /\ \A k \in 1..Len(list'[t]) : list'[t][k] \in registered
        BY <2>1 DEF PeersInv, CallInv
    <2>3. /\ target'[t].peer = p \/ UNCHANGED <<pc, target>>
          /\ pc'[t] \in {"apply", "mark"}
          /\ \A u \in Threads : u # t => UNCHANGED <<pc[u], target[u], list[u]>>
        BY DEF Apply, PeersInv, TypeInv, Goto
    <2>4. QED
        BY <2>3 DEF Apply, PeersInv, CallInv, dataVars, lockVars
<1>6. \A u \in Threads :
         pc[u] \in {"changed", "notify"} => pc'[u] = pc[u] /\ target'[u] = target[u]
    BY DEF Apply, PeersInv, TypeInv, Goto
<1>7. ListInv' /\ PolledInv'
    BY <1>6 DEF Apply, PeersInv, ListInv, PolledInv, dataVars, lockVars
<1>8. QED
    BY <1>4, <1>5, <1>7 DEF PeersInv

LEMMA UpdaterKeeps ==
    ASSUME PeersInv, NEW t \in Threads,
           (\E p \in Peers : EnterApply(t, p) \/ KnownPackageChanged(t, p)) \/ LeaveApply(t)
    PROVE  PeersInv'
<1>1. ASSUME NEW p \in Peers, EnterApply(t, p)
      PROVE  PeersInv'
    <2>1. TypeInv' /\ CallInv'
        BY <1>1 DEF PeersInv, TypeInv, CallInv, EnterApply, Goto, Places, dataVars
    <2>2. ListInv'
        BY <1>1 DEF PeersInv, ListInv, EnterApply, Goto, dataVars
    <2>3. PolledInv'
        BY <1>1 DEF PeersInv, PolledInv, EnterApply, Goto, dataVars
    <2>4. QED
        BY <2>1, <2>2, <2>3 DEF PeersInv
<1>2. ASSUME NEW p \in Peers, KnownPackageChanged(t, p)
      PROVE  PeersInv'
    <2>1. TypeInv' /\ CallInv'
        BY <1>2 DEF PeersInv, TypeInv, CallInv, KnownPackageChanged, lockVars
    <2>2. ListInv'
        BY <1>2 DEF PeersInv, ListInv, KnownPackageChanged, lockVars
    <2>3. PolledInv'
        BY <1>2 DEF PeersInv, PolledInv, KnownPackageChanged
    <2>4. QED
        BY <2>1, <2>2, <2>3 DEF PeersInv
<1>3. CASE LeaveApply(t)
    <2>1. TypeInv' /\ CallInv'
        BY <1>3 DEF PeersInv, TypeInv, CallInv, LeaveApply, Goto, Places, dataVars
    <2>2. ListInv'
        BY <1>3 DEF PeersInv, ListInv, LeaveApply, Goto, dataVars
    <2>3. PolledInv'
        BY <1>3 DEF PeersInv, PolledInv, LeaveApply, Goto, dataVars
    <2>4. QED
        BY <2>1, <2>2, <2>3 DEF PeersInv
<1>4. QED
    BY <1>1, <1>2, <1>3

LEMMA MarkBegins ==
    ASSUME PeersInv, NEW t \in Threads, NEW p \in Peers, NEW on \in BOOLEAN, Mark(t, p, on)
    PROVE  PeersInv'
<1>1. TypeInv' /\ CallInv'
    BY DEF PeersInv, TypeInv, CallInv, Mark, Goto, Places, dataVars, lockVars
<1>2. ListInv' /\ PolledInv'
    BY RegistryAssumption DEF PeersInv, TypeInv, CallInv, ListInv, PolledInv, Mark, Goto,
       dataVars, lockVars
<1>3. QED
    BY <1>1, <1>2 DEF PeersInv

LEMMA InitPeersInv == Init => PeersInv
BY DEF Init, PeersInv, TypeInv, CallInv, ListInv, PolledInv, NoTarget, Places

LEMMA NextKeeps == PeersInv /\ [Next]_vars => PeersInv'
<1> SUFFICES ASSUME PeersInv, [Next]_vars
             PROVE  PeersInv'
    OBVIOUS
<1>1. ASSUME NEW t \in Threads, Step(t)
      PROVE  PeersInv'
    BY <1>1, ChangeStatusKeeps, MarkKeeps, RegisterKeeps, UpdatePeersKeeps,
       LookAtRegisteredKeeps, ApplyKeeps, UpdaterKeeps DEF Step
<1>2. ASSUME NEW t \in Threads, Start(t)
      PROVE  PeersInv'
    BY <1>2, MarkBegins, UpdatePeersKeeps, UpdaterKeeps DEF Start
<1>3. CASE UNCHANGED vars
    BY <1>3 DEF vars, dataVars, lockVars, PeersInv, TypeInv, CallInv, ListInv,
       PolledInv
<1>4. QED
    BY <1>1, <1>2, <1>3 DEF Next

\* Calls hold the locks they need, and lists differ from flags only while somebody
\* is going to publish them.
THEOREM PeersInvariant == Spec => []PeersInv
BY InitPeersInv, NextKeeps, PTL DEF Spec

-----------------------------------------------------------------------------
(* The properties. *)

\* The list the other components work with holds the enabled peers.
THEOREM PublishedList == Spec => []PublishedIsEnabled
<1>1. PeersInv => PublishedIsEnabled
    BY RegistryAssumption DEF PeersInv, ListInv, PublishedIsEnabled, Changing
<1>2. QED
    BY <1>1, PeersInvariant, PTL

\* Every enabled peer is polled.
THEOREM PolledPeers == Spec => []EnabledIsPolled
<1>1. PeersInv => EnabledIsPolled
    BY DEF PeersInv, PolledInv, EnabledIsPolled, Changing
<1>2. QED
    BY <1>1, PeersInvariant, PTL
=============================================================================
