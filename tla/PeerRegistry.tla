----------------------------- MODULE PeerRegistry -----------------------------
(***************************************************************************)
(* PeerRegistry and its locks.  A peer is enabled or disabled by its       *)
(* PeerClusterStatus, under that status's lock; the event it raises, still *)
(* under that lock, takes peersLock to publish the lists, and then runs    *)
(* the listeners of PeersChanged, of which PackageStatusUpdater takes a    *)
(* lock of its own.  Two operations change a status from inside another    *)
(* lock: UpdatePeers, which enables peers again, and the updater, when it  *)
(* applies an answer that is not valid.  Locks are reentrant.              *)
(*                                                                         *)
(* When a peer is disabled is in PeersCluster; here any failure may do it. *)
(***************************************************************************)
EXTENDS Integers, Sequences, FiniteSets

CONSTANTS
    Peers,
    Threads,
    Updates,            \* what UpdatePeers is called with: sequences of peers
    Null

ASSUME RegistryAssumption ==
    /\ \A u \in Updates : u \in Seq(Peers)
    /\ Null \notin Threads /\ Null \notin Peers

VARIABLES
    registered,     \* peers
    enabled,        \* peers whose DisabledSince is zero
    immutablePeers, \* the published list
    polled,         \* the peers PackageStatusUpdater keeps
    peersLock,      \* owner of PeerRegistry.peersLock
    updaterLock,    \* owner of PackageStatusUpdater.syncLock
    statusLock,     \* statusLock[p]: owner of the lock of p's status
    pc,             \* pc[t]: what thread t does next
    outer,          \* outer[t]: the operation whose lock t holds meanwhile
    target,         \* target[t]: the peer whose status t changes, and to what
    list,           \* list[t]: peers UpdatePeers has yet to look at
    added,          \* added[t]: peers it found to be new
    refresh         \* refresh[t]: immutableListNeedsRefresh

dataVars == <<registered, enabled, immutablePeers, polled>>
lockVars == <<peersLock, updaterLock, statusLock>>
vars == <<dataVars, lockVars, pc, outer, target, list, added, refresh>>

NoTarget == [peer |-> Null, on |-> TRUE]

Init ==
    /\ registered = {} /\ enabled = {} /\ immutablePeers = {} /\ polled = {}
    /\ peersLock = Null /\ updaterLock = Null
    /\ statusLock = [p \in Peers |-> Null]
    /\ pc = [t \in Threads |-> "idle"]
    /\ outer = [t \in Threads |-> "none"]
    /\ target = [t \in Threads |-> NoTarget]
    /\ list = [t \in Threads |-> <<>>]
    /\ added = [t \in Threads |-> {}]
    /\ refresh = [t \in Threads |-> FALSE]

Goto(t, place) == pc' = [pc EXCEPT ![t] = place]

\* Thread t may enter.
Free(lock, t) == lock \in {Null, t}

-----------------------------------------------------------------------------
(* A status changes: MarkStatusUpdateSuccess, MarkStatusUpdateFail, Reenable.  *)

\* A poll, a download or a message succeeds or fails.
Mark(t, p, on) ==
    /\ pc[t] = "idle" /\ p \in registered
    /\ target' = [target EXCEPT ![t] = [peer |-> p, on |-> on]]
    /\ Goto(t, "mark")
    /\ UNCHANGED <<dataVars, lockVars, outer, list, added, refresh>>

\* DisabledSince is set, if that changes it; a failure need not do so.
ChangeStatus(t) ==
    LET p == target[t].peer
    IN  /\ pc[t] = "mark"
        /\ statusLock[p] = Null
        /\ \/ /\ (p \in enabled) # target[t].on
              /\ enabled' = IF target[t].on THEN enabled \union {p} ELSE enabled \ {p}
              /\ statusLock' = [statusLock EXCEPT ![p] = t]
              /\ Goto(t, "changed")
              /\ UNCHANGED target
           \/ /\ (p \in enabled) = target[t].on \/ ~target[t].on
              /\ Goto(t, outer[t])
              /\ target' = [target EXCEPT ![t] = NoTarget]
              /\ UNCHANGED <<enabled, statusLock>>
        /\ UNCHANGED <<registered, immutablePeers, polled, peersLock, updaterLock,
                       outer, list, added, refresh>>

\* Mutant: the flags of all peers are read under their locks.
PublishLocked(t) ==
    /\ pc[t] = "changed"
    /\ Free(peersLock, t)
    /\ \A p \in registered : Free(statusLock[p], t)
    /\ immutablePeers' = registered \intersect enabled
    /\ Goto(t, "notify")
    /\ UNCHANGED <<registered, enabled, polled, lockVars, outer, target, list, added, refresh>>

\* Mutant: the status is let go before the listeners are called.
PublishAndUnlock(t) ==
    /\ pc[t] = "changed"
    /\ Free(peersLock, t)
    /\ immutablePeers' = registered \intersect enabled
    /\ statusLock' = [statusLock EXCEPT ![target[t].peer] = Null]
    /\ Goto(t, "notify")
    /\ UNCHANGED <<registered, enabled, polled, peersLock, updaterLock, outer,
                   target, list, added, refresh>>

\* Peer_ChangedIsEnabled, under peersLock: the lists are published.
Publish(t) ==
    /\ pc[t] = "changed"
    /\ Free(peersLock, t)
    /\ immutablePeers' = registered \intersect enabled
    /\ Goto(t, "notify")
    /\ UNCHANGED <<registered, enabled, polled, lockVars, outer, target, list, added, refresh>>

\* PeersChanged: the updater adds or removes the peer.
Notify(t) ==
    LET p == target[t].peer
    IN  /\ pc[t] = "notify"
        /\ Free(updaterLock, t)
        /\ polled' = IF target[t].on THEN polled \union {p} ELSE polled \ {p}
        /\ Goto(t, "unlock")
        /\ UNCHANGED <<registered, enabled, immutablePeers, lockVars, outer,
                       target, list, added, refresh>>

EndChange(t) ==
    /\ pc[t] = "unlock"
    /\ statusLock' = [statusLock EXCEPT ![target[t].peer] = Null]
    /\ target' = [target EXCEPT ![t] = NoTarget]
    /\ Goto(t, outer[t])
    /\ UNCHANGED <<dataVars, peersLock, updaterLock, outer, list, added, refresh>>

-----------------------------------------------------------------------------
(* UpdatePeers. *)

EnterUpdatePeers(t, update) ==
    /\ pc[t] = "idle"
    /\ peersLock = Null
    /\ peersLock' = t
    /\ list' = [list EXCEPT ![t] = update]
    /\ outer' = [outer EXCEPT ![t] = "list"]
    /\ Goto(t, "list")
    /\ UNCHANGED <<dataVars, updaterLock, statusLock, target, added, refresh>>

\* A new peer is registered with a new status.
Register(t) ==
    /\ pc[t] = "list" /\ list[t] # <<>>
    /\ LET p == Head(list[t])
       IN  /\ p \notin registered
           /\ registered' = registered \union {p}
           /\ enabled' = enabled \union {p}
           /\ added' = [added EXCEPT ![t] = @ \union {p}]
    /\ refresh' = [refresh EXCEPT ![t] = TRUE]
    /\ list' = [list EXCEPT ![t] = Tail(@)]
    /\ UNCHANGED <<immutablePeers, polled, lockVars, pc, outer, target>>

\* A peer that is registered: it is enabled again, if it was heard of since it
\* failed.  Its status is read without its lock.
LookAtRegistered(t, heard) ==
    /\ pc[t] = "list" /\ list[t] # <<>>
    /\ LET p == Head(list[t])
       IN  /\ p \in registered
           /\ IF p \notin enabled /\ heard
              THEN /\ target' = [target EXCEPT ![t] = [peer |-> p, on |-> TRUE]]
                   /\ refresh' = [refresh EXCEPT ![t] = TRUE]
                   /\ Goto(t, "mark")
              ELSE UNCHANGED <<target, refresh, pc>>
    /\ list' = [list EXCEPT ![t] = Tail(@)]
    /\ UNCHANGED <<dataVars, lockVars, outer, added>>

\* Mutant: a peer that is new is not published.
LeaveUpdatePeersUnpublished(t) ==
    /\ pc[t] = "list" /\ list[t] = <<>>
    /\ refresh' = [refresh EXCEPT ![t] = FALSE]
    /\ peersLock' = Null
    /\ outer' = [outer EXCEPT ![t] = "none"]
    /\ Goto(t, IF added[t] = {} THEN "none" ELSE "added")
    /\ UNCHANGED <<dataVars, updaterLock, statusLock, target, list, added>>

\* The lists are published if a peer is new or enabled again, and peersLock is
\* left.
LeaveUpdatePeers(t) ==
    /\ pc[t] = "list" /\ list[t] = <<>>
    /\ immutablePeers' = IF refresh[t] THEN registered \intersect enabled ELSE immutablePeers
    /\ refresh' = [refresh EXCEPT ![t] = FALSE]
    /\ peersLock' = Null
    /\ outer' = [outer EXCEPT ![t] = "none"]
    /\ Goto(t, IF added[t] = {} THEN "none" ELSE "added")
    /\ UNCHANGED <<registered, enabled, polled, updaterLock, statusLock, target,
                   list, added>>

\* PeersChanged for the peers that are new.
NotifyAdded(t) ==
    /\ pc[t] = "added"
    /\ updaterLock = Null
    /\ polled' = polled \union added[t]
    /\ added' = [added EXCEPT ![t] = {}]
    /\ Goto(t, "none")
    /\ UNCHANGED <<registered, enabled, immutablePeers, lockVars, outer, target, list, refresh>>

Return(t) ==
    /\ pc[t] = "none"
    /\ Goto(t, "idle")
    /\ UNCHANGED <<dataVars, lockVars, outer, target, list, added, refresh>>

-----------------------------------------------------------------------------
(* PackageStatusUpdater. *)

\* KnownPackageChanged of a registered peer.
KnownPackageChanged(t, p) ==
    /\ pc[t] = "idle" /\ p \in registered
    /\ updaterLock = Null
    /\ polled' = polled \union {p}
    /\ UNCHANGED <<registered, enabled, immutablePeers, lockVars, pc, outer,
                   target, list, added, refresh>>

\* ApplyClientStatus takes the lock for the answer of peer p, a detail for each
\* package (one here) ...
EnterApply(t, p) ==
    /\ pc[t] = "idle" /\ p \in registered
    /\ updaterLock = Null
    /\ updaterLock' = t
    /\ list' = [list EXCEPT ![t] = <<p>>]
    /\ outer' = [outer EXCEPT ![t] = "apply"]
    /\ Goto(t, "apply")
    /\ UNCHANGED <<dataVars, peersLock, statusLock, target, added, refresh>>

\* ... and a detail that is not valid is a failure of the peer.
Apply(t, valid) ==
    /\ pc[t] = "apply" /\ list[t] # <<>>
    /\ list' = [list EXCEPT ![t] = Tail(@)]
    /\ IF valid
       THEN UNCHANGED <<target, pc>>
       ELSE /\ target' = [target EXCEPT ![t] = [peer |-> Head(list[t]), on |-> FALSE]]
            /\ Goto(t, "mark")
    /\ UNCHANGED <<dataVars, lockVars, outer, added, refresh>>

LeaveApply(t) ==
    /\ pc[t] = "apply" /\ list[t] = <<>>
    /\ updaterLock' = Null
    /\ outer' = [outer EXCEPT ![t] = "none"]
    /\ Goto(t, "idle")
    /\ UNCHANGED <<dataVars, peersLock, statusLock, target, list, added, refresh>>

\* A thread goes on with its operation.
Step(t) ==
    \/ ChangeStatus(t) \/ Publish(t) \/ Notify(t) \/ EndChange(t)
    \/ Register(t) \/ LeaveUpdatePeers(t) \/ NotifyAdded(t) \/ Return(t)
    \/ \E b \in BOOLEAN : LookAtRegistered(t, b) \/ Apply(t, b)
    \/ LeaveApply(t)

Start(t) ==
    \/ \E p \in Peers, on \in BOOLEAN : Mark(t, p, on)
    \/ \E u \in Updates : EnterUpdatePeers(t, u)
    \/ \E p \in Peers : KnownPackageChanged(t, p) \/ EnterApply(t, p)

Next == \E t \in Threads : Step(t) \/ Start(t)

Spec == Init /\ [][Next]_vars

\* Threads go on, and those that wait for a lock get it in turn.
FairSpec == Spec /\ \A t \in Threads : SF_vars(Step(t))

-----------------------------------------------------------------------------
(* Correctness. *)

Changing(p) == \E t \in Threads : target[t].peer = p /\ pc[t] # "mark"

\* The list the other components work with holds the enabled peers, though each
\* publication reads the flags of all peers without their locks, and peers are
\* registered meanwhile.
PublishedIsEnabled ==
    \A p \in registered :
        ~Changing(p) /\ peersLock = Null => (p \in immutablePeers <=> p \in enabled)

\* Every enabled peer is polled once its listeners have run: no change of a peer
\* is applied by the updater after a later one.
EnabledIsPolled ==
    \A p \in registered :
        ~Changing(p) /\ peersLock = Null /\ p \in enabled /\ (\A t \in Threads : p \notin added[t])
            => p \in polled

\* The thread t waits for, or Null.
Owner(t) ==
    LET lock == CASE pc[t] = "mark"              -> statusLock[target[t].peer]
                  [] pc[t] = "changed"           -> peersLock
                  [] pc[t] \in {"notify", "added"} -> updaterLock
                  [] OTHER                       -> Null
    IN  IF lock = t THEN Null ELSE lock

\* Threads wait for each other, one of them inside UpdatePeers or with an answer
\* of a poll.
NestedDeadlock ==
    \E waiting \in SUBSET Threads \ {{}} :
        /\ \A t \in waiting : Owner(t) \in waiting
        /\ \E t \in waiting : outer[t] # "none"

\* Calls end, whatever locks they take inside each other's events, unless a
\* change of a status from inside another lock meets one that takes the locks
\* in the opposite order.
EndsOrDeadlocks ==
    \A t \in Threads : (pc[t] # "idle") ~> (pc[t] = "idle" \/ NestedDeadlock)
=============================================================================
