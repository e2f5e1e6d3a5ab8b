-------------------------- MODULE PeersClusterProofs --------------------------
(***************************************************************************)
(* Proofs about PeersCluster for any peers, overlapping callbacks and      *)
(* rounds, and any intervals: a plan is never lost, and a peer is never    *)
(* disabled within the time it is protected.  The bounds on changes and on *)
(* the clock play no part in them.                                         *)
(***************************************************************************)
EXTENDS PeersCluster, TLAPS

-----------------------------------------------------------------------------
(* The timer. *)

CallbackStages == {"idle", "entering", "sending", "ending"}

InsideCallback(c) == callback[c] \in {"sending", "ending"}

\* While an update is in progress a callback has its end before it, where it will
\* find what was planned meanwhile.
PlanInv ==
    /\ isStatusUpdateScheduled \in BOOLEAN
    /\ isStatusUpdateInProgress \in BOOLEAN
    /\ timer \in BOOLEAN
    /\ callback \in [Callbacks -> CallbackStages]
    /\ isStatusUpdateInProgress => \E c \in Callbacks : InsideCallback(c)
    /\ NoPlanLost

\* Planning an update is safe where the callbacks stay as they are.
LEMMA PlanKeepsPlans ==
    ASSUME PlanInv, NEW all \in BOOLEAN,
           PlanSendingClusterUpdate(all) \/ UNCHANGED planVars,
           UNCHANGED <<callback, isStatusUpdateInProgress>>
    PROVE  PlanInv'
<1>1. /\ callback' \in [Callbacks -> CallbackStages]
      /\ isStatusUpdateInProgress' \in BOOLEAN
      /\ \A c \in Callbacks : callback'[c] = callback[c]
    BY DEF PlanInv
<1>2. isStatusUpdateInProgress' => \E c \in Callbacks : InsideCallback(c)'
    BY DEF PlanInv, InsideCallback
<1>3. CASE UNCHANGED planVars
    BY <1>1, <1>2, <1>3 DEF planVars, PlanInv, NoPlanLost
<1>4. CASE PlanSendingClusterUpdate(all)
    <2>1. isStatusUpdateScheduled' \in BOOLEAN /\ timer' \in BOOLEAN
        BY <1>4, Zenon DEF PlanSendingClusterUpdate
    <2>2. CASE isStatusUpdateScheduled \/ ~isStatusUpdateInProgress
        <3>1. timer => timer'
            BY <1>4, Zenon DEF PlanSendingClusterUpdate
        <3>2. timer' \/ \E c \in Callbacks : callback[c] # "idle"
            BY <1>4, <2>2, <3>1, Zenon DEF PlanSendingClusterUpdate, PlanInv, NoPlanLost
        <3>3. QED
            BY <1>1, <1>2, <2>1, <3>2 DEF PlanInv, NoPlanLost
    <2>3. CASE isStatusUpdateInProgress
        BY <1>1, <1>2, <2>1, <2>3 DEF PlanInv, NoPlanLost, InsideCallback
    <2>4. QED
        BY <2>2, <2>3
<1>5. QED
    BY <1>3, <1>4

LEMMA PeerStepKeepsPlans ==
    ASSUME PlanInv, NEW p \in Peers, NEW new, SetStatus(p, new),
           UNCHANGED <<callback, isStatusUpdateInProgress>>
    PROVE  PlanInv'
<1>1. PlanSendingClusterUpdate(FALSE) \/ UNCHANGED planVars
    BY DEF SetStatus
<1>2. QED
    BY <1>1, PlanKeepsPlans

LEMMA CallbackKeepsPlans ==
    ASSUME PlanInv, NEW c \in Callbacks, CallbackStep(c)
    PROVE  PlanInv'
<1>1. CASE TimerFires(c)
    <2>1. /\ callback' = [callback EXCEPT ![c] = "entering"]
          /\ callback[c] = "idle"
        BY <1>1 DEF TimerFires
    <2>2. \A d \in Callbacks : InsideCallback(d) => InsideCallback(d)'
        BY <2>1 DEF InsideCallback, PlanInv
    <2>3. callback'[c] # "idle"
        BY <2>1 DEF PlanInv
    <2>4. QED
        BY <1>1, <2>1, <2>2, <2>3 DEF TimerFires, PlanInv, NoPlanLost, CallbackStages
<1>2. CASE EnterCallback(c)
    <2>1. CASE isStatusUpdateScheduled
        <3>1. InsideCallback(c)'
            BY <1>2, <2>1 DEF EnterCallback, InsideCallback, PlanInv
        <3>2. QED
            BY <1>2, <2>1, <3>1 DEF EnterCallback, PlanInv, NoPlanLost, CallbackStages
    <2>2. CASE ~isStatusUpdateScheduled
        <3>1. \A d \in Callbacks : InsideCallback(d) => InsideCallback(d)'
            BY <1>2, <2>2 DEF EnterCallback, InsideCallback, PlanInv
        <3>2. QED
            BY <1>2, <2>2, <3>1 DEF EnterCallback, PlanInv, NoPlanLost, CallbackStages
    <2>3. QED
        BY <2>1, <2>2
<1>3. CASE EndCallback(c)
    BY <1>3 DEF EndCallback, PlanInv, NoPlanLost, CallbackStages
<1>4. ASSUME NEW r \in Rounds, SendStatusUpdate(c, r)
      PROVE  PlanInv'
    <2>1. callback' = [callback EXCEPT ![c] = "ending"] /\ callback[c] = "sending"
        BY <1>4 DEF SendStatusUpdate
    <2>2. \A d \in Callbacks : InsideCallback(d) => InsideCallback(d)'
        BY <2>1 DEF InsideCallback, PlanInv
    <2>3. callback'[c] # "idle"
        BY <2>1 DEF PlanInv
    <2>4. QED
        BY <1>4, <2>1, <2>2, <2>3
           DEF SendStatusUpdate, planVars, PlanInv, NoPlanLost, CallbackStages
<1>5. QED
    BY <1>1, <1>2, <1>3, <1>4 DEF CallbackStep

\* The invariant that makes planning work, for any number of callbacks that
\* overlap: whoever finds an update in progress may leave its plan to its end.
THEOREM PlanInvariant == Spec => []PlanInv
<1>1. Init => PlanInv
    BY DEF Init, PlanInv, NoPlanLost, CallbackStages
<1>2. PlanInv /\ [Next]_vars => PlanInv'
    <2> SUFFICES ASSUME PlanInv, [Next]_vars
                 PROVE  PlanInv'
        OBVIOUS
    <2>1. CASE UNCHANGED vars
        BY <2>1 DEF vars, planVars, PlanInv, NoPlanLost, InsideCallback
    <2>2. CASE Tick
        BY <2>2, PlanKeepsPlans DEF Tick
    <2>3. CASE Changed
        BY <2>3, PlanKeepsPlans DEF Changed
    <2>4. ASSUME NEW c \in Callbacks, CallbackStep(c)
          PROVE  PlanInv'
        BY <2>4, CallbackKeepsPlans
    <2>5. ASSUME NEW r \in Rounds, NEW p \in Peers, SendStep(r, p)
          PROVE  PlanInv'
        BY <2>5, PlanKeepsPlans, PeerStepKeepsPlans DEF SendStep, SendOrSkip, Answer, Fail
    <2>6. ASSUME NEW p \in Peers, Discover(p) \/ Reenable(p) \/ Incoming(p)
          PROVE  PlanInv'
        BY <2>6, PeerStepKeepsPlans DEF Discover, Reenable, Incoming
    <2>7. ASSUME NEW p \in Peers, NEW success \in BOOLEAN, Contact(p, success)
          PROVE  PlanInv'
        BY <2>7, PeerStepKeepsPlans DEF Contact
    <2>8. QED
        BY <2>1, <2>2, <2>3, <2>4, <2>5, <2>6, <2>7 DEF Next
<1>3. QED
    BY <1>1, <1>2, PTL DEF Spec

\* A planned update has someone to run it.
THEOREM PlansAreRun == Spec => []NoPlanLost
<1>1. PlanInv => NoPlanLost
    BY DEF PlanInv
<1>2. QED
    BY <1>1, PlanInvariant, PTL
-----------------------------------------------------------------------------
(* The status of a peer. *)

StatusRecord ==
    [enabled : BOOLEAN, attempt : Nat, version : Nat, fails : Nat, firstFail : Nat,
     success : Nat, known : BOOLEAN]

\* The fails that are counted are later than the last success.
FailsAfterSuccess(s) ==
    /\ s \in StatusRecord
    /\ s.success <= now
    /\ s.fails # 0 => s.success <= s.firstFail /\ s.firstFail <= now

StatusInv ==
    /\ now \in Nat /\ statusVersion \in Nat
    /\ DOMAIN status = Peers /\ status = [p \in Peers |-> status[p]]
    /\ \A p \in Peers : FailsAfterSuccess(status[p])

LEMMA NewStatusFits ==
    ASSUME now \in Nat
    PROVE  FailsAfterSuccess(Unknown) /\ FailsAfterSuccess(NewStatus)
<1>1. Unknown \in StatusRecord /\ Unknown.success = 0 /\ Unknown.fails = 0
    BY DEF StatusRecord, Unknown
<1>2. NewStatus = [Unknown EXCEPT !.enabled = TRUE, !.known = TRUE]
    BY DEF NewStatus
<1> HIDE DEF Unknown
<1>3. NewStatus \in StatusRecord /\ NewStatus.success = 0 /\ NewStatus.fails = 0
    BY <1>1, <1>2 DEF StatusRecord
<1>4. QED
    BY <1>1, <1>3 DEF FailsAfterSuccess

LEMMA SucceededFits ==
    ASSUME now \in Nat, NEW s, FailsAfterSuccess(s), NEW v \in Nat
    PROVE  FailsAfterSuccess(Succeeded(s, v)) /\ Succeeded(s, v).enabled
<1>1. s \in StatusRecord
    BY DEF FailsAfterSuccess
<1> DEFINE r == [s EXCEPT !.attempt = now, !.version = v, !.success = now]
<1>2. r \in StatusRecord /\ r.success = now
    BY <1>1 DEF StatusRecord
<1> HIDE DEF r
<1> DEFINE q == [r EXCEPT !.fails = 0, !.firstFail = 0, !.enabled = TRUE]
<1>3. q \in StatusRecord /\ q.success = now /\ q.fails = 0
    BY <1>2 DEF StatusRecord
<1>4. q.enabled
    BY <1>2 DEF StatusRecord
<1>5. Succeeded(s, v) = q
    BY DEF Succeeded, r
<1> HIDE DEF q
<1>6. QED
    BY <1>3, <1>4, <1>5 DEF FailsAfterSuccess

LEMMA ReenabledFits ==
    ASSUME now \in Nat, NEW s, FailsAfterSuccess(s)
    PROVE  FailsAfterSuccess([s EXCEPT !.enabled = TRUE, !.fails = 0, !.firstFail = 0])
BY DEF FailsAfterSuccess, StatusRecord

\* A fail disables a peer only when its first fail, and so its last success, is
\* old enough.
LEMMA FailedFits ==
    ASSUME now \in Nat, NEW s, FailsAfterSuccess(s)
    PROVE  /\ FailsAfterSuccess(Failed(s))
           /\ s.enabled /\ ~Failed(s).enabled => s.success + DisableAfterTime <= now
<1> DEFINE fails == IF s.fails < DisableAfterFails THEN s.fails + 1 ELSE s.fails
           first == IF s.fails = 0 THEN now ELSE s.firstFail
           out   == fails >= DisableAfterFails /\ first + DisableAfterTime <= now
<1>1. /\ s \in StatusRecord /\ s.success \in Nat /\ s.firstFail \in Nat
      /\ fails \in Nat \ {0} /\ first \in Nat
      /\ s.success <= first /\ first <= now
      /\ DisableAfterTime \in Nat
    BY ClusterAssumption DEF FailsAfterSuccess, StatusRecord
<1>2. out \in BOOLEAN
    OBVIOUS
<1>3. Failed(s) = [s EXCEPT !.attempt = now, !.fails = fails, !.firstFail = first,
                            !.enabled = @ /\ ~out]
    BY DEF Failed
<1> HIDE DEF fails, first, out
<1>4. (s.enabled /\ ~out) \in BOOLEAN
    BY Zenon
<1>5. /\ Failed(s).success = s.success /\ Failed(s).fails = fails
      /\ Failed(s).firstFail = first /\ Failed(s) \in StatusRecord
      /\ Failed(s).enabled = (s.enabled /\ ~out)
    BY <1>1, <1>3, <1>4 DEF StatusRecord
<1>6. FailsAfterSuccess(Failed(s))
    BY <1>1, <1>5 DEF FailsAfterSuccess
<1>7. s.enabled /\ ~Failed(s).enabled => out
    BY <1>5, Zenon
<1>8. out => s.success + DisableAfterTime <= now
    BY <1>1 DEF out
<1>9. QED
    BY <1>6, <1>7, <1>8

\* What a step does to a peer's status.
Protected(p) ==
    status[p].enabled /\ ~status'[p].enabled => status[p].success + DisableAfterTime <= now

LEMMA SetStatusFits ==
    ASSUME StatusInv, NEW p \in Peers, NEW new, SetStatus(p, new), now' = now,
           FailsAfterSuccess(new),
           status[p].enabled /\ ~new.enabled => status[p].success + DisableAfterTime <= now
    PROVE  StatusInv' /\ \A q \in Peers : Protected(q)
<1>1. /\ status' = [status EXCEPT ![p] = new]
      /\ statusVersion' \in Nat
    BY DEF SetStatus, PlanSendingClusterUpdate, planVars, StatusInv
<1>2. /\ DOMAIN status' = Peers /\ status' = [q \in Peers |-> status'[q]]
      /\ status'[p] = new /\ \A q \in Peers \ {p} : status'[q] = status[q]
    BY <1>1 DEF StatusInv
<1>3. \A q \in Peers : FailsAfterSuccess(status'[q])
    BY <1>2 DEF StatusInv
<1>4. \A q \in Peers : FailsAfterSuccess(status[q])'
    BY <1>3 DEF FailsAfterSuccess
<1>5. \A q \in Peers : Protected(q)
    BY <1>2 DEF Protected
<1>6. QED
    BY <1>1, <1>2, <1>4, <1>5 DEF StatusInv

\* Steps that leave the statuses alone.
LEMMA OtherStepFits ==
    ASSUME StatusInv, status' = status, now' \in {now, now + 1},
           statusVersion' \in Nat
    PROVE  StatusInv' /\ \A q \in Peers : Protected(q)
<1>1. now' \in Nat /\ now <= now'
    BY DEF StatusInv
<1>2. \A q \in Peers : FailsAfterSuccess(status[q])'
    BY <1>1 DEF FailsAfterSuccess, StatusInv, StatusRecord
<1>3. QED
    BY <1>1, <1>2 DEF StatusInv, Protected

LEMMA StatusStep ==
    ASSUME StatusInv, [Next]_vars
    PROVE  StatusInv' /\ \A q \in Peers : Protected(q)
<1> DEFINE Good == StatusInv' /\ \A q \in Peers : Protected(q)
<1>0. now \in Nat /\ statusVersion \in Nat /\ \A p \in Peers : FailsAfterSuccess(status[p])
    BY DEF StatusInv
<1>1. CASE UNCHANGED vars
    BY <1>0, <1>1, OtherStepFits DEF vars, planVars
<1>2. CASE Tick \/ Changed
    BY <1>0, <1>2, OtherStepFits
       DEF Tick, Changed, PlanSendingClusterUpdate, planVars
<1>3. ASSUME NEW c \in Callbacks, CallbackStep(c)
      PROVE  Good
    BY <1>0, <1>3, OtherStepFits
       DEF CallbackStep, TimerFires, EnterCallback, EndCallback, SendStatusUpdate,
           planVars
<1>4. ASSUME NEW r \in Rounds, NEW p \in Peers, SendOrSkip(r, p)
      PROVE  Good
    BY <1>0, <1>4, OtherStepFits DEF SendOrSkip, planVars
<1>5. ASSUME NEW r \in Rounds, NEW p \in Peers, Answer(r, p)
      PROVE  Good
    BY <1>0, <1>5, SetStatusFits, SucceededFits DEF Answer
<1>6. ASSUME NEW r \in Rounds, NEW p \in Peers, Fail(r, p)
      PROVE  Good
    BY <1>0, <1>6, SetStatusFits, FailedFits DEF Fail
<1>7. ASSUME NEW p \in Peers, Discover(p)
      PROVE  Good
    BY <1>0, <1>7, SetStatusFits, NewStatusFits DEF Discover, NewStatus, Unknown
<1>8. ASSUME NEW p \in Peers, Reenable(p)
      PROVE  Good
    BY <1>0, <1>8, SetStatusFits, ReenabledFits DEF Reenable
<1>9. ASSUME NEW p \in Peers, Incoming(p)
      PROVE  Good
    <2>1. FailsAfterSuccess([status[p] EXCEPT !.known = TRUE])
        BY <1>0 DEF FailsAfterSuccess, StatusRecord
    <2>2. QED
        BY <1>0, <1>9, <2>1, SetStatusFits, SucceededFits DEF Incoming
<1>10. ASSUME NEW p \in Peers, NEW success \in BOOLEAN, Contact(p, success)
       PROVE  Good
    <2>1. status[p].version \in Nat
        BY <1>0 DEF FailsAfterSuccess, StatusRecord
    <2>2. CASE success
        BY <1>0, <1>10, <2>1, <2>2, SetStatusFits, SucceededFits DEF Contact
    <2>3. CASE ~success
        BY <1>0, <1>10, <2>3, SetStatusFits, FailedFits DEF Contact
    <2>4. QED
        BY <2>2, <2>3
<1>11. QED
    BY <1>1, <1>2, <1>3, <1>4, <1>5, <1>6, <1>7, <1>8, <1>9, <1>10 DEF Next, SendStep

\* Whatever messages, polls and downloads overlap, the fails that count towards
\* disabling a peer are later than its last success.
THEOREM StatusInvariant == Spec => []StatusInv
<1>1. Init => StatusInv
    BY NewStatusFits DEF Init, StatusInv
<1>2. StatusInv /\ [Next]_vars => StatusInv'
    BY StatusStep
<1>3. QED
    BY <1>1, <1>2, PTL DEF Spec

\* A peer is not disabled within the time it is protected since it was last heard
\* of.
THEOREM PeersProtected == Spec => PeersAreProtected
<1>1. StatusInv /\ [Next]_vars =>
        [\A p \in Peers :
            (status[p].enabled /\ ~status'[p].enabled)
                => status[p].success + DisableAfterTime <= now]_vars
    BY StatusStep DEF Protected
<1>2. QED
    BY <1>1, StatusInvariant, PTL DEF Spec, PeersAreProtected
=============================================================================
