----------------------------- MODULE PeersCluster -----------------------------
(***************************************************************************)
(* How a node tells its peers what it has: PeersCluster, and the status    *)
(* PeerClusterStatus keeps of each peer.                                   *)
(*                                                                         *)
(* A change of the local packages, or a peer that is added, plans a        *)
(* cluster update.  A one-shot timer runs it: the callback collects the    *)
(* peers that are due and leaves the sending to a background task (a       *)
(* round), so rounds overlap.  The query for the peers is lazy: the task   *)
(* evaluates it again, peer by peer, with the callback's array of peers,   *)
(* time and stamp.                                                         *)
(*                                                                         *)
(* Peers also send messages of their own, and polls and downloads contact  *)
(* them.  Handling a message is one step here; the locks of the peers'      *)
(* registry are in PeerRegistry.  The clock is the uptime of the process.  *)
(***************************************************************************)
EXTENDS Integers

CONSTANTS
    Peers,
    Callbacks,          \* threads that may run the timer's callback
    Rounds,             \* background tasks that may run at once
    Maximum, Fast,      \* PeerStatusUpdateStatusMaximumTimer, ...FastTimer
    DisableAfterFails, DisableAfterTime,
    Changes,            \* bound: changes of the local packages (statusVersion)
    MaxTime             \* bound: the clock

ASSUME ClusterAssumption ==
    /\ Fast \in Nat /\ Maximum \in Nat /\ Fast < Maximum
    /\ DisableAfterFails \in Nat \ {0} /\ DisableAfterTime \in Nat
    /\ Changes \in Nat /\ MaxTime \in Nat

VARIABLES
    now,
    statusVersion,
    isStatusUpdateScheduled,
    isStatusUpdateInProgress,
    timer,              \* statusUpdateTimer is set
    callback,           \* callback[c]: where the timer's callback is
    round,              \* round[r]: the time and stamp the callback took
    send,               \* send[r][p]: where round r is with peer p: "none", "left",
                        \* "request"
    status              \* status[p]: PeerClusterStatus, Unknown if not registered

planVars == <<statusVersion, isStatusUpdateScheduled, timer>>
vars == <<now, planVars, isStatusUpdateInProgress, callback, round, send, status>>

Unknown == [enabled |-> FALSE, attempt |-> 0, version |-> 0, fails |-> 0,
            firstFail |-> 0, success |-> 0, known |-> FALSE]

\* A new PeerClusterStatus.
NewStatus == [Unknown EXCEPT !.enabled = TRUE, !.known = TRUE]

NoRound == [time |-> 0, stamp |-> 0]

\* The timer is created due at once.
Init ==
    /\ now = 0
    /\ statusVersion = 1
    /\ isStatusUpdateScheduled = FALSE
    /\ isStatusUpdateInProgress = FALSE
    /\ timer = TRUE
    /\ callback = [c \in Callbacks |-> "idle"]
    /\ round = [r \in Rounds |-> NoRound]
    /\ send = [r \in Rounds |-> [p \in Peers |-> "none"]]
    /\ status = [p \in Peers |-> Unknown]

Tick ==
    /\ now < MaxTime
    /\ now' = now + 1
    /\ UNCHANGED <<planVars, isStatusUpdateInProgress, callback, round, send, status>>

-----------------------------------------------------------------------------
(* Planning and the timer. *)

\* PlanSendingClusterUpdate: a timer in progress is set when it ends.
PlanSendingClusterUpdate(notifyAll) ==
    /\ statusVersion' = IF notifyAll THEN statusVersion + 1 ELSE statusVersion
    /\ isStatusUpdateScheduled' = TRUE
    /\ timer' = (timer \/ (~isStatusUpdateScheduled /\ ~isStatusUpdateInProgress))

\* A package is created, deleted or its download starts, and the event is raised.
Changed ==
    /\ statusVersion <= Changes
    /\ PlanSendingClusterUpdate(TRUE)
    /\ UNCHANGED <<now, isStatusUpdateInProgress, callback, round, send, status>>

TimerFires(c) ==
    /\ timer /\ callback[c] = "idle"
    /\ timer' = FALSE
    /\ callback' = [callback EXCEPT ![c] = "entering"]
    /\ UNCHANGED <<now, statusVersion, isStatusUpdateScheduled,
                   isStatusUpdateInProgress, round, send, status>>

\* StatusUpdateTimerCallback, first lock.
EnterCallback(c) ==
    /\ callback[c] = "entering"
    /\ IF isStatusUpdateScheduled
       THEN /\ isStatusUpdateScheduled' = FALSE
            /\ isStatusUpdateInProgress' = TRUE
            /\ callback' = [callback EXCEPT ![c] = "sending"]
       ELSE /\ callback' = [callback EXCEPT ![c] = "idle"]
            /\ UNCHANGED <<isStatusUpdateScheduled, isStatusUpdateInProgress>>
    /\ UNCHANGED <<now, statusVersion, timer, round, send, status>>

\* The query's condition.
Due(p, time, stamp) ==
    \/ status[p].attempt > time - Maximum
    \/ status[p].attempt > time - Fast /\ status[p].version < stamp

\* ImmutablePeers; loopback peers are left out.
ImmutablePeers == {p \in Peers : status[p].known /\ status[p].enabled}

\* SendStatusUpdateInternal: with nobody due there is no task.
SendStatusUpdate(c, r) ==
    LET due == {p \in ImmutablePeers : Due(p, now, statusVersion)}
    IN  /\ callback[c] = "sending"
        /\ \A p \in Peers : send[r][p] = "none"
        /\ IF due = {}
           THEN UNCHANGED <<round, send>>
           ELSE /\ round' = [round EXCEPT ![r] = [time |-> now, stamp |-> statusVersion]]
                /\ send' = [send EXCEPT ![r] =
                              [p \in Peers |-> IF p \in ImmutablePeers
                                               THEN "left" ELSE "none"]]
        /\ callback' = [callback EXCEPT ![c] = "ending"]
        /\ UNCHANGED <<now, planVars, isStatusUpdateInProgress, status>>

\* Mutant: what was planned during the update is not scheduled.
EndCallbackForgets(c) ==
    /\ callback[c] = "ending"
    /\ isStatusUpdateInProgress' = FALSE
    /\ callback' = [callback EXCEPT ![c] = "idle"]
    /\ UNCHANGED <<now, planVars, round, send, status>>

\* StatusUpdateTimerCallback, the finally block.
EndCallback(c) ==
    /\ callback[c] = "ending"
    /\ isStatusUpdateInProgress' = FALSE
    /\ timer' = (timer \/ isStatusUpdateScheduled)
    /\ callback' = [callback EXCEPT ![c] = "idle"]
    /\ UNCHANGED <<now, statusVersion, isStatusUpdateScheduled, round, send, status>>

-----------------------------------------------------------------------------
(* The status of a peer. *)

\* Mutant: the fails are not forgotten.
SucceededCounting(s, version) ==
    [s EXCEPT !.attempt = now, !.version = version, !.success = now, !.enabled = TRUE]

\* MarkStatusUpdateSuccess.  (The code leaves the time of the first fail, which
\* the next fail overwrites.)
Succeeded(s, version) ==
    [s EXCEPT !.attempt = now, !.version = version, !.success = now, !.fails = 0,
              !.firstFail = 0, !.enabled = TRUE]

\* MarkStatusUpdateFail.
Failed(s) ==
    LET fails == IF s.fails < DisableAfterFails THEN s.fails + 1 ELSE s.fails
        first == IF s.fails = 0 THEN now ELSE s.firstFail
    IN  [s EXCEPT !.attempt = now, !.fails = fails, !.firstFail = first,
                  !.enabled = @ /\ ~(fails >= DisableAfterFails /\ first + DisableAfterTime <= now)]

\* A status that is set to new, and what PeersChanged makes of it: a peer that is
\* enabled is one that was added.
SetStatus(p, new) ==
    /\ status' = [status EXCEPT ![p] = new]
    /\ IF new.enabled /\ ~status[p].enabled
       THEN PlanSendingClusterUpdate(FALSE)
       ELSE UNCHANGED planVars

\* UpdatePeers, from an UDP announcement or another peer's list.
Discover(p) ==
    /\ ~status[p].known
    /\ SetStatus(p, NewStatus)
    /\ UNCHANGED <<now, isStatusUpdateInProgress, callback, round, send>>

\* UpdatePeers, when another peer has heard of p after it failed here.
Reenable(p) ==
    /\ status[p].known /\ ~status[p].enabled
    /\ SetStatus(p, [status[p] EXCEPT !.enabled = TRUE, !.fails = 0, !.firstFail = 0])
    /\ UNCHANGED <<now, isStatusUpdateInProgress, callback, round, send>>

\* A poll or a download that succeeds or not.
Contact(p, success) ==
    /\ status[p].known
    /\ SetStatus(p, IF success THEN Succeeded(status[p], status[p].version)
                    ELSE Failed(status[p]))
    /\ UNCHANGED <<now, isStatusUpdateInProgress, callback, round, send>>

-----------------------------------------------------------------------------
(* Messages. *)

\* The task reaches peer p: it skips it or sends its message.
SendOrSkip(r, p) ==
    /\ send[r][p] = "left"
    /\ send' = [send EXCEPT ![r][p] =
                  IF Due(p, round[r].time, round[r].stamp) THEN "request" ELSE "none"]
    /\ round' = IF \E q \in Peers \ {p} : send[r][q] = "left"
                THEN round ELSE [round EXCEPT ![r] = NoRound]
    /\ UNCHANGED <<now, planVars, isStatusUpdateInProgress, callback, status>>

\* Its answer, if it comes: whatever changed since, the peer is taken to know the
\* present version.
Answer(r, p) ==
    /\ send[r][p] = "request"
    /\ send' = [send EXCEPT ![r][p] = "none"]
    /\ SetStatus(p, Succeeded(status[p], statusVersion))
    /\ UNCHANGED <<now, isStatusUpdateInProgress, callback, round>>

\* The request or the answer is lost.
Fail(r, p) ==
    /\ send[r][p] = "request"
    /\ send' = [send EXCEPT ![r][p] = "none"]
    /\ SetStatus(p, Failed(status[p]))
    /\ UNCHANGED <<now, isStatusUpdateInProgress, callback, round>>

\* A message of the peer's own, which is answered.
Incoming(p) ==
    /\ SetStatus(p, Succeeded([status[p] EXCEPT !.known = TRUE], statusVersion))
    /\ UNCHANGED <<now, isStatusUpdateInProgress, callback, round, send>>

CallbackStep(c) ==
    \/ TimerFires(c) \/ EnterCallback(c) \/ EndCallback(c)
    \/ \E r \in Rounds : SendStatusUpdate(c, r)

SendStep(r, p) == SendOrSkip(r, p) \/ Answer(r, p) \/ Fail(r, p)

Next ==
    \/ Tick \/ Changed
    \/ \E c \in Callbacks : CallbackStep(c)
    \/ \E r \in Rounds, p \in Peers : SendStep(r, p)
    \/ \E p \in Peers : Discover(p) \/ Reenable(p) \/ Incoming(p)
    \/ \E p \in Peers, success \in BOOLEAN : Contact(p, success)

Spec == Init /\ [][Next]_vars

\* Threads and timers run; requests are answered or time out.  Peers and users
\* need not do anything, and the clock may stand still.
FairSpec ==
    /\ Spec
    /\ \A c \in Callbacks : WF_vars(CallbackStep(c))
    /\ \A r \in Rounds, p \in Peers : WF_vars(SendStep(r, p))

-----------------------------------------------------------------------------
(* Correctness. *)

\* A planned update has someone to run it, although planning leaves the timer to
\* a callback in progress and callbacks may overlap with a timer set before.
NoPlanLost ==
    isStatusUpdateScheduled => timer \/ \E c \in Callbacks : callback[c] # "idle"

\* "maximum time to update expired" (PeersCluster.cs:201): a peer that is registered
\* and enabled and was last contacted so long ago when an update collects its peers
\* is contacted, unless it is disabled meanwhile.  NetworkSettings.cs:42 says it of
\* the same time: "How often peer will be contacted with peer status update request
\* if nothing has changed".
OverdueIsContacted ==
    \A p \in Peers, c \in Callbacks :
        (callback[c] = "sending" /\ p \in ImmutablePeers /\ status[p].attempt <= now - Maximum)
            ~> (status[p].attempt > now - Maximum \/ ~status[p].enabled)

\* "How long we protect failing peer from removing from peers list": a peer that
\* is disabled has not been heard of for that time, whatever messages, polls and
\* downloads fail at once.
PeersAreProtected ==
    [][\A p \in Peers :
          (status[p].enabled /\ ~status'[p].enabled)
              => status[p].success + DisableAfterTime <= now]_vars
=============================================================================
