----------------------------- MODULE Supervisor -----------------------------
(***************************************************************************)
(* The Supervisor of one agent (src/supervisor/) with the parts of the     *)
(* context engine that decide where an event goes and that write           *)
(* session_meta.  One Node.js process runs everything: a handler runs      *)
(* without interruption from one await to the next, so every action below  *)
(* is such a stretch, and the steps of different events, TTL timers and    *)
(* linger or keep-alive ticks interleave at the awaits.                    *)
(*                                                                         *)
(* In memory, lost by a crash: the state machine (states, currentAwake),   *)
(* the TTL timers, the wake-condition records and everything in flight.    *)
(* In agent-core.db, kept: the session_meta rows.                          *)
(*                                                                         *)
(* A definition named Op_Suffix is Op with a plausible mistake in it; it   *)
(* is used by no action and shows that some property would notice.         *)
(***************************************************************************)
EXTENDS Naturals, FiniteSets

CONSTANTS
  Sessions,        \* session ids; an id is used for one session only
  Events,          \* calls of session.receiveEvent, each handled once
  NoSession,       \* JavaScript's null
  MaxLinger,       \* config.max_linger_count
  ForcedRenewals,  \* FORCED_RENEWAL_LIMIT
  LingerEnabled,   \* linger_enabled && system_linger_master_switch
  Overflows,       \* does the Brain call back onOverflow?
  MaxTicks,        \* bound: ticks of one session in flight together
  MaxRequests,     \* bound: calls of incrementPendingRequests
  MaxCrashes       \* bound: crashes of the daemon

ASSUME NoSessionAssumption == NoSession \notin Sessions
ASSUME BoundsAssumption ==
  /\ MaxLinger \in Nat /\ ForcedRenewals \in Nat
  /\ MaxTicks \in Nat /\ MaxRequests \in Nat /\ MaxCrashes \in Nat
ASSUME SwitchesAssumption == LingerEnabled \in BOOLEAN /\ Overflows \in BOOLEAN

VARIABLES
  states,        \* SessionStateMachine._states, "none" when s is not a key
  currentAwake,  \* SessionStateMachine._currentAwake
  timer,         \* TtlManager._timers[s]: which of its two timeouts are pending
  wake,          \* keys of Supervisor._wakeConditions
  lingerTicks,   \* linger ticks of s between their awaits
  keepTicks,     \* keep-alive renewals of s between their awaits
  row,           \* session_meta.status, "none" when there is no row
  linger,        \* session_meta.linger
  lingerCount,   \* session_meta.linger_count, saturating above MaxLinger
  pending,       \* session_meta.pending_requests
  renewals,      \* session_meta.keepalive_renewals, saturating
  windowOver,    \* have 30 minutes passed since keepalive_start_time?
  digested,      \* both Cerebellum cursors have reached the end of the history
  pc,            \* where the handling of an event waits
  target,        \* ceResult.session_id of an event
  opened,        \* session whose row an event inserted and nobody registered yet
  requests,      \* calls of incrementPendingRequests so far
  crashes        \* crashes so far

memory == <<states, currentAwake, timer, wake, lingerTicks, keepTicks>>
keepAlive == <<pending, renewals, windowOver>>
meta == <<row, linger, lingerCount, pending, renewals, windowOver, digested>>
inFlight == <<pc, target, opened>>
bounds == <<requests, crashes>>
vars == <<memory, meta, inFlight, bounds>>

Statuses == {"none", "awake", "drowsy", "dormant", "archived"}
Live == {"awake", "drowsy"}

\* VALID_TRANSITIONS, with create() as the edge out of "none".
ValidTransitions ==
  [none |-> {"awake"}, awake |-> {"drowsy"}, drowsy |-> {"awake", "dormant"},
   dormant |-> {"archived"}, archived |-> {}]

\* No timeout callback runs between the insertion of a session's row and its
\* registration: only promise continuations separate the two.
TimersMayRun == \A e \in Events : pc[e] \notin {"created", "continued"}

Saturate(n, limit) == IF n < limit THEN n + 1 ELSE limit

Init ==
  /\ states = [s \in Sessions |-> "none"]
  /\ currentAwake = NoSession
  /\ timer = [s \in Sessions |-> "off"]
  /\ wake = {}
  /\ lingerTicks = [s \in Sessions |-> 0]
  /\ keepTicks = [s \in Sessions |-> 0]
  /\ row = [s \in Sessions |-> "none"]
  /\ linger = [s \in Sessions |-> FALSE]
  /\ lingerCount = [s \in Sessions |-> 0]
  /\ pending = [s \in Sessions |-> 0]
  /\ renewals = [s \in Sessions |-> 0]
  /\ windowOver = [s \in Sessions |-> FALSE]
  /\ digested = [s \in Sessions |-> TRUE]
  /\ pc = [e \in Events |-> "idle"]
  /\ target = [e \in Events |-> NoSession]
  /\ opened = [e \in Events |-> NoSession]
  /\ requests = 0
  /\ crashes = 0

-----------------------------------------------------------------------------
(***************************************************************************)
(* The state machine and the timers.                                       *)
(***************************************************************************)
\* f, a status per session, after the sessions of D fell drowsy.
Demoted(f, D) == [s \in Sessions |-> IF s \in D THEN "drowsy" ELSE f[s]]

\* startAwake: clear what is pending, then set both timeouts.  The awake one
\* is due first (cache_ttl - 2*buffer against cache_ttl - buffer).
StartTtl_NoClear(s) ==
  timer' = [timer EXCEPT ![s] = IF @ = "off" THEN "armed" ELSE @]
StartTtl(s) == timer' = [timer EXCEPT ![s] = "armed"]

\* The session that must fall drowsy before another one may be awake.
AwakeNow_Forgotten == {}
AwakeNow == {currentAwake} \cap Sessions

\* createSession: the awake session, and those of D, fall drowsy, then s is
\* registered awake, its status written and its timers started.
CreateSession(s, D) ==
  LET falling == D \cup AwakeNow IN
  /\ states[s] = "none"
  /\ \A d \in falling : "drowsy" \in ValidTransitions[states[d]]
  /\ states' = [Demoted(states, falling) EXCEPT ![s] = "awake"]
  /\ currentAwake' = s
  /\ row' = [Demoted(row, falling) EXCEPT ![s] = "awake"]
  /\ StartTtl(s)
  /\ wake' = wake \cup {s}

\* The rows of t and of every drowsy session of the map st are rewritten.
RowsAfterSwitch_TargetOnly(st, t) == [row EXCEPT ![t] = st[t]]
RowsAfterSwitch(st, t) ==
  [s \in Sessions |-> IF s = t \/ st[s] = "drowsy" THEN st[s] ELSE row[s]]

\* _switchContext: the awake session falls drowsy and the drowsy t wakes up.
SwitchContext(t) ==
  /\ states[t] = "drowsy"
  /\ \A d \in AwakeNow : "drowsy" \in ValidTransitions[states[d]]
  /\ states' = [Demoted(states, AwakeNow) EXCEPT ![t] = "awake"]
  /\ currentAwake' = t
  /\ row' = RowsAfterSwitch(states', t)
  /\ StartTtl(t)
  /\ UNCHANGED wake

-----------------------------------------------------------------------------
(***************************************************************************)
(* receiveEvent.                                                           *)
(***************************************************************************)
Goto(e, label) == pc' = [pc EXCEPT ![e] = label]

\* handleEvent up to its first await.  The rows decide: the first awake one
\* gets the event; else the drowsy one whose tags overlap most, when one
\* does; else a new session is created, seeded from a dormant one or not.
ReceiveEvent(e) ==
  /\ pc[e] = "idle"
  /\ \/ \E s \in Sessions :
          /\ row[s] = "awake"
          /\ Goto(e, "appending")
          /\ target' = [target EXCEPT ![e] = s]
     \/ \E s \in Sessions :
          /\ \A t \in Sessions : row[t] # "awake"
          /\ row[s] = "drowsy"
          /\ Goto(e, "switching")
          /\ target' = [target EXCEPT ![e] = s]
     \/ /\ \A t \in Sessions : row[t] # "awake"
        /\ Goto(e, "creating")
        /\ UNCHANGED target
  /\ UNCHANGED <<memory, meta, opened, bounds>>

\* The tail of assemblePayloadForEvent writes the linger flag, then the
\* Supervisor resets linger_count.
RefreshLinger(s) ==
  /\ \E unresolved \in BOOLEAN : linger' = [linger EXCEPT ![s] = unresolved]
  /\ lingerCount' = [lingerCount EXCEPT ![s] = 0]

\* action append_to_session: the TTL restarts if s is (still) awake.
AppendToSession(e) ==
  LET s == target[e] IN
  /\ pc[e] = "appending"
  /\ RefreshLinger(s)
  /\ IF states[s] = "awake" THEN StartTtl(s) ELSE UNCHANGED timer
  /\ Goto(e, "thinking")
  /\ UNCHANGED <<states, currentAwake, wake, lingerTicks, keepTicks, row,
                 keepAlive, digested, target, opened, bounds>>

\* action switch_session: skipped unless the state machine has s drowsy.
SwitchSession(e) ==
  LET s == target[e] IN
  /\ pc[e] = "switching"
  /\ RefreshLinger(s)
  /\ IF states[s] = "drowsy"
     THEN SwitchContext(s)
     ELSE UNCHANGED <<states, currentAwake, timer, wake, row>>
  /\ Goto(e, "thinking")
  /\ UNCHANGED <<lingerTicks, keepTicks, keepAlive, digested, target, opened, bounds>>

\* A random UUID no session has had.
Fresh_ReusesDormant(s) == row[s] \in {"none", "dormant"}
Fresh(s) == row[s] = "none"

\* metaStore.create: a row that is awake before the Supervisor knows s.
InsertRow(e, s) ==
  /\ Fresh(s)
  /\ row' = [row EXCEPT ![s] = "awake"]
  /\ opened' = [opened EXCEPT ![e] = s]
  /\ UNCHANGED <<memory, linger, lingerCount, keepAlive, digested, target, bounds>>

\* stage1CreateSession or _createSessionWithSeed after its awaits.
Stage1CreateSession(e) ==
  /\ pc[e] = "creating"
  /\ \E s \in Sessions : InsertRow(e, s)
  /\ Goto(e, "created")

\* action create_session.
RegisterSession(e) ==
  /\ pc[e] = "created"
  /\ CreateSession(opened[e], {})
  /\ target' = [target EXCEPT ![e] = opened[e]]
  /\ opened' = [opened EXCEPT ![e] = NoSession]
  /\ Goto(e, "thinking")
  /\ UNCHANGED <<lingerTicks, keepTicks, linger, lingerCount, keepAlive, digested,
                 bounds>>

\* The Brain's conversation overflows: onOverflow starts to compress it.
Overflow(e) ==
  /\ Overflows
  /\ pc[e] = "thinking"
  /\ Goto(e, "compressing")
  /\ UNCHANGED <<memory, meta, target, opened, bounds>>

\* stage3CreateNewSession after its awaits.
Stage3CreateNewSession(e) ==
  /\ pc[e] = "compressing"
  /\ \E s \in Sessions : InsertRow(e, s)
  /\ Goto(e, "continued")

\* The rest of onOverflow; the event keeps its old session as its target.
RegisterContinuation(e) ==
  /\ pc[e] = "continued"
  /\ CreateSession(opened[e], {s \in {target[e]} : states[s] = "awake"})
  /\ opened' = [opened EXCEPT ![e] = NoSession]
  /\ Goto(e, "thinking")
  /\ UNCHANGED <<lingerTicks, keepTicks, linger, lingerCount, keepAlive, digested,
                 target, bounds>>

\* think() answers and recordTurnAfterBrain appends to the history of the
\* target: nothing, the user's row, the assistant's row, or both.
RecordTurnAfterBrain(e) ==
  /\ pc[e] = "thinking"
  /\ \E appends \in BOOLEAN :
       digested' = [digested EXCEPT ![target[e]] = @ /\ ~appends]
  /\ Goto(e, "done")
  /\ target' = [target EXCEPT ![e] = NoSession]
  /\ UNCHANGED <<memory, row, linger, lingerCount, keepAlive, opened, bounds>>

\* The awaits of receiveEvent.
Awaits_Registration(e) == pc[e] \notin {"idle", "done"}
Awaits(e) ==
  pc[e] \in {"appending", "switching", "creating", "compressing", "thinking"}

\* An awaited call rejects (building the prompt, the provider): receiveEvent
\* rejects too and undoes nothing.
EventFails(e) ==
  /\ Awaits(e)
  /\ Goto(e, "done")
  /\ target' = [target EXCEPT ![e] = NoSession]
  /\ opened' = [opened EXCEPT ![e] = NoSession]
  /\ UNCHANGED <<memory, meta, bounds>>

-----------------------------------------------------------------------------
(***************************************************************************)
(* The two timeouts of a session.                                          *)
(***************************************************************************)
\* A demoted session is not the current one any more.
CurrentAwakeWithout_Stale(s) == currentAwake
CurrentAwakeWithout(s) == IF currentAwake = s THEN NoSession ELSE currentAwake

\* _handleAwakeTtlExpired: ignored unless s is awake.
AwakeTtlExpired(s) ==
  /\ TimersMayRun
  /\ timer[s] = "armed"
  /\ timer' = [timer EXCEPT ![s] = "awakeFired"]
  /\ IF states[s] = "awake"
     THEN /\ states' = Demoted(states, {s})
          /\ row' = Demoted(row, {s})
          /\ currentAwake' = CurrentAwakeWithout(s)
     ELSE UNCHANGED <<states, row, currentAwake>>
  /\ UNCHANGED <<wake, lingerTicks, keepTicks, linger, lingerCount, keepAlive,
                 digested, inFlight, bounds>>

\* The drowsy timeout comes after the awake one; _handleDrowsyTtlExpired then
\* takes one of the four ways below.
DrowsyTtlDue(s) == TimersMayRun /\ timer[s] = "awakeFired"

\* _checkLingerConditions with its configuration switches on.
LingerMet_Unbounded(s) == linger[s]
LingerMet(s) == linger[s] /\ lingerCount[s] < MaxLinger

\* An exhausted linger count clears the flag, whatever is decided next.
CheckLinger(s) ==
  linger' = [linger EXCEPT ![s] = @ /\ lingerCount[s] < MaxLinger]

Lingers(s) == LingerEnabled /\ LingerMet(s)

\* Five renewals in half an hour or more: the pending requests are given up.
ForcedDormant(s) == renewals[s] >= ForcedRenewals /\ windowOver[s]

KeepsAlive(s) == ~Lingers(s) /\ pending[s] > 0 /\ ~ForcedDormant(s)

\* The session woke up, or retired, since the timeout was set.
DrowsyTtlIgnored(s) ==
  /\ DrowsyTtlDue(s)
  /\ states[s] # "drowsy"
  /\ timer' = [timer EXCEPT ![s] = "spent"]
  /\ UNCHANGED <<states, currentAwake, wake, lingerTicks, keepTicks, meta, inFlight,
                 bounds>>

TicksMayStart(s) == lingerTicks[s] + keepTicks[s] < MaxTicks

\* _triggerLingerTick up to its first await.
StartLingerTick(s) ==
  /\ DrowsyTtlDue(s) /\ states[s] = "drowsy"
  /\ Lingers(s)
  /\ TicksMayStart(s)
  /\ timer' = [timer EXCEPT ![s] = "spent"]
  /\ lingerTicks' = [lingerTicks EXCEPT ![s] = @ + 1]
  /\ UNCHANGED <<states, currentAwake, wake, keepTicks, meta, inFlight, bounds>>

\* _triggerKeepAlive up to its first await.
StartKeepAlive(s) ==
  /\ DrowsyTtlDue(s) /\ states[s] = "drowsy"
  /\ KeepsAlive(s)
  /\ TicksMayStart(s)
  /\ CheckLinger(s)
  /\ timer' = [timer EXCEPT ![s] = "spent"]
  /\ keepTicks' = [keepTicks EXCEPT ![s] = @ + 1]
  /\ UNCHANGED <<states, currentAwake, wake, lingerTicks, row, lingerCount, keepAlive,
                 digested, inFlight, bounds>>

\* _wakeConditions.delete(s).
DropWakeConditions_Leak(s) == UNCHANGED wake
DropWakeConditions(s) == wake' = wake \ {s}

\* Nothing keeps s drowsy; a forced s loses its keep-alive state first.
GoDormant(s) ==
  /\ DrowsyTtlDue(s) /\ states[s] = "drowsy"
  /\ ~Lingers(s) /\ ~KeepsAlive(s)
  /\ CheckLinger(s)
  /\ IF pending[s] > 0
     THEN /\ pending' = [pending EXCEPT ![s] = 0]
          /\ renewals' = [renewals EXCEPT ![s] = 0]
          /\ windowOver' = [windowOver EXCEPT ![s] = FALSE]
     ELSE UNCHANGED keepAlive
  /\ states' = [states EXCEPT ![s] = "dormant"]
  /\ row' = [row EXCEPT ![s] = "dormant"]
  /\ timer' = [timer EXCEPT ![s] = "off"]
  /\ DropWakeConditions(s)
  /\ UNCHANGED <<currentAwake, lingerTicks, keepTicks, lingerCount, digested, inFlight,
                 bounds>>

\* The answer to a tick may be appended to the history.
AppendTickAnswer(s) ==
  \E answers \in BOOLEAN : digested' = [digested EXCEPT ![s] = @ /\ ~answers]

\* The rest of _triggerLingerTick, whatever became of s meanwhile.
FinishLingerTick(s) ==
  /\ lingerTicks[s] > 0
  /\ lingerTicks' = [lingerTicks EXCEPT ![s] = @ - 1]
  /\ AppendTickAnswer(s)
  /\ lingerCount' = [lingerCount EXCEPT ![s] = Saturate(@, MaxLinger + 1)]
  /\ StartTtl(s)
  /\ UNCHANGED <<states, currentAwake, wake, keepTicks, row, linger, keepAlive,
                 inFlight, bounds>>

\* The rest of _triggerKeepAlive.
FinishKeepAlive(s) ==
  /\ keepTicks[s] > 0
  /\ keepTicks' = [keepTicks EXCEPT ![s] = @ - 1]
  /\ AppendTickAnswer(s)
  /\ renewals' = [renewals EXCEPT ![s] = Saturate(@, ForcedRenewals)]
  /\ StartTtl(s)
  /\ UNCHANGED <<states, currentAwake, wake, lingerTicks, row, linger, lingerCount,
                 pending, windowOver, inFlight, bounds>>

-----------------------------------------------------------------------------
(***************************************************************************)
(* What the outside does to a session: requests it awaits, time, the       *)
(* Cerebellum, the archive check and a crash of the daemon.                *)
(***************************************************************************)
\* A new request restarts the keep-alive window.
IncrementPendingRequests(s) ==
  /\ row[s] # "none"
  /\ requests < MaxRequests
  /\ requests' = requests + 1
  /\ pending' = [pending EXCEPT ![s] = @ + 1]
  /\ renewals' = [renewals EXCEPT ![s] = 0]
  /\ windowOver' = [windowOver EXCEPT ![s] = FALSE]
  /\ UNCHANGED <<memory, row, linger, lingerCount, digested, inFlight, crashes>>

\* decrementPendingRequests returns early when there is nothing to answer.
HasPendingRequests_OrNone(s) == pending[s] >= 0
HasPendingRequests(s) == pending[s] > 0

\* The last answer also closes the keep-alive window.
DecrementPendingRequests(s) ==
  /\ HasPendingRequests(s)
  /\ pending' = [pending EXCEPT ![s] = @ - 1]
  /\ IF pending[s] = 1
     THEN /\ renewals' = [renewals EXCEPT ![s] = 0]
          /\ windowOver' = [windowOver EXCEPT ![s] = FALSE]
     ELSE UNCHANGED <<renewals, windowOver>>
  /\ UNCHANGED <<memory, row, linger, lingerCount, digested, inFlight, bounds>>

\* The clock passes keepalive_start_time + 30 minutes.
KeepAliveWindowEnds(s) ==
  /\ pending[s] > 0
  /\ ~windowOver[s]
  /\ windowOver' = [windowOver EXCEPT ![s] = TRUE]
  /\ UNCHANGED <<memory, row, linger, lingerCount, pending, renewals, digested,
                 inFlight, bounds>>

\* The Cerebellum's ticks bring both cursors to the end of the history; layer 2
\* moves its cursor for dormant sessions only.
DigestHistory(s) ==
  /\ row[s] = "dormant"
  /\ ~digested[s]
  /\ digested' = [digested EXCEPT ![s] = TRUE]
  /\ UNCHANGED <<memory, row, linger, lingerCount, keepAlive, inFlight, bounds>>

\* Both cursors at the end of a history that is over.
Archivable_TooEarly(s) == states[s] \in {"drowsy", "dormant"} /\ digested[s]
Archivable_ByRow(s) == row[s] = "dormant" /\ digested[s]
Archivable(s) == states[s] = "dormant" /\ digested[s]

\* checkArchivedTrigger when it does not return early.
CheckArchivedTrigger(s) ==
  /\ Archivable(s)
  /\ states' = [states EXCEPT ![s] = "archived"]
  /\ row' = [row EXCEPT ![s] = "archived"]
  /\ UNCHANGED <<currentAwake, timer, wake, lingerTicks, keepTicks, linger, lingerCount,
                 keepAlive, digested, inFlight, bounds>>

\* What a new process knows of the sessions.
Hydrated == [s \in Sessions |-> "none"]

\* The process dies (a rejected tick is an unhandled rejection, too) and the
\* host starts it again; the constructor registers no session.
CrashAndRestart ==
  /\ crashes < MaxCrashes
  /\ crashes' = crashes + 1
  /\ states' = Hydrated
  /\ currentAwake' = NoSession
  /\ timer' = [s \in Sessions |-> "off"]
  /\ wake' = {}
  /\ lingerTicks' = [s \in Sessions |-> 0]
  /\ keepTicks' = [s \in Sessions |-> 0]
  /\ pc' = [e \in Events |-> IF pc[e] = "idle" THEN "idle" ELSE "done"]
  /\ target' = [e \in Events |-> NoSession]
  /\ opened' = [e \in Events |-> NoSession]
  /\ UNCHANGED <<meta, requests>>

-----------------------------------------------------------------------------
EventStep(e) ==
  \/ AppendToSession(e)
  \/ SwitchSession(e)
  \/ Stage1CreateSession(e)
  \/ RegisterSession(e)
  \/ Stage3CreateNewSession(e)
  \/ RegisterContinuation(e)
  \/ RecordTurnAfterBrain(e)

TimerStep(s) ==
  \/ AwakeTtlExpired(s)
  \/ DrowsyTtlIgnored(s)
  \/ StartLingerTick(s)
  \/ StartKeepAlive(s)
  \/ GoDormant(s)

TickStep(s) == FinishLingerTick(s) \/ FinishKeepAlive(s)

RequestStep(s) ==
  \/ IncrementPendingRequests(s)
  \/ DecrementPendingRequests(s)
  \/ KeepAliveWindowEnds(s)

ArchiveStep(s) == DigestHistory(s) \/ CheckArchivedTrigger(s)

Next ==
  \/ \E e \in Events : ReceiveEvent(e) \/ EventStep(e) \/ Overflow(e) \/ EventFails(e)
  \/ \E s \in Sessions : TimerStep(s) \/ TickStep(s) \/ RequestStep(s) \/ ArchiveStep(s)
  \/ CrashAndRestart

Spec == Init /\ [][Next]_vars

\* Timeouts fire, time passes, and what the process awaits settles (the IPC call
\* for a prompt and the LLM client both time out).  Nothing obliges the host to
\* send an event, to answer a request or to run the Cerebellum.
Fairness ==
  /\ \A e \in Events : WF_vars(EventStep(e))
  /\ \A s \in Sessions : /\ WF_vars(TimerStep(s))
                         /\ WF_vars(TickStep(s))
                         /\ WF_vars(KeepAliveWindowEnds(s))

FairSpec == Spec /\ Fairness

-----------------------------------------------------------------------------
(***************************************************************************)
(* Properties.                                                             *)
(***************************************************************************)
\* Every variable holds values of its kind, and an event that was routed to a
\* session, or runs for one, has that session as its target.
TypeOK ==
  /\ states \in [Sessions -> Statuses]
  /\ currentAwake \in Sessions \cup {NoSession}
  /\ timer \in [Sessions -> {"off", "armed", "awakeFired", "spent"}]
  /\ wake \in SUBSET Sessions
  /\ lingerTicks \in [Sessions -> Nat] /\ keepTicks \in [Sessions -> Nat]
  /\ row \in [Sessions -> Statuses]
  /\ linger \in [Sessions -> BOOLEAN] /\ windowOver \in [Sessions -> BOOLEAN]
  /\ lingerCount \in [Sessions -> Nat]
  /\ pending \in [Sessions -> Nat] /\ renewals \in [Sessions -> Nat]
  /\ digested \in [Sessions -> BOOLEAN]
  /\ pc \in [Events -> {"idle", "appending", "switching", "creating", "created",
                        "thinking", "compressing", "continued", "done"}]
  /\ target \in [Events -> Sessions \cup {NoSession}]
  /\ opened \in [Events -> Sessions \cup {NoSession}]
  /\ \A e \in Events :
       pc[e] \in {"appending", "switching", "thinking", "compressing", "continued"}
         => target[e] \in Sessions
  /\ requests \in Nat /\ crashes \in Nat

\* The state machine's map and its _currentAwake field, written by several
\* methods, never disagree; in particular at most one session is awake.
OneAwake == \A s \in Sessions : states[s] = "awake" <=> currentAwake = s

\* A session the process manages has the status its row says, although
\* create_session, switch_session, both timeouts and the archive check each
\* write the two places with code of their own.
RowsAgree == \A s \in Sessions : states[s] # "none" => row[s] = states[s]

\* No live session is stranded: an awake one has both timeouts pending, and a
\* drowsy one has a timeout pending or a tick in flight that will start them
\* again.  With neither, nothing would ever end the session.
NeverStranded ==
  \A s \in Sessions :
    /\ states[s] = "awake" => timer[s] = "armed"
    /\ states[s] = "drowsy" => \/ timer[s] \in {"armed", "awakeFired"}
                               \/ lingerTicks[s] + keepTicks[s] > 0

\* The wake-condition records are those of the live sessions: none leaks when
\* a session retires and none is missing after a session woke up again.
WakeRecords == wake = {s \in Sessions : states[s] \in Live}

\* The state machine never throws at the Supervisor: when an event comes to
\* register the session it opened, nobody has registered that session yet, its
\* row is still awake, and no other event opened the same one.
CreateNeverThrows ==
  \A e \in Events :
    IF pc[e] \in {"created", "continued"}
    THEN /\ opened[e] \in Sessions
         /\ states[opened[e]] = "none" /\ row[opened[e]] = "awake"
         /\ \A f \in Events \ {e} : opened[f] # opened[e]
    ELSE opened[e] = NoSession

\* Until a crash every row has somebody who will change it: a row the state
\* machine does not know is awake and belongs to an event that inserted it and
\* is about to register it, so no row stays awake or drowsy for want of a timer.
RowsOwned ==
  crashes = 0 =>
    \A s \in Sessions : row[s] # "none" /\ states[s] = "none" =>
      row[s] = "awake" /\ \E e \in Events : opened[e] = s

\* A persisted status only moves along the edges of VALID_TRANSITIONS, though
\* rows are written without asking the state machine and though
\* switch_session rewrites many of them at once; dormant is never undone,
\* not even by a restart.
RowsFollowTheEdges ==
  [][\A s \in Sessions : row'[s] # row[s] => row'[s] \in ValidTransitions[row[s]]]_row

\* A restart orphans the rows it finds: until the end of the new process no
\* routing, timer or archive check changes the status of a session that the
\* process did not register itself.
OrphansKeepTheirStatus ==
  [][\A s \in Sessions :
       row[s] # "none" /\ row'[s] # row[s] =>
         states[s] # "none" \/ \E e \in Events : opened[e] = s]_vars

\* The inductive invariant: what each part needs of the others to survive a
\* step (see SupervisorProofs).
IInv ==
  /\ TypeOK /\ OneAwake /\ RowsAgree /\ NeverStranded /\ WakeRecords
  /\ CreateNeverThrows

\* The picture in memory is an implementation of the abstract lifecycle.
Lifecycle == INSTANCE SessionLifecycle WITH status <- states
ImplementsLifecycle == Lifecycle!Spec

\* Every live session ends dormant (or forgotten, by a crash) once its events
\* are handled: lingering is limited by MaxLinger, keep-alive by the
\* forced-dormant rule, and no interleaving of ticks and timeouts keeps a
\* session from its end.
LiveSessionsRetire ==
  \A s \in Sessions : states[s] \in Live ~> states[s] \notin Live

\* max_linger_count bounds the linger ticks a session takes between two events.
LingerBounded == \A s \in Sessions : lingerCount[s] <= MaxLinger
=============================================================================
