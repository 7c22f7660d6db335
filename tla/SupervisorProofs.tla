-------------------------- MODULE SupervisorProofs --------------------------
(***************************************************************************)
(* Proofs about Supervisor, for any number of sessions, events, ticks and  *)
(* crashes and any configuration.                                          *)
(***************************************************************************)
EXTENDS Supervisor, TLAPS

USE NoSessionAssumption, BoundsAssumption, SwitchesAssumption

\* Demotion of some sessions keeps a status map well typed.
LEMMA DemotedType ==
  ASSUME NEW f \in [Sessions -> Statuses], NEW D
  PROVE  Demoted(f, D) \in [Sessions -> Statuses]
BY DEF Demoted, Statuses

\* What createSession leaves in the maps it writes.
LEMMA CreateSessionType ==
  ASSUME TypeOK, NEW s \in Sessions, NEW D, CreateSession(s, D)
  PROVE  /\ states' \in [Sessions -> Statuses] /\ row' \in [Sessions -> Statuses]
         /\ currentAwake' = s /\ wake' \in SUBSET Sessions
         /\ timer' = [timer EXCEPT ![s] = "armed"]
BY DemotedType DEF CreateSession, TypeOK, Statuses, StartTtl

\* What _switchContext leaves in them.
LEMMA SwitchContextType ==
  ASSUME TypeOK, NEW t \in Sessions, SwitchContext(t)
  PROVE  /\ states' \in [Sessions -> Statuses] /\ row' \in [Sessions -> Statuses]
         /\ currentAwake' = t /\ wake' = wake
         /\ timer' = [timer EXCEPT ![t] = "armed"]
BY DemotedType DEF SwitchContext, RowsAfterSwitch, TypeOK, Statuses, StartTtl

\* Every step keeps the variables well typed.
LEMMA TypeNext == ASSUME TypeOK, CreateNeverThrows, [Next]_vars PROVE TypeOK'
<1> USE DEF TypeOK, Statuses, Goto, memory, keepAlive, meta, inFlight, bounds
<1>1. ASSUME NEW e \in Events, ReceiveEvent(e) PROVE TypeOK'
  BY <1>1 DEF ReceiveEvent
<1>2. ASSUME NEW e \in Events, AppendToSession(e) PROVE TypeOK'
  BY <1>2 DEF AppendToSession, RefreshLinger, StartTtl
<1>3. ASSUME NEW e \in Events, SwitchSession(e) PROVE TypeOK'
  <2>1. target[e] \in Sessions
    BY <1>3 DEF SwitchSession
  <2>2. CASE states[target[e]] = "drowsy"
    <3>1. SwitchContext(target[e])
      BY <1>3, <2>2 DEF SwitchSession
    <3> QED
      BY <1>3, <2>1, <3>1, SwitchContextType DEF SwitchSession, RefreshLinger
  <2>3. CASE states[target[e]] # "drowsy"
    BY <1>3, <2>3 DEF SwitchSession, RefreshLinger
  <2> QED
    BY <2>2, <2>3
<1>4. ASSUME NEW e \in Events, Stage1CreateSession(e) PROVE TypeOK'
  BY <1>4 DEF Stage1CreateSession, InsertRow
<1>5. ASSUME NEW e \in Events, RegisterSession(e) PROVE TypeOK'
  BY <1>5, CreateSessionType DEF RegisterSession, CreateNeverThrows
<1>6. ASSUME NEW e \in Events, Overflow(e) PROVE TypeOK'
  BY <1>6 DEF Overflow
<1>7. ASSUME NEW e \in Events, Stage3CreateNewSession(e) PROVE TypeOK'
  BY <1>7 DEF Stage3CreateNewSession, InsertRow
<1>8. ASSUME NEW e \in Events, RegisterContinuation(e) PROVE TypeOK'
  BY <1>8, CreateSessionType DEF RegisterContinuation, CreateNeverThrows
<1>9. ASSUME NEW e \in Events, RecordTurnAfterBrain(e) PROVE TypeOK'
  BY <1>9 DEF RecordTurnAfterBrain
<1>10. ASSUME NEW e \in Events, EventFails(e) PROVE TypeOK'
  BY <1>10 DEF EventFails, Awaits
<1>11. ASSUME NEW s \in Sessions, AwakeTtlExpired(s) PROVE TypeOK'
  BY <1>11 DEF AwakeTtlExpired, Demoted, CurrentAwakeWithout
<1>12. ASSUME NEW s \in Sessions, DrowsyTtlIgnored(s) PROVE TypeOK'
  BY <1>12 DEF DrowsyTtlIgnored
<1>13. ASSUME NEW s \in Sessions, StartLingerTick(s) PROVE TypeOK'
  BY <1>13 DEF StartLingerTick
<1>14. ASSUME NEW s \in Sessions, StartKeepAlive(s) PROVE TypeOK'
  BY <1>14 DEF StartKeepAlive, CheckLinger
<1>15. ASSUME NEW s \in Sessions, GoDormant(s) PROVE TypeOK'
  <2>1. pending' \in [Sessions -> Nat] /\ renewals' \in [Sessions -> Nat]
        /\ windowOver' \in [Sessions -> BOOLEAN]
    <3>1. CASE pending[s] > 0
      <4>1. /\ pending' = [pending EXCEPT ![s] = 0]
            /\ renewals' = [renewals EXCEPT ![s] = 0]
            /\ windowOver' = [windowOver EXCEPT ![s] = FALSE]
        BY <1>15, <3>1 DEF GoDormant
      <4> QED
        BY <4>1
    <3>2. CASE ~(pending[s] > 0)
      BY <1>15, <3>2 DEF GoDormant
    <3> QED
      BY <3>1, <3>2
  <2> QED
    BY <1>15, <2>1 DEF GoDormant, CheckLinger, DropWakeConditions
<1>16. ASSUME NEW s \in Sessions, FinishLingerTick(s) PROVE TypeOK'
  BY <1>16 DEF FinishLingerTick, AppendTickAnswer, StartTtl, Saturate
<1>17. ASSUME NEW s \in Sessions, FinishKeepAlive(s) PROVE TypeOK'
  BY <1>17 DEF FinishKeepAlive, AppendTickAnswer, StartTtl, Saturate
<1>18. ASSUME NEW s \in Sessions, IncrementPendingRequests(s) PROVE TypeOK'
  BY <1>18 DEF IncrementPendingRequests
<1>19. ASSUME NEW s \in Sessions, DecrementPendingRequests(s) PROVE TypeOK'
  <2>1. pending' \in [Sessions -> Nat]
    <3>1. pending[s] - 1 \in Nat
      BY <1>19 DEF DecrementPendingRequests, HasPendingRequests
    <3> QED
      BY <1>19, <3>1 DEF DecrementPendingRequests
  <2>2. renewals' \in [Sessions -> Nat] /\ windowOver' \in [Sessions -> BOOLEAN]
    <3>1. CASE pending[s] = 1
      <4>1. /\ renewals' = [renewals EXCEPT ![s] = 0]
            /\ windowOver' = [windowOver EXCEPT ![s] = FALSE]
        BY <1>19, <3>1, Zenon DEF DecrementPendingRequests
      <4> QED
        BY <4>1
    <3>2. CASE pending[s] # 1
      BY <1>19, <3>2 DEF DecrementPendingRequests
    <3> QED
      BY <3>1, <3>2
  <2> QED
    BY <1>19, <2>1, <2>2 DEF DecrementPendingRequests
<1>20. ASSUME NEW s \in Sessions, KeepAliveWindowEnds(s) PROVE TypeOK'
  BY <1>20 DEF KeepAliveWindowEnds
<1>21. ASSUME NEW s \in Sessions, DigestHistory(s) PROVE TypeOK'
  BY <1>21 DEF DigestHistory
<1>22. ASSUME NEW s \in Sessions, CheckArchivedTrigger(s) PROVE TypeOK'
  BY <1>22 DEF CheckArchivedTrigger, Archivable
<1>23. ASSUME CrashAndRestart PROVE TypeOK'
  BY <1>23 DEF CrashAndRestart, Hydrated
<1>24. ASSUME UNCHANGED vars PROVE TypeOK'
  BY <1>24 DEF vars
<1> QED
  BY <1>1, <1>2, <1>3, <1>4, <1>5, <1>6, <1>7, <1>8, <1>9, <1>10, <1>11, <1>12, <1>13, <1>14,
     <1>15, <1>16, <1>17, <1>18, <1>19, <1>20, <1>21, <1>22, <1>23, <1>24
  DEF Next, EventStep, TimerStep, TickStep, RequestStep, ArchiveStep
-----------------------------------------------------------------------------
(***************************************************************************)
(* What a step can do to the status map, to _currentAwake, to the wake     *)
(* records and to the persisted statuses.                                  *)
(***************************************************************************)
\* Of all the actions only the ones named here touch the statuses.
LEMMA PictureSteps ==
  ASSUME TypeOK, CreateNeverThrows, [Next]_vars
  PROVE  \/ UNCHANGED <<states, currentAwake, wake, row>>
         \/ /\ UNCHANGED <<states, currentAwake, wake>>
            /\ \E e \in Events : \E s \in Sessions : InsertRow(e, s)
         \/ \E e \in Events : \E D \in SUBSET Sessions :
              opened[e] \in Sessions /\ pc[e] \in {"created", "continued"}
              /\ CreateSession(opened[e], D)
         \/ \E t \in Sessions : SwitchContext(t)
         \/ \E s \in Sessions : AwakeTtlExpired(s) /\ states[s] = "awake"
         \/ \E s \in Sessions : GoDormant(s)
         \/ \E s \in Sessions : CheckArchivedTrigger(s)
         \/ CrashAndRestart
<1> DEFINE Quiet == UNCHANGED <<states, currentAwake, wake, row>>
<1> USE DEF memory, keepAlive, meta, inFlight, bounds
<1>1. ASSUME NEW e \in Events, ReceiveEvent(e) \/ Overflow(e) \/ EventFails(e) PROVE Quiet
  BY <1>1 DEF ReceiveEvent, Overflow, EventFails
<1>2. ASSUME NEW e \in Events, AppendToSession(e) \/ RecordTurnAfterBrain(e) PROVE Quiet
  BY <1>2 DEF AppendToSession, RecordTurnAfterBrain
<1>3. ASSUME NEW e \in Events, SwitchSession(e)
      PROVE  Quiet \/ \E t \in Sessions : SwitchContext(t)
  BY <1>3 DEF SwitchSession, TypeOK
<1>4. ASSUME NEW e \in Events, Stage1CreateSession(e) \/ Stage3CreateNewSession(e)
      PROVE  /\ UNCHANGED <<states, currentAwake, wake>>
             /\ \E s \in Sessions : InsertRow(e, s)
  BY <1>4 DEF Stage1CreateSession, Stage3CreateNewSession, InsertRow
<1>5. ASSUME NEW e \in Events, RegisterSession(e) \/ RegisterContinuation(e)
      PROVE  \E D \in SUBSET Sessions :
               opened[e] \in Sessions /\ pc[e] \in {"created", "continued"}
               /\ CreateSession(opened[e], D)
  <2>1. opened[e] \in Sessions
    BY <1>5 DEF RegisterSession, RegisterContinuation, CreateNeverThrows
  <2>2. {} \in SUBSET Sessions
    OBVIOUS
  <2>3. CASE RegisterSession(e)
    BY <2>1, <2>2, <2>3 DEF RegisterSession
  <2>4. CASE RegisterContinuation(e)
    <3>1. {s \in {target[e]} : states[s] = "awake"} \in SUBSET Sessions
      BY <2>4 DEF RegisterContinuation, TypeOK
    <3> QED
      BY <2>1, <2>4, <3>1 DEF RegisterContinuation
  <2> QED
    BY <1>5, <2>3, <2>4
<1>6. ASSUME NEW s \in Sessions, AwakeTtlExpired(s) PROVE Quiet \/ states[s] = "awake"
  BY <1>6 DEF AwakeTtlExpired
<1>7. ASSUME NEW s \in Sessions,
             DrowsyTtlIgnored(s) \/ StartLingerTick(s) \/ StartKeepAlive(s) \/ TickStep(s)
      PROVE  Quiet
  BY <1>7 DEF DrowsyTtlIgnored, StartLingerTick, StartKeepAlive, TickStep, FinishLingerTick,
              FinishKeepAlive
<1>8. ASSUME NEW s \in Sessions, RequestStep(s) \/ DigestHistory(s) PROVE Quiet
  BY <1>8 DEF RequestStep, IncrementPendingRequests, DecrementPendingRequests,
              KeepAliveWindowEnds, DigestHistory
<1>9. CASE UNCHANGED vars
  BY <1>9 DEF vars
<1> HIDE DEF Quiet
<1>10. ASSUME Quiet PROVE UNCHANGED <<states, currentAwake, wake, row>>
  BY <1>10 DEF Quiet
<1>11. CASE \E e \in Events : ReceiveEvent(e) \/ EventStep(e) \/ Overflow(e) \/ EventFails(e)
  BY <1>1, <1>2, <1>3, <1>4, <1>5, <1>10, <1>11 DEF EventStep
<1>12. CASE \E s \in Sessions : TimerStep(s) \/ TickStep(s) \/ RequestStep(s) \/ ArchiveStep(s)
  BY <1>6, <1>7, <1>8, <1>10, <1>12 DEF TimerStep, ArchiveStep
<1> QED
  BY <1>9, <1>11, <1>12 DEF Next

\* The statuses after createSession: s awake, the awake session and D drowsy.
LEMMA CreateSessionEffect ==
  ASSUME TypeOK, NEW s \in Sessions, NEW D \in SUBSET Sessions, CreateSession(s, D)
  PROVE  /\ states[s] = "none" /\ states'[s] = "awake" /\ row'[s] = "awake"
         /\ \A x \in Sessions \ {s} :
              IF x \in D \/ x = currentAwake
              THEN states[x] = "awake" /\ states'[x] = "drowsy" /\ row'[x] = "drowsy"
              ELSE states'[x] = states[x] /\ row'[x] = row[x]
         /\ s \notin D /\ currentAwake # s
         /\ currentAwake' = s /\ wake' = wake \cup {s}
<1> USE DEF TypeOK, Statuses
<1>1. \A d \in Sessions : "drowsy" \in ValidTransitions[states[d]] <=> states[d] = "awake"
  BY DEF ValidTransitions
<1> QED
  BY <1>1 DEF CreateSession, Demoted, AwakeNow

\* The statuses after _switchContext.
LEMMA SwitchContextEffect ==
  ASSUME TypeOK, NEW t \in Sessions, SwitchContext(t)
  PROVE  /\ states[t] = "drowsy" /\ states'[t] = "awake" /\ row'[t] = "awake"
         /\ \A x \in Sessions \ {t} :
              /\ IF x = currentAwake
                 THEN states[x] = "awake" /\ states'[x] = "drowsy"
                 ELSE states'[x] = states[x]
              /\ row'[x] = IF states'[x] = "drowsy" THEN "drowsy" ELSE row[x]
         /\ currentAwake # t
         /\ currentAwake' = t /\ wake' = wake
<1> USE DEF TypeOK, Statuses
<1>1. \A d \in Sessions : "drowsy" \in ValidTransitions[states[d]] <=> states[d] = "awake"
  BY DEF ValidTransitions
<1> QED
  BY <1>1 DEF SwitchContext, RowsAfterSwitch, Demoted, AwakeNow

-----------------------------------------------------------------------------
(***************************************************************************)
(* The invariant IInv is inductive: one lemma per conjunct.                *)
(***************************************************************************)
\* The map and _currentAwake stay in agreement.
LEMMA OneAwakeNext ==
  ASSUME TypeOK, OneAwake, CreateNeverThrows, [Next]_vars PROVE OneAwake'
<1> USE DEF OneAwake
<1>1. ASSUME NEW s \in Sessions, NEW D \in SUBSET Sessions, CreateSession(s, D)
      PROVE  OneAwake'
  BY <1>1, CreateSessionEffect
<1>2. ASSUME NEW t \in Sessions, SwitchContext(t) PROVE OneAwake'
  BY <1>2, SwitchContextEffect
<1>3. ASSUME NEW s \in Sessions, AwakeTtlExpired(s), states[s] = "awake" PROVE OneAwake'
  BY <1>3 DEF AwakeTtlExpired, Demoted, CurrentAwakeWithout
<1>4. ASSUME NEW s \in Sessions, GoDormant(s) PROVE OneAwake'
  BY <1>4 DEF GoDormant, TypeOK
<1>5. ASSUME NEW s \in Sessions, CheckArchivedTrigger(s) PROVE OneAwake'
  BY <1>5 DEF CheckArchivedTrigger, Archivable, TypeOK
<1>6. ASSUME CrashAndRestart PROVE OneAwake'
  BY <1>6 DEF CrashAndRestart, Hydrated
<1> QED
  BY PictureSteps, <1>1, <1>2, <1>3, <1>4, <1>5, <1>6

\* Rows and map stay in agreement.
LEMMA RowsAgreeNext ==
  ASSUME TypeOK, OneAwake, RowsAgree, CreateNeverThrows, [Next]_vars PROVE RowsAgree'
<1> USE DEF RowsAgree
<1>1. ASSUME NEW s \in Sessions, NEW D \in SUBSET Sessions, CreateSession(s, D)
      PROVE  RowsAgree'
  BY <1>1, CreateSessionEffect
<1>2. ASSUME NEW t \in Sessions, SwitchContext(t) PROVE RowsAgree'
  BY <1>2, SwitchContextEffect
<1>3. ASSUME NEW s \in Sessions, AwakeTtlExpired(s), states[s] = "awake" PROVE RowsAgree'
  BY <1>3 DEF AwakeTtlExpired, Demoted, TypeOK
<1>4. ASSUME NEW s \in Sessions, GoDormant(s) PROVE RowsAgree'
  BY <1>4 DEF GoDormant, TypeOK
<1>5. ASSUME NEW s \in Sessions, CheckArchivedTrigger(s) PROVE RowsAgree'
  BY <1>5 DEF CheckArchivedTrigger, TypeOK
<1>6. ASSUME CrashAndRestart PROVE RowsAgree'
  BY <1>6 DEF CrashAndRestart, Hydrated
<1>7. ASSUME NEW e \in Events, NEW s \in Sessions, InsertRow(e, s), states' = states
      PROVE  RowsAgree'
  BY <1>7 DEF InsertRow, Fresh, TypeOK
<1> QED
  BY PictureSteps, <1>1, <1>2, <1>3, <1>4, <1>5, <1>6, <1>7

\* The wake records stay those of the live sessions.
LEMMA WakeRecordsNext ==
  ASSUME TypeOK, OneAwake, WakeRecords, CreateNeverThrows, [Next]_vars PROVE WakeRecords'
<1> USE DEF WakeRecords, Live
<1>1. ASSUME NEW s \in Sessions, NEW D \in SUBSET Sessions, CreateSession(s, D)
      PROVE  WakeRecords'
  BY <1>1, CreateSessionEffect
<1>2. ASSUME NEW t \in Sessions, SwitchContext(t) PROVE WakeRecords'
  BY <1>2, SwitchContextEffect
<1>3. ASSUME NEW s \in Sessions, AwakeTtlExpired(s), states[s] = "awake" PROVE WakeRecords'
  BY <1>3 DEF AwakeTtlExpired, Demoted, TypeOK
<1>4. ASSUME NEW s \in Sessions, GoDormant(s) PROVE WakeRecords'
  BY <1>4 DEF GoDormant, DropWakeConditions, TypeOK
<1>5. ASSUME NEW s \in Sessions, CheckArchivedTrigger(s) PROVE WakeRecords'
  BY <1>5 DEF CheckArchivedTrigger, Archivable, TypeOK
<1>6. ASSUME CrashAndRestart PROVE WakeRecords'
  BY <1>6 DEF CrashAndRestart, Hydrated
<1> QED
  BY PictureSteps, <1>1, <1>2, <1>3, <1>4, <1>5, <1>6

\* No step strands a live session.
LEMMA NeverStrandedNext ==
  ASSUME TypeOK, OneAwake, NeverStranded, CreateNeverThrows, [Next]_vars
  PROVE  NeverStranded'
<1> DEFINE Kept == UNCHANGED <<states, timer, lingerTicks, keepTicks>>
<1> USE DEF NeverStranded, memory, keepAlive, meta, inFlight, bounds, StartTtl
<1>1. ASSUME NEW e \in Events,
             ReceiveEvent(e) \/ Overflow(e) \/ EventFails(e) \/ RecordTurnAfterBrain(e)
             \/ Stage1CreateSession(e) \/ Stage3CreateNewSession(e)
      PROVE  Kept
  BY <1>1 DEF ReceiveEvent, Overflow, EventFails, RecordTurnAfterBrain, Stage1CreateSession,
              Stage3CreateNewSession, InsertRow
<1>2. ASSUME NEW e \in Events, AppendToSession(e) PROVE NeverStranded'
  BY <1>2 DEF AppendToSession, TypeOK
<1>3. ASSUME NEW s \in Sessions, NEW D \in SUBSET Sessions, CreateSession(s, D),
             UNCHANGED <<lingerTicks, keepTicks>>
      PROVE  NeverStranded'
  BY <1>3, CreateSessionEffect, CreateSessionType DEF TypeOK
<1>4. ASSUME NEW e \in Events, RegisterSession(e) \/ RegisterContinuation(e)
      PROVE  NeverStranded'
  <2>1. opened[e] \in Sessions
    BY <1>4 DEF RegisterSession, RegisterContinuation, CreateNeverThrows
  <2>2. {} \in SUBSET Sessions
    OBVIOUS
  <2>3. CASE RegisterSession(e)
    BY <1>3, <2>1, <2>2, <2>3 DEF RegisterSession
  <2>4. CASE RegisterContinuation(e)
    <3>1. {s \in {target[e]} : states[s] = "awake"} \in SUBSET Sessions
      BY <2>4 DEF RegisterContinuation, TypeOK
    <3> QED
      BY <1>3, <2>1, <2>4, <3>1 DEF RegisterContinuation
  <2> QED
    BY <1>4, <2>3, <2>4
<1>5. ASSUME NEW e \in Events, SwitchSession(e) PROVE NeverStranded'
  <2>1. target[e] \in Sessions
    BY <1>5 DEF SwitchSession, TypeOK
  <2>2. CASE SwitchContext(target[e])
    BY <1>5, <2>1, <2>2, SwitchContextEffect, SwitchContextType DEF SwitchSession, TypeOK
  <2>3. CASE Kept
    BY <2>3
  <2> QED
    BY <1>5, <2>2, <2>3 DEF SwitchSession
<1>6. ASSUME NEW s \in Sessions, AwakeTtlExpired(s) PROVE NeverStranded'
  BY <1>6 DEF AwakeTtlExpired, Demoted, TypeOK
<1>7. ASSUME NEW s \in Sessions, DrowsyTtlIgnored(s) PROVE NeverStranded'
  BY <1>7 DEF DrowsyTtlIgnored, DrowsyTtlDue, TypeOK
<1>8. ASSUME NEW s \in Sessions, StartLingerTick(s) PROVE NeverStranded'
  BY <1>8 DEF StartLingerTick, DrowsyTtlDue, TypeOK
<1>9. ASSUME NEW s \in Sessions, StartKeepAlive(s) PROVE NeverStranded'
  BY <1>9 DEF StartKeepAlive, DrowsyTtlDue, TypeOK
<1>10. ASSUME NEW s \in Sessions, GoDormant(s) PROVE NeverStranded'
  BY <1>10 DEF GoDormant, TypeOK
<1>11. ASSUME NEW s \in Sessions, FinishLingerTick(s) PROVE NeverStranded'
  BY <1>11 DEF FinishLingerTick, TypeOK
<1>12. ASSUME NEW s \in Sessions, FinishKeepAlive(s) PROVE NeverStranded'
  BY <1>12 DEF FinishKeepAlive, TypeOK
<1>13. ASSUME NEW s \in Sessions, RequestStep(s) \/ DigestHistory(s) PROVE Kept
  BY <1>13 DEF RequestStep, IncrementPendingRequests, DecrementPendingRequests,
               KeepAliveWindowEnds, DigestHistory
<1>14. ASSUME NEW s \in Sessions, CheckArchivedTrigger(s) PROVE NeverStranded'
  BY <1>14 DEF CheckArchivedTrigger, TypeOK
<1>15. ASSUME CrashAndRestart PROVE NeverStranded'
  BY <1>15 DEF CrashAndRestart, Hydrated
<1>16. ASSUME Kept PROVE NeverStranded'
  BY <1>16
<1>17. CASE UNCHANGED vars
  BY <1>17 DEF vars
<1> HIDE DEF Kept, NeverStranded
<1>18. CASE \E e \in Events : ReceiveEvent(e) \/ EventStep(e) \/ Overflow(e) \/ EventFails(e)
  BY <1>1, <1>2, <1>4, <1>5, <1>16, <1>18 DEF EventStep
<1>19. CASE \E s \in Sessions : TimerStep(s) \/ TickStep(s) \/ RequestStep(s) \/ ArchiveStep(s)
  BY <1>6, <1>7, <1>8, <1>9, <1>10, <1>11, <1>12, <1>13, <1>14, <1>16, <1>19
  DEF TimerStep, TickStep, ArchiveStep
<1> QED
  BY <1>15, <1>17, <1>18, <1>19 DEF Next

\* No step makes createSession throw at an event that opened a session.
LEMMA CreateNeverThrowsNext ==
  ASSUME TypeOK, RowsAgree, CreateNeverThrows, [Next]_vars PROVE CreateNeverThrows'
<1> DEFINE Opener(e) == pc[e] \in {"created", "continued"}
           Others(e) == UNCHANGED <<states, row, opened>> /\ opened[e] = NoSession
                        /\ ~Opener(e)' /\ \A f \in Events \ {e} : pc'[f] = pc[f]
<1> USE DEF memory, keepAlive, meta, inFlight, bounds, Goto
<1>1. ASSUME NEW e \in Events, Others(e) PROVE CreateNeverThrows'
  BY <1>1 DEF CreateNeverThrows
<1>2. ASSUME NEW e \in Events,
             ReceiveEvent(e) \/ AppendToSession(e) \/ Overflow(e) \/ RecordTurnAfterBrain(e)
      PROVE  CreateNeverThrows'
  BY <1>1, <1>2 DEF ReceiveEvent, AppendToSession, Overflow, RecordTurnAfterBrain,
                    CreateNeverThrows, TypeOK
<1>3. ASSUME NEW e \in Events, EventFails(e) PROVE CreateNeverThrows'
  BY <1>3 DEF EventFails, Awaits, CreateNeverThrows, TypeOK
<1>4. ASSUME NEW e \in Events, NEW s \in Sessions, InsertRow(e, s),
             UNCHANGED states, pc[e] \in {"creating", "compressing"},
             \E label \in {"created", "continued"} : Goto(e, label)
      PROVE  CreateNeverThrows'
  <2>1. states[s] = "none" /\ row[s] = "none"
    BY <1>4 DEF InsertRow, Fresh, RowsAgree
  <2>2. \A f \in Events : opened[f] # s
    BY <2>1 DEF CreateNeverThrows
  <2> QED
    BY <1>4, <2>1, <2>2 DEF InsertRow, CreateNeverThrows, TypeOK
<1>5. ASSUME NEW e \in Events, Stage1CreateSession(e) \/ Stage3CreateNewSession(e)
      PROVE  CreateNeverThrows'
  BY <1>4, <1>5 DEF Stage1CreateSession, Stage3CreateNewSession, InsertRow
<1>6. ASSUME NEW e \in Events, NEW D \in SUBSET Sessions, CreateSession(opened[e], D),
             opened' = [opened EXCEPT ![e] = NoSession], Goto(e, "thinking"), Opener(e)
      PROVE  CreateNeverThrows'
  <2>1. opened[e] \in Sessions
    BY <1>6 DEF CreateNeverThrows
  <2>2. \A x \in Sessions : states[x] = "none" /\ x # opened[e]
                              => states'[x] = states[x] /\ row'[x] = row[x]
    BY <1>6, <2>1, CreateSessionEffect
  <2> QED
    BY <1>6, <2>1, <2>2 DEF CreateNeverThrows, TypeOK
<1>7. ASSUME NEW e \in Events, RegisterSession(e) \/ RegisterContinuation(e)
      PROVE  CreateNeverThrows'
  <2>1. {} \in SUBSET Sessions
    OBVIOUS
  <2>2. CASE RegisterSession(e)
    BY <1>6, <2>1, <2>2 DEF RegisterSession
  <2>3. CASE RegisterContinuation(e)
    <3>1. {s \in {target[e]} : states[s] = "awake"} \in SUBSET Sessions
      BY <2>3 DEF RegisterContinuation, TypeOK
    <3> QED
      BY <1>6, <2>3, <3>1 DEF RegisterContinuation
  <2> QED
    BY <1>7, <2>2, <2>3
<1>8. ASSUME NEW e \in Events, SwitchSession(e) PROVE CreateNeverThrows'
  <2>1. target[e] \in Sessions /\ ~Opener(e) /\ ~Opener(e)' /\ opened' = opened
        /\ \A f \in Events \ {e} : pc'[f] = pc[f]
    BY <1>8 DEF SwitchSession, TypeOK
  <2>2. \A x \in Sessions : states[x] = "none" => states'[x] = states[x] /\ row'[x] = row[x]
    <3>1. CASE SwitchContext(target[e])
      BY <2>1, <3>1, SwitchContextEffect
    <3>2. CASE UNCHANGED <<states, row>>
      BY <3>2
    <3> QED
      BY <1>8, <3>1, <3>2 DEF SwitchSession
  <2> QED
    BY <2>1, <2>2 DEF CreateNeverThrows
<1>9. ASSUME UNCHANGED inFlight,
             \A x \in Sessions : states[x] = "none" => states'[x] = states[x] /\ row'[x] = row[x]
      PROVE  CreateNeverThrows'
  BY <1>9 DEF CreateNeverThrows
<1>10. ASSUME NEW s \in Sessions, TimerStep(s) \/ TickStep(s) PROVE CreateNeverThrows'
  BY <1>9, <1>10 DEF TimerStep, AwakeTtlExpired, Demoted, DrowsyTtlIgnored, StartLingerTick,
     StartKeepAlive, GoDormant, TickStep, FinishLingerTick, FinishKeepAlive, TypeOK
<1>11. ASSUME NEW s \in Sessions, RequestStep(s) \/ ArchiveStep(s) PROVE CreateNeverThrows'
  BY <1>9, <1>11 DEF RequestStep, IncrementPendingRequests, DecrementPendingRequests,
     KeepAliveWindowEnds, ArchiveStep, DigestHistory, CheckArchivedTrigger, Archivable, TypeOK
<1>12. ASSUME CrashAndRestart PROVE CreateNeverThrows'
  BY <1>12 DEF CrashAndRestart, CreateNeverThrows
<1>13. CASE UNCHANGED vars
  BY <1>9, <1>13 DEF vars
<1> QED
  BY <1>2, <1>3, <1>5, <1>7, <1>8, <1>10, <1>11, <1>12, <1>13 DEF Next, EventStep

\* The invariant holds at the start.
LEMMA IInvInit == ASSUME Init PROVE IInv
BY DEF Init, IInv, TypeOK, Statuses, OneAwake, RowsAgree, NeverStranded, WakeRecords, Live,
       CreateNeverThrows

\* The invariant survives every step.
LEMMA IInvNext == ASSUME IInv, [Next]_vars PROVE IInv'
BY TypeNext, OneAwakeNext, RowsAgreeNext, NeverStrandedNext, WakeRecordsNext,
   CreateNeverThrowsNext DEF IInv

\* The conjunction of the parts holds in every reachable state.
THEOREM Invariance == Spec => []IInv
BY IInvInit, IInvNext, PTL DEF Spec

-----------------------------------------------------------------------------
(***************************************************************************)
(* The safety theorems.                                                    *)
(***************************************************************************)
\* Every reachable state is well typed.
THEOREM TypeCorrect == Spec => []TypeOK
<1>1. IInv => TypeOK
  BY DEF IInv
<1> QED
  BY <1>1, Invariance, PTL

\* At most one session is awake, and _currentAwake is it, for any number of
\* sessions and events, with and without crashes.
THEOREM AtMostOneSessionAwake == Spec => []OneAwake
<1>1. IInv => OneAwake
  BY DEF IInv
<1> QED
  BY <1>1, Invariance, PTL

\* The status in agent-core.db is that of the state machine.
THEOREM RowsAgreeAlways == Spec => []RowsAgree
<1>1. IInv => RowsAgree
  BY DEF IInv
<1> QED
  BY <1>1, Invariance, PTL

\* No interleaving of events, timeouts and ticks leaves a live session with
\* nothing to end it.
THEOREM NoSessionStranded == Spec => []NeverStranded
<1>1. IInv => NeverStranded
  BY DEF IInv
<1> QED
  BY <1>1, Invariance, PTL

\* The wake-condition records neither leak nor go missing.
THEOREM WakeRecordsExact == Spec => []WakeRecords
<1>1. IInv => WakeRecords
  BY DEF IInv
<1> QED
  BY <1>1, Invariance, PTL

\* Registering a session never meets a state machine that knows it already.
THEOREM RegistrationNeverThrows == Spec => []CreateNeverThrows
<1>1. IInv => CreateNeverThrows
  BY DEF IInv
<1> QED
  BY <1>1, Invariance, PTL

-----------------------------------------------------------------------------
(***************************************************************************)
(* What a step may do: action properties, and the abstract lifecycle.      *)
(***************************************************************************)
\* Persisted statuses only move along the edges of VALID_TRANSITIONS.
LEMMA EdgesNext ==
  ASSUME IInv, [Next]_vars, NEW s \in Sessions, row'[s] # row[s]
  PROVE  row'[s] \in ValidTransitions[row[s]]
<1> USE DEF IInv, RowsAgree
<1>1. ASSUME NEW e \in Events, NEW t \in Sessions, InsertRow(e, t)
      PROVE  row'[s] \in ValidTransitions[row[s]]
  BY <1>1 DEF InsertRow, Fresh, ValidTransitions, TypeOK
<1>2. ASSUME NEW e \in Events, NEW D \in SUBSET Sessions, opened[e] \in Sessions,
             pc[e] \in {"created", "continued"}, CreateSession(opened[e], D)
      PROVE  row'[s] \in ValidTransitions[row[s]]
  <2>1. row[opened[e]] = "awake" /\ row'[opened[e]] = "awake"
    BY <1>2, CreateSessionEffect DEF CreateNeverThrows
  <2>2. row[s] = "awake" /\ row'[s] = "drowsy"
    BY <1>2, <2>1, CreateSessionEffect
  <2> QED
    BY <2>2 DEF ValidTransitions
<1>3. ASSUME NEW t \in Sessions, SwitchContext(t)
      PROVE  row'[s] \in ValidTransitions[row[s]]
  <2>1. CASE s = t
    BY <1>3, <2>1, SwitchContextEffect DEF ValidTransitions
  <2>2. CASE s # t
    <3>1. row[s] = "awake" /\ row'[s] = "drowsy"
      BY <1>3, <2>2, SwitchContextEffect
    <3> QED
      BY <3>1 DEF ValidTransitions
  <2> QED
    BY <2>1, <2>2
<1>4. ASSUME NEW t \in Sessions, AwakeTtlExpired(t), states[t] = "awake"
      PROVE  row'[s] \in ValidTransitions[row[s]]
  BY <1>4 DEF AwakeTtlExpired, Demoted, ValidTransitions, TypeOK
<1>5. ASSUME NEW t \in Sessions, GoDormant(t) PROVE row'[s] \in ValidTransitions[row[s]]
  BY <1>5 DEF GoDormant, ValidTransitions, TypeOK
<1>6. ASSUME NEW t \in Sessions, CheckArchivedTrigger(t)
      PROVE  row'[s] \in ValidTransitions[row[s]]
  BY <1>6 DEF CheckArchivedTrigger, Archivable, ValidTransitions, TypeOK
<1>7. ~CrashAndRestart
  BY DEF CrashAndRestart, meta
<1> QED
  BY PictureSteps, <1>1, <1>2, <1>3, <1>4, <1>5, <1>6, <1>7

\* A step changes no status that is not this process's own.
LEMMA OrphansNext ==
  ASSUME IInv, [Next]_vars, NEW s \in Sessions, row[s] # "none", row'[s] # row[s]
  PROVE  states[s] # "none" \/ \E e \in Events : opened[e] = s
<1> USE DEF IInv, TypeOK
<1>1. ~ \E e \in Events : \E t \in Sessions : t = s /\ InsertRow(e, t)
  BY DEF InsertRow, Fresh
<1>2. ASSUME NEW e \in Events, NEW t \in Sessions, InsertRow(e, t) PROVE FALSE
  BY <1>1, <1>2 DEF InsertRow
<1>3. ASSUME NEW e \in Events, NEW D \in SUBSET Sessions, opened[e] \in Sessions,
             CreateSession(opened[e], D), opened[e] # s
      PROVE  states[s] # "none"
  BY <1>3, CreateSessionEffect
<1>4. ASSUME NEW t \in Sessions, SwitchContext(t) PROVE states[s] # "none"
  BY <1>4, SwitchContextEffect
<1>5. ASSUME NEW t \in Sessions, AwakeTtlExpired(t), states[t] = "awake"
      PROVE  states[s] # "none"
  BY <1>5 DEF AwakeTtlExpired, Demoted
<1>6. ASSUME NEW t \in Sessions, GoDormant(t) \/ CheckArchivedTrigger(t)
      PROVE  states[s] # "none"
  BY <1>6 DEF GoDormant, CheckArchivedTrigger, Archivable
<1>7. ~CrashAndRestart
  BY DEF CrashAndRestart, meta
<1> QED
  BY PictureSteps, <1>2, <1>3, <1>4, <1>5, <1>6, <1>7

\* In memory, a step is one of the abstract lifecycle's, or none.
LEMMA LifecycleNext ==
  ASSUME IInv, [Next]_vars PROVE [Lifecycle!Next]_states
<1> USE DEF IInv, TypeOK, OneAwake
<1>1. ASSUME NEW s \in Sessions, NEW D \in SUBSET Sessions, CreateSession(s, D)
      PROVE  Lifecycle!Open(s)
  <2>1. states' = Lifecycle!HandOver(s)
    <3>1. states' \in [Sessions -> Statuses]
      BY <1>1, CreateSessionType
    <3>2. ASSUME NEW x \in Sessions
          PROVE  states'[x] = IF x = s THEN "awake"
                              ELSE IF states[x] = "awake" THEN "drowsy" ELSE states[x]
      BY <1>1, CreateSessionEffect
    <3> QED
      BY <3>1, <3>2 DEF Lifecycle!HandOver
  <2> QED
    BY <1>1, <2>1, CreateSessionEffect DEF Lifecycle!Open
<1>2. ASSUME NEW t \in Sessions, SwitchContext(t) PROVE Lifecycle!Wake(t)
  <2>1. states' = Lifecycle!HandOver(t)
    <3>1. states' \in [Sessions -> Statuses]
      BY <1>2, SwitchContextType
    <3>2. ASSUME NEW x \in Sessions
          PROVE  states'[x] = IF x = t THEN "awake"
                              ELSE IF states[x] = "awake" THEN "drowsy" ELSE states[x]
      BY <1>2, SwitchContextEffect
    <3> QED
      BY <3>1, <3>2 DEF Lifecycle!HandOver
  <2> QED
    BY <1>2, <2>1, SwitchContextEffect DEF Lifecycle!Wake
<1>3. ASSUME NEW s \in Sessions, AwakeTtlExpired(s), states[s] = "awake"
      PROVE  Lifecycle!Doze(s)
  BY <1>3 DEF AwakeTtlExpired, Demoted, Lifecycle!Doze
<1>4. ASSUME NEW s \in Sessions, GoDormant(s) PROVE Lifecycle!Retire(s)
  BY <1>4 DEF GoDormant, Lifecycle!Retire
<1>5. ASSUME NEW s \in Sessions, CheckArchivedTrigger(s) PROVE Lifecycle!Archive(s)
  BY <1>5 DEF CheckArchivedTrigger, Archivable, Lifecycle!Archive
<1>6. ASSUME CrashAndRestart PROVE Lifecycle!Restart
  BY <1>6 DEF CrashAndRestart, Hydrated, Lifecycle!Restart
<1> HIDE DEF IInv, TypeOK, OneAwake
<1>7. TypeOK /\ CreateNeverThrows
  BY DEF IInv
<1> QED
  BY PictureSteps, <1>1, <1>2, <1>3, <1>4, <1>5, <1>6, <1>7 DEF Lifecycle!Next

\* The rows follow the edges of VALID_TRANSITIONS, whatever interleaves.
THEOREM RowsOnlyFollowEdges == Spec => RowsFollowTheEdges
<1>1. ASSUME IInv, [Next]_vars
      PROVE  [\A s \in Sessions :
                row'[s] # row[s] => row'[s] \in ValidTransitions[row[s]]]_row
  BY <1>1, EdgesNext
<1> QED
  BY <1>1, Invariance, PTL DEF Spec, RowsFollowTheEdges

\* After a restart nothing but a new registration moves a session's status.
THEOREM OrphansStay == Spec => OrphansKeepTheirStatus
<1>1. ASSUME IInv, [Next]_vars
      PROVE  [\A s \in Sessions :
                row[s] # "none" /\ row'[s] # row[s] =>
                  states[s] # "none" \/ \E e \in Events : opened[e] = s]_vars
  BY <1>1, OrphansNext
<1> QED
  BY <1>1, Invariance, PTL DEF Spec, OrphansKeepTheirStatus

\* The Supervisor implements the abstract session lifecycle.
THEOREM Refinement == Spec => ImplementsLifecycle
<1>1. Init => Lifecycle!Init
  BY DEF Init, Lifecycle!Init
<1>2. IInv /\ [Next]_vars => [Lifecycle!Next]_states
  BY LifecycleNext
<1> QED
  BY <1>1, <1>2, Invariance, PTL DEF Spec, ImplementsLifecycle, Lifecycle!Spec

-----------------------------------------------------------------------------
(***************************************************************************)
(* Without crashes every row has an owner.                                 *)
(***************************************************************************)
\* A row the state machine does not know belongs to the event that inserted it.
LEMMA RowsOwnedNext ==
  ASSUME IInv, RowsOwned, [Next]_vars PROVE RowsOwned'
<1> USE DEF IInv, RowsOwned, TypeOK, memory, keepAlive, meta, inFlight, bounds, Goto
<1>1. ASSUME UNCHANGED <<opened, crashes>>,
             \A x \in Sessions : states'[x] = "none" => states[x] = "none" /\ row'[x] = row[x]
      PROVE  RowsOwned'
  BY <1>1
<1>2. ASSUME NEW e \in Events,
             ReceiveEvent(e) \/ AppendToSession(e) \/ Overflow(e) \/ RecordTurnAfterBrain(e)
      PROVE  RowsOwned'
  BY <1>1, <1>2 DEF ReceiveEvent, AppendToSession, Overflow, RecordTurnAfterBrain
<1>3. ASSUME NEW e \in Events, EventFails(e) PROVE RowsOwned'
  <2>1. opened[e] = NoSession
    BY <1>3 DEF EventFails, Awaits, CreateNeverThrows
  <2> QED
    BY <1>3, <2>1 DEF EventFails
<1>4. ASSUME NEW e \in Events, NEW s \in Sessions, InsertRow(e, s),
             opened[e] = NoSession, UNCHANGED <<states, crashes>>
      PROVE  RowsOwned'
  BY <1>4 DEF InsertRow
<1>5. ASSUME NEW e \in Events, Stage1CreateSession(e) \/ Stage3CreateNewSession(e)
      PROVE  RowsOwned'
  <2>1. opened[e] = NoSession
    BY <1>5 DEF Stage1CreateSession, Stage3CreateNewSession, CreateNeverThrows
  <2> QED
    BY <1>4, <1>5, <2>1 DEF Stage1CreateSession, Stage3CreateNewSession, InsertRow
<1>6. ASSUME NEW e \in Events, NEW D \in SUBSET Sessions, CreateSession(opened[e], D),
             opened' = [opened EXCEPT ![e] = NoSession], opened[e] \in Sessions,
             crashes' = crashes
      PROVE  RowsOwned'
  <2>1. \A x \in Sessions : states'[x] = "none" =>
          states[x] = "none" /\ row'[x] = row[x] /\ x # opened[e]
    BY <1>6, CreateSessionEffect
  <2> QED
    BY <1>6, <2>1
<1>7. ASSUME NEW e \in Events, RegisterSession(e) \/ RegisterContinuation(e)
      PROVE  RowsOwned'
  <2>1. {} \in SUBSET Sessions
    OBVIOUS
  <2>2. opened[e] \in Sessions
    BY <1>7 DEF RegisterSession, RegisterContinuation, CreateNeverThrows
  <2>3. CASE RegisterSession(e)
    BY <1>6, <2>1, <2>2, <2>3 DEF RegisterSession
  <2>4. CASE RegisterContinuation(e)
    <3>1. {s \in {target[e]} : states[s] = "awake"} \in SUBSET Sessions
      BY <2>4 DEF RegisterContinuation
    <3> QED
      BY <1>6, <2>2, <2>4, <3>1, ZenonT(40) DEF RegisterContinuation
  <2> QED
    BY <1>7, <2>3, <2>4
<1>8. ASSUME NEW e \in Events, SwitchSession(e) PROVE RowsOwned'
  <2>1. target[e] \in Sessions /\ opened' = opened /\ crashes' = crashes
    BY <1>8 DEF SwitchSession
  <2>2. CASE SwitchContext(target[e])
    BY <1>1, <2>1, <2>2, SwitchContextEffect
  <2>3. CASE UNCHANGED <<states, row>>
    BY <1>1, <2>1, <2>3
  <2> QED
    BY <1>8, <2>2, <2>3 DEF SwitchSession
<1>9. ASSUME NEW s \in Sessions, TimerStep(s) \/ TickStep(s) PROVE RowsOwned'
  BY <1>1, <1>9 DEF TimerStep, AwakeTtlExpired, Demoted, DrowsyTtlIgnored, StartLingerTick,
     StartKeepAlive, GoDormant, TickStep, FinishLingerTick, FinishKeepAlive
<1>10. ASSUME NEW s \in Sessions, RequestStep(s) \/ ArchiveStep(s) PROVE RowsOwned'
  BY <1>1, <1>10 DEF RequestStep, IncrementPendingRequests, DecrementPendingRequests,
     KeepAliveWindowEnds, ArchiveStep, DigestHistory, CheckArchivedTrigger, Archivable
<1>11. ASSUME CrashAndRestart PROVE RowsOwned'
  BY <1>11 DEF CrashAndRestart
<1>12. CASE UNCHANGED vars
  BY <1>1, <1>12 DEF vars
<1> QED
  BY <1>2, <1>3, <1>5, <1>7, <1>8, <1>9, <1>10, <1>11, <1>12 DEF Next, EventStep

\* As long as the process does not die, every awake or drowsy row is one that
\* the state machine, and so a timer or a tick, still looks after.
THEOREM RowsOwnedUntilCrash == Spec => []RowsOwned
<1>1. Init => RowsOwned
  BY DEF Init, RowsOwned
<1>2. IInv /\ RowsOwned /\ [Next]_vars => RowsOwned'
  BY RowsOwnedNext
<1> QED
  BY <1>1, <1>2, Invariance, PTL DEF Spec
=============================================================================
