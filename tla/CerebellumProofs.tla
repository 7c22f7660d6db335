-------------------------- MODULE CerebellumProofs --------------------------
(***************************************************************************)
(* Proofs about Lock and Cerebellum, for any sets of tasks and sessions    *)
(* and any bounds.                                                         *)
(***************************************************************************)
EXTENDS Cerebellum, FiniteSetTheorems, TLAPS

-----------------------------------------------------------------------------
(* The lock.                                                               *)

\* Of two tasks with a closed gate one waits for the other, and whoever is
\* inside waits for nobody.
Ordered ==
    /\ inside \subseteq chain
    /\ \A t, u \in chain : t = u \/ u \in waits[t] \/ t \in waits[u]
    /\ \A t \in inside : waits[t] = {}

LockInv == LockTypeOK /\ Ordered

\* Initially no task waits for the lock.
LEMMA LockInitial == LockInit => LockInv
BY DEF LockInit, LockInv, LockTypeOK, Ordered

\* The lock keeps the order of its queue.
LEMMA LockStepInv == LockInv /\ [LockNext]_lockVars => LockInv'
<1> SUFFICES ASSUME LockInv, [LockNext]_lockVars PROVE LockInv'
  OBVIOUS
<1> USE DEF LockInv, LockTypeOK, Ordered
<1>1. ASSUME NEW t \in Tasks, Acquire(t) PROVE LockInv'
  <2>1. LockTypeOK'
    BY <1>1 DEF Acquire, Gates
  <2>2. t \notin inside /\ \A u \in Tasks : u # t => waits'[u] = waits[u]
    BY <1>1 DEF Acquire, Gates
  <2>3. waits'[t] = chain /\ chain' = chain \cup {t} /\ inside' = inside
    BY <1>1 DEF Acquire, Gates
  <2> QED
    BY <2>1, <2>2, <2>3
<1>2. ASSUME NEW t \in Tasks, Enter(t) PROVE LockInv'
  BY <1>2 DEF Enter
<1>3. ASSUME NEW t \in Tasks, Release(t) PROVE LockInv'
  <2>1. LockTypeOK'
    BY <1>3 DEF Release
  <2>2. \A u, v \in chain' : u = v \/ v \in waits'[u] \/ u \in waits'[v]
    BY <1>3 DEF Release
  <2>3. inside' \subseteq chain' /\ \A u \in inside' : waits'[u] = {}
    BY <1>3 DEF Release
  <2> QED
    BY <2>1, <2>2, <2>3
<1>4. CASE Renew
  BY <1>4 DEF Renew
<1>5. CASE UNCHANGED lockVars
  BY <1>5 DEF lockVars
<1> QED
  BY <1>1, <1>2, <1>3, <1>4, <1>5 DEF LockNext

\* The one inside is the first of the queue.
LEMMA LockInvExcludes == LockInv => MutualExclusion
BY DEF LockInv, LockTypeOK, Ordered, MutualExclusion

\* The promise chain excludes: whatever tasks acquire and release, at most
\* one is inside, in every run of the lock, for any number of tasks.
THEOREM LockExcludes == LockSpec => [](LockInv /\ MutualExclusion)
<1>1. LockSpec => []LockInv
  BY LockInitial, LockStepInv, PTL DEF LockSpec
<1> QED
  BY <1>1, LockInvExcludes, PTL

\* A step of the consolidation uses the lock as the lock is meant to be
\* used, or leaves it alone.
LEMMA LockUsed == [Next]_vars => [LockNext]_lockVars
<1> SUFFICES ASSUME [Next]_vars PROVE [LockNext]_lockVars
  OBVIOUS
<1>1. ASSUME NEW s \in Sessions, AppendTurn(s) \/ FallDormant(s) \/ Archive(s) PROVE UNCHANGED lockVars
  BY <1>1 DEF AppendTurn, FallDormant, Archive
<1>2. ASSUME NEW t \in Ticks, StartTick(t) PROVE UNCHANGED lockVars
  BY <1>2 DEF StartTick
<1>3. ASSUME NEW t \in Ticks, TickStep(t) PROVE Acquire(t) \/ UNCHANGED lockVars
  BY <1>3 DEF TickStep, SkipSession, AskModel, ModelAnswers, ExtractionFails,
      PassFails, Commit, CommitFails, EndSweep, SkipLevel, SummarizeLevel,
      StartTidying, Tidy, EndTidying
<1>4. ASSUME NEW t \in Writers, StartWrite(t) PROVE Acquire(t)
  BY <1>4 DEF StartWrite
<1>5. ASSUME NEW t \in Tasks, LockStep(t)
      PROVE  Enter(t) \/ Release(t) \/ UNCHANGED lockVars
  BY <1>5 DEF LockStep, EnterLock, WriteEntries, LeaveLock
<1>6. CASE Crash
  BY <1>6 DEF Crash, LockNext
<1>7. CASE UNCHANGED vars
  BY <1>7 DEF vars
<1> QED
  BY <1>1, <1>2, <1>3, <1>4, <1>5, <1>6, <1>7, CerebellumAssumption DEF Next, LockNext

\* The consolidation implements the lock's specification, hence excludes.
THEOREM CerebellumExcludes == Spec => LockSpec /\ []MutualExclusion
<1>1. Init => LockInit
  BY DEF Init
<1>2. Spec => LockSpec
  BY <1>1, LockUsed, PTL DEF Spec, LockSpec
<1> QED
  BY <1>2, LockExcludes, PTL

-----------------------------------------------------------------------------
(* The consolidation.                                                      *)

\* A pass over session s is still to come, or under way and not committed.
Pending(t, s) ==
    \/ s \in task[t].todo
    \/ task[t].at = s /\ \/ task[t].pc = "asking"
                         \/ task[t].pc \in {"locking", "inside"} /\ task[t].job = "digest"

\* What the locals of a tick mean.
Local(t) ==
    /\ task[t].pc = "idle" => task[t].todo = {}
    /\ task[t].pc = "asking" \/ task[t].job = "digest" =>
          /\ task[t].at \in Sessions \ task[t].todo
          /\ task[t].from[task[t].at] < task[t].upTo
    /\ task[t].job = "digest" =>
          /\ task[t].pc \in {"locking", "inside", "leaving"}
          /\ task[t].survivors \subseteq Batch(t)
          /\ task[t].answered \/ t \in L1Ticks

LocalsOK == \A t \in Ticks : Local(t)

\* Turns that the tick takes for done have been in a committed pass.
Covered(l, s) == read[l][s] \cup dropped[l][s]

SnapshotsCovered ==
    \A t \in Ticks, s \in Sessions :
        1 .. task[t].from[s] \subseteq Covered(LayerOf(t), s)

\* While no ticks of a layer have overlapped there is one at a time, and
\* what it has before it is what the cursors say.
Alone ==
    \A l \in Layers : overlaps[l] = 0 =>
        /\ \A t, u \in Running(l) : t = u
        /\ \A t \in Running(l), s \in Sessions :
              Pending(t, s) => task[t].from[s] = cursor[l][s]

\* The ticks that may store turn i of session s again, or move the cursor
\* back behind it.
Threats(l, s, i) ==
    {t \in Ticks : LayerOf(t) = l /\ Pending(t, s) /\ task[t].from[s] < i}

\* Every copy made, and every threat but the regular pass, is paid for.
PaidFor(l, s, i) ==
    /\ IsFiniteSet(Threats(l, s, i))
    /\ stored[l][s][i] + Cardinality(Threats(l, s, i)) <= faults + overlaps[l] + 1
    /\ i > cursor[l][s] => stored[l][s][i] <= faults + overlaps[l]

Copies == \A l \in Layers, s \in Sessions, i \in Turns : PaidFor(l, s, i)

CInv == TypeOK /\ LocalsOK /\ SnapshotsCovered /\ NoTurnSkipped

USE CerebellumAssumption

\* A task that has not begun has locals of the right type.
LEMMA IdleTyped == Idle \in Locals
BY DEF Idle, Locals, PCs, Jobs

\* The locals after a pass, and those of a call that is over, are well typed.
LEMMA LocalsTyped ==
  ASSUME TypeOK, NEW t \in Tasks
  PROVE  task[t] \in Locals /\ Idle \in Locals /\ Sweeping(t) \in Locals
<1>1. task[t] \in Locals
  BY DEF TypeOK
<1>2. Idle \in Locals
  BY IdleTyped
<1>3. [s \in Sessions |-> IF s \in task[t].todo THEN task[t].from[s] ELSE 0]
        \in [Sessions -> 0 .. MaxLength]
  BY <1>1 DEF Locals
<1>4. task[t].todo \in SUBSET Sessions /\ task[t].due \in BOOLEAN
  BY <1>1 DEF Locals
<1>5. "sweeping" \in PCs
  BY DEF PCs
<1>6. Sweeping(t) \in Locals
  BY <1>2, <1>3, <1>4, <1>5 DEF Sweeping, Locals
<1> QED
  BY <1>1, <1>2, <1>6

\* So are those of a pass whose model calls are over.
LEMMA DigestTyped ==
  ASSUME NEW r \in Locals, NEW b \in BOOLEAN, NEW S \in SUBSET Turns
  PROVE  [r EXCEPT !.pc = "locking", !.job = "digest", !.answered = b, !.survivors = S]
            \in Locals
<1>1. [r EXCEPT !.pc = "locking", !.job = "digest"] \in Locals
  BY DEF Locals, PCs, Jobs
<1>2. \A q \in Locals : [q EXCEPT !.answered = b, !.survivors = S] \in Locals
  BY DEF Locals
<1>3. [r EXCEPT !.pc = "locking", !.job = "digest", !.answered = b, !.survivors = S]
        = [[r EXCEPT !.pc = "locking", !.job = "digest"] EXCEPT !.answered = b, !.survivors = S]
  BY DEF Locals
<1> QED
  BY <1>1, <1>2, <1>3

\* The memories of a set of turns keep the counts well typed.
LEMMA AddMemoriesType ==
  ASSUME TypeOK, NEW l \in Layers, NEW s \in Sessions, NEW W, AddMemories(l, s, W)
  PROVE  /\ stored' \in [Layers -> [Sessions -> [Turns -> Nat]]]
         /\ \A k \in Layers, r \in Sessions, i \in Turns :
               stored'[k][r][i] = IF k = l /\ r = s /\ i \in W
                                     THEN stored[k][r][i] + 1 ELSE stored[k][r][i]
BY DEF TypeOK, AddMemories

\* The batch of a pass lies within the turns.
LEMMA BatchTyped ==
  ASSUME TypeOK, NEW t \in Tasks, task[t].at \in Sessions
  PROVE  Batch(t) \subseteq Turns
BY DEF TypeOK, Locals, Batch, Turns

\* No step leaves the types of the state.
LEMMA TypeNext == ASSUME TypeOK, LocalsOK, LockTypeOK', [Next]_vars PROVE TypeOK'
<1> DEFINE Rest == /\ length' \in [Sessions -> 0 .. MaxLength]
                   /\ status' \in [Sessions -> {"live", "dormant", "archived"}]
                   /\ cursor' \in [Layers -> [Sessions -> 0 .. MaxLength]]
                   /\ read' \in [Layers -> [Sessions -> SUBSET Turns]]
                   /\ dropped' \in [Layers -> [Sessions -> SUBSET Turns]]
                   /\ stored' \in [Layers -> [Sessions -> [Turns -> Nat]]]
                   /\ overlaps' \in [Layers -> Nat]
                   /\ faults' \in Nat
<1> SUFFICES task' \in [Tasks -> Locals] /\ Rest
  BY DEF TypeOK
<1>a. task \in [Tasks -> Locals] /\ \A t \in Tasks : task[t] \in Locals
  BY DEF TypeOK
<1>b. Idle \in Locals /\ \A t \in Tasks : Sweeping(t) \in Locals
  BY LocalsTyped, IdleTyped
<1>c. ASSUME NEW t \in Tasks, NEW r \in Locals, task' = [task EXCEPT ![t] = r]
      PROVE  task' \in [Tasks -> Locals]
  BY <1>a, <1>c
<1>d. ASSUME UNCHANGED <<history, cursor, ghosts, overlaps, faults>> PROVE Rest
  BY <1>d DEF TypeOK, history, ghosts
<1>e. \A t \in Ticks : t \in Tasks /\ LayerOf(t) \in Layers
  BY DEF LayerOf, Layers
<1> HIDE DEF Rest
<1>1. ASSUME NEW s \in Sessions, AppendTurn(s) PROVE task' \in [Tasks -> Locals] /\ Rest
  BY <1>1, <1>a DEF AppendTurn, TypeOK, Rest, ghosts
<1>2. ASSUME NEW s \in Sessions, FallDormant(s) \/ Archive(s) PROVE task' \in [Tasks -> Locals] /\ Rest
  BY <1>2, <1>a DEF FallDormant, Archive, TypeOK, Rest, ghosts
<1>3. ASSUME NEW t \in Ticks, StartTick(t) PROVE task' \in [Tasks -> Locals] /\ Rest
  <2>1. PICK due \in BOOLEAN :
          task' = [task EXCEPT ![t] = [Idle EXCEPT !.pc = "sweeping",
                     !.todo = Eligible(LayerOf(t)), !.from = cursor[LayerOf(t)], !.due = due]]
    BY <1>3 DEF StartTick
  <2>2. [Idle EXCEPT !.pc = "sweeping", !.todo = Eligible(LayerOf(t)),
           !.from = cursor[LayerOf(t)], !.due = due] \in Locals
    <3>1. /\ "sweeping" \in PCs /\ Eligible(LayerOf(t)) \in SUBSET Sessions
          /\ cursor[LayerOf(t)] \in [Sessions -> 0 .. MaxLength]
      BY <1>e DEF PCs, Eligible, Dormant, TypeOK
    <3> HIDE DEF Idle
    <3> QED BY <1>b, <3>1 DEF Locals
  <2> HIDE DEF Idle
  <2>3. Rest
    BY <1>3, <1>e DEF StartTick, TypeOK, Rest, history, ghosts
  <2> QED
    BY <2>1, <2>2, <2>3, <1>a, <1>e
<1>4. ASSUME NEW t \in Ticks, NEW s \in Sessions, SkipSession(t, s) \/ AskModel(t, s)
      PROVE  task' \in [Tasks -> Locals] /\ Rest
  <2>1. length[s] \in 0 .. MaxLength
    BY DEF TypeOK
  <2>2. task' \in [Tasks -> Locals]
    BY <1>4, <1>a, <1>e, <2>1 DEF SkipSession, AskModel, Locals, PCs
  <2> QED
    BY <1>4, <1>d, <2>2 DEF SkipSession, AskModel
<1>5. ASSUME NEW t \in Ticks, ModelAnswers(t) PROVE task' \in [Tasks -> Locals] /\ Rest
  <2>1. Batch(t) \subseteq Turns
    BY <1>5, <1>e, BatchTyped DEF ModelAnswers, LocalsOK, Local
  <2>2. PICK S \in SUBSET Batch(t) :
          task' = [task EXCEPT ![t].pc = "locking", ![t].job = "digest",
                               ![t].answered = TRUE, ![t].survivors = S]
    BY <1>5 DEF ModelAnswers
  <2>3. task' \in [Tasks -> Locals]
    <3>1. task' = [task EXCEPT ![t] = [task[t] EXCEPT !.pc = "locking", !.job = "digest",
                                         !.answered = TRUE, !.survivors = S]]
      BY <1>a, <1>e, <2>2
    <3>2. [task[t] EXCEPT !.pc = "locking", !.job = "digest",
                          !.answered = TRUE, !.survivors = S] \in Locals
      BY <1>a, <1>e, <2>1, DigestTyped
    <3> QED
      BY <1>c, <1>e, <3>1, <3>2
  <2> QED
    BY <1>5, <1>d, <2>3 DEF ModelAnswers
<1>6. ASSUME NEW t \in Ticks, ExtractionFails(t) PROVE task' \in [Tasks -> Locals] /\ Rest
  <2>1. task' \in [Tasks -> Locals]
    <3>1. task' = [task EXCEPT ![t] = [task[t] EXCEPT !.pc = "locking", !.job = "digest",
                                         !.answered = FALSE, !.survivors = {}]]
      BY <1>6, <1>a, <1>e DEF ExtractionFails
    <3>2. [task[t] EXCEPT !.pc = "locking", !.job = "digest",
                          !.answered = FALSE, !.survivors = {}] \in Locals
      BY <1>a, <1>e, DigestTyped
    <3> QED
      BY <1>c, <1>e, <3>1, <3>2
  <2> QED
    BY <1>6, <1>d, <2>1 DEF ExtractionFails
<1>7. ASSUME NEW t \in Ticks, PassFails(t) PROVE task' \in [Tasks -> Locals] /\ Rest
  BY <1>7, <1>a, <1>b, <1>d, <1>e DEF PassFails
<1>8. ASSUME NEW t \in Ticks, Commit(t) PROVE task' \in [Tasks -> Locals] /\ Rest
  <2>1. task[t].at \in Sessions /\ Batch(t) \subseteq Turns
    BY <1>8, <1>e, BatchTyped DEF Commit, LocalsOK, Local
  <2>2. task' \in [Tasks -> Locals]
    BY <1>8, <1>a, <1>e DEF Commit, Locals, PCs
  <2>3. stored' \in [Layers -> [Sessions -> [Turns -> Nat]]]
    BY <1>8, <1>e, <2>1, AddMemoriesType DEF Commit
  <2>4. cursor' \in [Layers -> [Sessions -> 0 .. MaxLength]]
    BY <1>8, <1>a, <1>e, <2>1 DEF Commit, NewCursor, TypeOK, Locals
  <2>5. read' \in [Layers -> [Sessions -> SUBSET Turns]] /\ dropped' \in [Layers -> [Sessions -> SUBSET Turns]]
    <3>1. /\ read[LayerOf(t)][task[t].at] \cup Batch(t) \in SUBSET Turns
          /\ dropped[LayerOf(t)][task[t].at] \cup Batch(t) \in SUBSET Turns
      BY <1>e, <2>1 DEF TypeOK
    <3>2. /\ [read EXCEPT ![LayerOf(t)][task[t].at] = @ \cup Batch(t)]
                \in [Layers -> [Sessions -> SUBSET Turns]]
          /\ [dropped EXCEPT ![LayerOf(t)][task[t].at] = @ \cup Batch(t)]
                \in [Layers -> [Sessions -> SUBSET Turns]]
      BY <1>e, <2>1, <3>1 DEF TypeOK
    <3>3. read \in [Layers -> [Sessions -> SUBSET Turns]] /\ dropped \in [Layers -> [Sessions -> SUBSET Turns]]
      BY DEF TypeOK
    <3> QED
      BY <1>8, <3>2, <3>3 DEF Commit
  <2> QED
    BY <1>8, <2>2, <2>3, <2>4, <2>5 DEF Commit, TypeOK, Rest, history
<1>9. ASSUME NEW t \in Ticks, CommitFails(t) PROVE task' \in [Tasks -> Locals] /\ Rest
  <2>1. task[t].at \in Sessions
    BY <1>9 DEF CommitFails, LocalsOK, Local
  <2>2. task' \in [Tasks -> Locals]
    <3>1. AfterThrow(t) \in Locals
      BY <1>a, <1>e DEF AfterThrow, Locals, PCs
    <3> QED
      BY <1>9, <1>c, <1>e, <3>1 DEF CommitFails
  <2>3. stored' \in [Layers -> [Sessions -> [Turns -> Nat]]]
    BY <1>9, <1>e, <2>1, AddMemoriesType DEF CommitFails
  <2> QED
    BY <1>9, <2>2, <2>3 DEF CommitFails, TypeOK, Rest, history
<1>10. ASSUME NEW t \in Ticks, EndSweep(t) PROVE task' \in [Tasks -> Locals] /\ Rest
  <2>1. \A n \in Nat : [Idle EXCEPT !.pc = "tending", !.left = n] \in Locals
    BY <1>b DEF Locals, PCs
  <2>2. \A n \in 0 .. MaxLevels : n \in Nat
    OBVIOUS
  <2>3. task' \in [Tasks -> Locals]
    <3>1. CASE task[t].due
      <4>1. PICK n \in 0 .. MaxLevels :
              task' = [task EXCEPT ![t] = [Idle EXCEPT !.pc = "tending", !.left = n]]
        BY <1>10, <3>1 DEF EndSweep
      <4> QED
        BY <1>c, <1>e, <2>1, <2>2, <4>1
    <3>2. CASE ~task[t].due
      BY <1>10, <1>b, <1>c, <1>e, <3>2 DEF EndSweep
    <3> QED
      BY <3>1, <3>2
  <2> QED
    BY <1>10, <1>d, <2>3 DEF EndSweep
<1>11. ASSUME NEW t \in Ticks,
              SkipLevel(t) \/ SummarizeLevel(t) \/ StartTidying(t) \/ Tidy(t) \/ EndTidying(t)
       PROVE  task' \in [Tasks -> Locals] /\ Rest
  <2>1. task' \in [Tasks -> Locals]
    BY <1>11, <1>a, <1>e DEF SkipLevel, SummarizeLevel, StartTidying, Tidy, EndTidying,
        Locals, PCs, Jobs
  <2> QED
    BY <1>11, <1>d, <2>1 DEF SkipLevel, SummarizeLevel, StartTidying, Tidy, EndTidying
<1>12. ASSUME NEW t \in Writers, StartWrite(t) PROVE task' \in [Tasks -> Locals] /\ Rest
  <2>1. [Idle EXCEPT !.pc = "locking"] \in Locals
    BY <1>b DEF Locals, PCs
  <2> QED
    BY <1>12, <1>a, <1>d, <2>1 DEF StartWrite
<1>13. ASSUME NEW t \in Tasks, LockStep(t) PROVE task' \in [Tasks -> Locals] /\ Rest
  <2>1. AfterLock(t) \in Locals
    <3>1. [task[t] EXCEPT !.pc = "tending", !.job = "write"] \in Locals
      <4>1. "tending" \in PCs /\ "write" \in Jobs /\ task[t] \in Locals
        BY <1>a DEF PCs, Jobs
      <4> QED BY <4>1 DEF Locals
    <3> QED
      BY <1>b, <3>1 DEF AfterLock
  <2>2. task' \in [Tasks -> Locals]
    BY <1>13, <1>a, <2>1 DEF LockStep, EnterLock, WriteEntries, LeaveLock, Locals, PCs
  <2> QED
    BY <1>13, <1>d, <2>2 DEF LockStep, EnterLock, WriteEntries, LeaveLock
<1>14. ASSUME Crash PROVE task' \in [Tasks -> Locals] /\ Rest
  <2>1. stored' \in [Layers -> [Sessions -> [Turns -> Nat]]]
    <3>1. CASE UNCHANGED stored
      BY <3>1 DEF TypeOK
    <3>2. ASSUME NEW t \in Ticks, task[t].job = "digest", NEW W,
                 AddMemories(LayerOf(t), task[t].at, W)
          PROVE  stored' \in [Layers -> [Sessions -> [Turns -> Nat]]]
      BY <3>2, <1>e, AddMemoriesType DEF LocalsOK, Local
    <3> QED
      BY <1>14, <3>1, <3>2 DEF Crash
  <2> QED
    BY <1>14, <1>b, <2>1 DEF Crash, TypeOK, Rest, history
<1>15. CASE UNCHANGED vars
  BY <1>15, <1>a, <1>d DEF vars, history, ghosts
<1> QED
  BY <1>1, <1>2, <1>3, <1>4, <1>5, <1>6, <1>7, <1>8, <1>9, <1>10, <1>11, <1>12, <1>13,
     <1>14, <1>15 DEF Next, TickStep

\* Who is not acting keeps its locals.
LEMMA OthersStay ==
  ASSUME LocalsOK, NEW t \in Ticks, NEW r, task' = [task EXCEPT ![t] = r], Local(t)'
  PROVE  LocalsOK'
BY DEF LocalsOK, Local, Batch

\* No step leaves a task with locals of another shape.
LEMMA LocalsNext == ASSUME TypeOK, LocalsOK, [Next]_vars PROVE LocalsOK'
<1>a. \A t \in Tasks : task[t] \in Locals
  BY DEF TypeOK
<1>b. ASSUME UNCHANGED task PROVE LocalsOK'
  BY <1>b DEF LocalsOK, Local, Batch
<1>c. task \in [Tasks -> Locals] /\ Ticks \subseteq Tasks
  BY DEF TypeOK
<1>1. ASSUME NEW s \in Sessions, AppendTurn(s) \/ FallDormant(s) \/ Archive(s) PROVE LocalsOK'
  BY <1>1, <1>b DEF AppendTurn, FallDormant, Archive
<1>2. ASSUME NEW t \in Ticks, StartTick(t) PROVE LocalsOK'
  <2>1. PICK due \in BOOLEAN :
          task' = [task EXCEPT ![t] = [Idle EXCEPT !.pc = "sweeping",
                     !.todo = Eligible(LayerOf(t)), !.from = cursor[LayerOf(t)], !.due = due]]
    BY <1>2 DEF StartTick
  <2>2. task'[t].pc = "sweeping" /\ task'[t].job = "write"
    BY <2>1, <1>c DEF Idle
  <2> QED
    BY <2>1, <2>2, OthersStay DEF Local
<1>3. ASSUME NEW t \in Ticks, NEW s \in Sessions, SkipSession(t, s) \/ AskModel(t, s)
      PROVE  LocalsOK'
  <2>1. length[s] \in Nat /\ task[t].from[s] \in Nat
    BY <1>a, <1>c DEF TypeOK, Locals
  <2>2. CASE SkipSession(t, s)
    BY <1>a, <1>c, <2>2 DEF SkipSession, LocalsOK, Local, Locals, Batch
  <2>3. CASE AskModel(t, s)
    <3>1. /\ task'[t].pc = "asking" /\ task'[t].job = task[t].job
          /\ task'[t].todo = task[t].todo \ {s} /\ task'[t].at = s
          /\ task'[t].upTo = length[s] /\ task'[t].from = task[t].from
          /\ \A u \in Ticks \ {t} : task'[u] = task[u]
      BY <1>c, <2>3 DEF AskModel, Locals
    <3>2. task[t].job # "digest" /\ task[t].from[s] < length[s]
      BY <1>a, <2>3 DEF AskModel, LocalsOK, Local
    <3>3. Local(t)'
      BY <3>1, <3>2 DEF Local
    <3>4. ASSUME NEW u \in Ticks \ {t} PROVE Local(u)'
      <4>1. task'[u] = task[u] /\ Local(u)
        BY <1>a, <3>1 DEF LocalsOK
      <4> QED BY <4>1 DEF Local, Batch
    <3> QED BY <3>3, <3>4 DEF LocalsOK
  <2> QED
    BY <1>3, <2>2, <2>3
<1>4. ASSUME NEW t \in Ticks, ModelAnswers(t) PROVE LocalsOK'
  BY <1>4, <1>a, <1>c DEF ModelAnswers, LocalsOK, Local, Locals, Batch
<1>5. ASSUME NEW t \in Ticks, ExtractionFails(t) PROVE LocalsOK'
  BY <1>5, <1>a, <1>c DEF ExtractionFails, LocalsOK, Local, Locals, Batch
<1>6. ASSUME NEW t \in Ticks, PassFails(t) PROVE LocalsOK'
  <2>1. Sweeping(t).pc = "sweeping" /\ Sweeping(t).job = "write"
    BY DEF Sweeping, Idle
  <2> QED
    BY <1>6, <1>c, <2>1, OthersStay DEF PassFails, Local
<1>7. ASSUME NEW t \in Ticks, Commit(t) \/ CommitFails(t) PROVE LocalsOK'
  <2>1. task' = [task EXCEPT ![t] = [task[t] EXCEPT !.pc = "leaving"]] /\ task[t].pc # "idle"
    BY <1>7, <1>c DEF Commit, CommitFails, AfterThrow
  <2> QED
    BY <2>1, <1>a, <1>c DEF LocalsOK, Local, Locals, Batch
<1>8. ASSUME NEW t \in Ticks, EndSweep(t) PROVE LocalsOK'
  <2>1. PICK r : task' = [task EXCEPT ![t] = r] /\ r.job = "write" /\ r.todo = {}
                 /\ r.pc # "asking"
    BY <1>8, ZenonT(40) DEF EndSweep, Idle
  <2> QED
    BY <2>1, <1>c, OthersStay DEF Local
<1>9. ASSUME NEW t \in Ticks,
             SkipLevel(t) \/ SummarizeLevel(t) \/ StartTidying(t) \/ Tidy(t) \/ EndTidying(t)
      PROVE  LocalsOK'
  BY <1>9, <1>a, <1>c DEF SkipLevel, SummarizeLevel, StartTidying, Tidy, EndTidying,
      LocalsOK, Local, Locals, Batch
<1>10. ASSUME NEW t \in Writers, StartWrite(t) PROVE LocalsOK'
  BY <1>10, <1>c DEF StartWrite, LocalsOK, Local, Batch
<1>11. ASSUME NEW t \in Tasks, LockStep(t) PROVE LocalsOK'
  <2>1. CASE EnterLock(t) \/ WriteEntries(t)
    BY <2>1, <1>a, <1>c DEF EnterLock, WriteEntries, LocalsOK, Local, Locals, Batch
  <2>2. CASE LeaveLock(t)
    <3>1. /\ AfterLock(t).job = "write" /\ AfterLock(t).pc # "asking"
          /\ AfterLock(t).pc = "idle" => AfterLock(t).todo = {}
      BY <1>a DEF AfterLock, Sweeping, Idle, Locals
    <3> QED
      BY <2>2, <3>1, <1>c DEF LeaveLock, LocalsOK, Local, Batch
  <2> QED
    BY <1>11, <2>1, <2>2 DEF LockStep
<1>12. ASSUME Crash PROVE LocalsOK'
  BY <1>12, <1>c DEF Crash, LocalsOK, Local, Idle
<1>13. CASE UNCHANGED vars
  BY <1>13, <1>b DEF vars
<1> QED
  BY <1>1, <1>2, <1>3, <1>4, <1>5, <1>6, <1>7, <1>8, <1>9, <1>10, <1>11, <1>12, <1>13
     DEF Next, TickStep

-----------------------------------------------------------------------------
(* No turn is skipped.                                                     *)

\* What a commit does to the cursors and to the covered turns.
LEMMA CommitEffect ==
  ASSUME TypeOK, LocalsOK, NEW t \in Ticks, Commit(t)
  PROVE  /\ LayerOf(t) \in Layers /\ task[t].at \in Sessions
         /\ task[t].from[task[t].at] \in Nat /\ task[t].upTo \in Nat
         /\ task[t].from[task[t].at] < task[t].upTo
         /\ \A l \in Layers, s \in Sessions :
               /\ cursor'[l][s] = IF l = LayerOf(t) /\ s = task[t].at
                                    THEN task[t].upTo ELSE cursor[l][s]
               /\ Covered(l, s)' = IF l = LayerOf(t) /\ s = task[t].at
                                     THEN Covered(l, s) \cup Batch(t) ELSE Covered(l, s)
<1>1. LayerOf(t) \in Layers /\ task[t].at \in Sessions /\ task[t] \in Locals
  BY DEF LayerOf, Layers, Commit, LocalsOK, Local, TypeOK
<1>2. task[t].from[task[t].at] \in Nat /\ task[t].upTo \in Nat
      /\ task[t].from[task[t].at] < task[t].upTo
  BY <1>1 DEF Commit, LocalsOK, Local, Locals
<1>3. ASSUME NEW l \in Layers, NEW s \in Sessions
      PROVE  cursor'[l][s] = IF l = LayerOf(t) /\ s = task[t].at
                                THEN task[t].upTo ELSE cursor[l][s]
  BY <1>1 DEF Commit, NewCursor, TypeOK
<1>4. ASSUME NEW l \in Layers, NEW s \in Sessions
      PROVE  Covered(l, s)' = IF l = LayerOf(t) /\ s = task[t].at
                                 THEN Covered(l, s) \cup Batch(t) ELSE Covered(l, s)
  <2>1. CASE task[t].answered
    BY <1>1, <2>1 DEF Commit, Covered, TypeOK
  <2>2. CASE ~task[t].answered
    BY <1>1, <2>2 DEF Commit, Covered, TypeOK
  <2> QED
    BY <2>1, <2>2
<1> QED
  BY <1>1, <1>2, <1>3, <1>4

\* Nothing but a commit touches them.
LEMMA OnlyCommits ==
  ASSUME [Next]_vars
  PROVE  UNCHANGED <<cursor, read, dropped>> \/ \E t \in Ticks : Commit(t)
<1> DEFINE Same == UNCHANGED <<cursor, read, dropped>>
<1>1. ASSUME NEW s \in Sessions, AppendTurn(s) \/ FallDormant(s) \/ Archive(s) PROVE Same
  BY <1>1 DEF AppendTurn, FallDormant, Archive, ghosts
<1>2. ASSUME NEW t \in Ticks, StartTick(t) PROVE Same
  BY <1>2 DEF StartTick, ghosts
<1>3. ASSUME NEW t \in Ticks, TickStep(t) PROVE Same \/ Commit(t)
  BY <1>3 DEF TickStep, SkipSession, AskModel, ModelAnswers, ExtractionFails,
      PassFails, CommitFails, EndSweep, SkipLevel, SummarizeLevel, StartTidying,
      Tidy, EndTidying, ghosts
<1>4. ASSUME NEW t \in Writers, StartWrite(t) PROVE Same
  BY <1>4 DEF StartWrite, ghosts
<1>5. ASSUME NEW t \in Tasks, LockStep(t) PROVE Same
  BY <1>5 DEF LockStep, EnterLock, WriteEntries, LeaveLock, ghosts
<1>6. CASE Crash
  BY <1>6 DEF Crash
<1>7. CASE UNCHANGED vars
  BY <1>7 DEF vars
<1> QED
  BY <1>1, <1>2, <1>3, <1>4, <1>5, <1>6, <1>7 DEF Next

\* A cursor that a step leaves with a tick is the one of its snapshot, the
\* present one, or 0.
LEMMA SnapshotStep ==
  ASSUME TypeOK, [Next]_vars, NEW t \in Ticks, NEW s \in Sessions
  PROVE  task'[t].from[s] \in {task[t].from[s], cursor[LayerOf(t)][s], 0}
<1>a. task \in [Tasks -> Locals] /\ t \in Tasks
  BY DEF TypeOK
<1>b. Idle.from[s] = 0
  BY DEF Idle
<1>c. \A u \in Tasks : Sweeping(u).from[s] \in {task[u].from[s], 0}
  BY DEF Sweeping, Idle
<1>1. ASSUME NEW r \in Sessions, AppendTurn(r) \/ FallDormant(r) \/ Archive(r)
      PROVE  task'[t].from[s] = task[t].from[s]
  BY <1>1 DEF AppendTurn, FallDormant, Archive
<1>2. ASSUME NEW u \in Ticks, StartTick(u)
      PROVE  task'[t].from[s] \in {task[t].from[s], cursor[LayerOf(t)][s]}
  <2>1. PICK due \in BOOLEAN :
          task' = [task EXCEPT ![u] = [Idle EXCEPT !.pc = "sweeping",
                     !.todo = Eligible(LayerOf(u)), !.from = cursor[LayerOf(u)], !.due = due]]
    BY <1>2 DEF StartTick
  <2> QED
    BY <2>1, <1>a DEF Idle
<1>3. ASSUME NEW u \in Ticks, NEW r \in Sessions, SkipSession(u, r) \/ AskModel(u, r)
      PROVE  task'[t].from[s] \in {task[t].from[s], 0}
  BY <1>3, <1>a DEF SkipSession, AskModel, Locals
<1>4. ASSUME NEW u \in Ticks, ModelAnswers(u) \/ ExtractionFails(u)
      PROVE  task'[t].from[s] = task[t].from[s]
  BY <1>4, <1>a DEF ModelAnswers, ExtractionFails, Locals
<1>5. ASSUME NEW u \in Ticks, PassFails(u)
      PROVE  task'[t].from[s] \in {task[t].from[s], 0}
  BY <1>5, <1>a, <1>c DEF PassFails
<1>6. ASSUME NEW u \in Ticks, Commit(u) \/ CommitFails(u)
      PROVE  task'[t].from[s] = task[t].from[s]
  BY <1>6, <1>a DEF Commit, CommitFails, AfterThrow, Locals
<1>7. ASSUME NEW u \in Ticks, EndSweep(u) PROVE task'[t].from[s] \in {task[t].from[s], 0}
  <2>1. CASE task[u].due
    <3>1. PICK n \in 0 .. MaxLevels :
            task' = [task EXCEPT ![u] = [Idle EXCEPT !.pc = "tending", !.left = n]]
      BY <1>7, <2>1 DEF EndSweep
    <3> QED
      BY <3>1, <1>a DEF Idle
  <2>2. CASE ~task[u].due
    BY <1>7, <1>a, <1>b, <2>2 DEF EndSweep
  <2> QED
    BY <2>1, <2>2
<1>8. ASSUME NEW u \in Ticks,
             SkipLevel(u) \/ SummarizeLevel(u) \/ StartTidying(u) \/ Tidy(u) \/ EndTidying(u)
      PROVE  task'[t].from[s] = task[t].from[s]
  BY <1>8, <1>a DEF SkipLevel, SummarizeLevel, StartTidying, Tidy, EndTidying, Locals
<1>9. ASSUME NEW u \in Writers, StartWrite(u) PROVE task'[t].from[s] = task[t].from[s]
  BY <1>9, <1>a DEF StartWrite
<1>10. ASSUME NEW u \in Tasks, LockStep(u) PROVE task'[t].from[s] \in {task[t].from[s], 0}
  <2>1. CASE EnterLock(u) \/ WriteEntries(u)
    BY <2>1, <1>a DEF EnterLock, WriteEntries, Locals
  <2>2. CASE LeaveLock(u)
    <3>1. AfterLock(u).from[s] \in {task[u].from[s], 0}
      BY <1>a, <1>b, <1>c DEF AfterLock, Locals
    <3> QED
      BY <2>2, <3>1, <1>a DEF LeaveLock
  <2> QED
    BY <1>10, <2>1, <2>2 DEF LockStep
<1>11. ASSUME Crash PROVE task'[t].from[s] = 0
  BY <1>11, <1>a, <1>b DEF Crash
<1>12. CASE UNCHANGED vars
  BY <1>12 DEF vars
<1> QED
  BY <1>1, <1>2, <1>3, <1>4, <1>5, <1>6, <1>7, <1>8, <1>9, <1>10, <1>11, <1>12
     DEF Next, TickStep

\* No cursor, and none that a tick has read, passes a turn that is not covered.
LEMMA SkipNothingNext ==
  ASSUME CInv, [Next]_vars
  PROVE  SnapshotsCovered' /\ NoTurnSkipped'
<1> USE DEF CInv
<1>1. ASSUME NEW l \in Layers, NEW s \in Sessions
      PROVE  Covered(l, s) \subseteq Covered(l, s)'
  <2>1. CASE UNCHANGED <<cursor, read, dropped>>
    BY <2>1 DEF Covered
  <2>2. ASSUME NEW t \in Ticks, Commit(t) PROVE Covered(l, s) \subseteq Covered(l, s)'
    BY <2>2, CommitEffect
  <2> QED
    BY <2>1, <2>2, OnlyCommits
<1>2. SnapshotsCovered'
  <2> SUFFICES ASSUME NEW t \in Ticks, NEW s \in Sessions
               PROVE  1 .. task'[t].from[s] \subseteq Covered(LayerOf(t), s)'
    BY DEF SnapshotsCovered
  <2>1. LayerOf(t) \in Layers
    BY DEF LayerOf, Layers
  <2>2. /\ 1 .. task[t].from[s] \subseteq Covered(LayerOf(t), s)
        /\ 1 .. cursor[LayerOf(t)][s] \subseteq Covered(LayerOf(t), s)
        /\ 1 .. 0 \subseteq Covered(LayerOf(t), s)
    BY <2>1 DEF SnapshotsCovered, NoTurnSkipped, Covered
  <2> QED
    BY <1>1, <2>1, <2>2, SnapshotStep
<1>3. ASSUME NEW l \in Layers, NEW s \in Sessions
      PROVE  1 .. cursor'[l][s] \subseteq Covered(l, s)'
  <2>1. 1 .. cursor[l][s] \subseteq Covered(l, s)
    BY DEF NoTurnSkipped, Covered
  <2>2. CASE UNCHANGED <<cursor, read, dropped>>
    BY <2>1, <2>2 DEF Covered
  <2>3. ASSUME NEW t \in Ticks, Commit(t) PROVE 1 .. cursor'[l][s] \subseteq Covered(l, s)'
    <3>1. CASE l = LayerOf(t) /\ s = task[t].at
      <4>1. 1 .. task[t].from[s] \subseteq Covered(l, s)
        BY <3>1 DEF SnapshotsCovered
      <4> QED
        BY <2>3, <3>1, <4>1, CommitEffect DEF Batch
    <3>2. CASE ~(l = LayerOf(t) /\ s = task[t].at)
      BY <2>1, <2>3, <3>2, CommitEffect
    <3> QED
      BY <3>1, <3>2
  <2> QED
    BY <2>2, <2>3, OnlyCommits
<1>4. ASSUME NEW s \in Sessions PROVE dropped'["l2"][s] = {}
  <2>1. dropped["l2"][s] = {} /\ "l2" \in Layers
    BY DEF NoTurnSkipped, Layers
  <2>2. ASSUME NEW t \in Ticks, Commit(t) PROVE dropped'["l2"][s] = {}
    <3>1. CASE task[t].answered
      BY <2>1, <2>2, <3>1 DEF Commit
    <3>2. CASE ~task[t].answered
      <4>1. LayerOf(t) = "l1"
        BY <2>2, <3>2 DEF Commit, LocalsOK, Local, LayerOf
      <4> QED
        BY <2>1, <2>2, <3>2, <4>1 DEF Commit, TypeOK
    <3> QED
      BY <3>1, <3>2
  <2> QED
    BY <2>1, <2>2, OnlyCommits
<1> QED
  BY <1>2, <1>3, <1>4 DEF NoTurnSkipped, Covered

\* The invariant of the cerebellum holds initially.
LEMMA CInvInit == Init => CInv
<1> SUFFICES ASSUME Init PROVE CInv
  OBVIOUS
<1>1. LockTypeOK
  BY DEF Init, LockInit, LockTypeOK
<1>2. TypeOK
  BY <1>1, IdleTyped DEF Init, TypeOK, Layers, Turns
<1>3. LocalsOK
  BY DEF Init, LocalsOK, Local, Idle
<1>4. SnapshotsCovered
  BY DEF Init, SnapshotsCovered, Idle
<1>5. NoTurnSkipped
  BY DEF Init, NoTurnSkipped, Layers
<1> QED
  BY <1>2, <1>3, <1>4, <1>5 DEF CInv

\* The invariant of the cerebellum is inductive, given that of the lock.
LEMMA CInvNext == LockInv /\ CInv /\ [Next]_vars => CInv'
<1> SUFFICES ASSUME LockInv, CInv, [Next]_vars PROVE CInv'
  OBVIOUS
<1>1. LockTypeOK'
  BY LockUsed, LockStepInv DEF LockInv
<1> QED
  BY <1>1, TypeNext, LocalsNext, SkipNothingNext DEF CInv

\* The invariant of the consolidation holds in every state, whether or not
\* ticks overlap, commits fail or the process dies.
THEOREM CerebellumInvariance == Spec => [](LockInv /\ CInv)
<1>1. Init => LockInv /\ CInv
  BY LockInitial, CInvInit DEF Init
<1>2. LockInv /\ CInv /\ [Next]_vars => (LockInv /\ CInv)'
  BY LockUsed, LockStepInv, CInvNext
<1> QED
  BY <1>1, <1>2, PTL DEF Spec

\* Type correctness.
THEOREM CerebellumTypeCorrect == Spec => []TypeOK
<1>1. LockInv /\ CInv => TypeOK
  BY DEF CInv
<1> QED
  BY <1>1, CerebellumInvariance, PTL

\* No cursor passes a turn that no pass has put to the model.
THEOREM NoTurnEverSkipped == Spec => []NoTurnSkipped
<1>1. LockInv /\ CInv => NoTurnSkipped
  BY DEF CInv
<1> QED
  BY <1>1, CerebellumInvariance, PTL

-----------------------------------------------------------------------------
(* Cursors, and what a turn can cost.                                      *)

\* A pass that is pending after a step was pending before it, with the same
\* snapshot, unless its tick starts with this step.
LEMMA PendingStep ==
  ASSUME TypeOK, LocalsOK, [Next]_vars, NEW t \in Ticks, NEW s \in Sessions, Pending(t, s)'
  PROVE  \/ Pending(t, s) /\ task'[t].from[s] = task[t].from[s]
         \/ StartTick(t) /\ task'[t].from[s] = cursor[LayerOf(t)][s]
<1> DEFINE Kept == Pending(t, s) /\ task'[t].from[s] = task[t].from[s]
<1>a. task \in [Tasks -> Locals] /\ t \in Tasks /\ NoSession \notin Sessions
  BY DEF TypeOK
<1>b. Idle.todo = {} /\ Idle.pc = "idle" /\ Idle.at = NoSession
  BY DEF Idle
<1>c. /\ Sweeping(t).todo = task[t].todo /\ Sweeping(t).pc = "sweeping"
      /\ s \in task[t].todo => Sweeping(t).from[s] = task[t].from[s]
  BY DEF Sweeping, Idle
<1>d. ASSUME task'[t] = task[t] PROVE Kept
  BY <1>d DEF Pending
<1>e. ASSUME NEW u \in Tasks, NEW r, u # t, task' = [task EXCEPT ![u] = r] PROVE Kept
  BY <1>d, <1>e, <1>a
<1>1. ASSUME NEW r \in Sessions, AppendTurn(r) \/ FallDormant(r) \/ Archive(r) PROVE Kept
  BY <1>1, <1>d DEF AppendTurn, FallDormant, Archive
<1>2. ASSUME NEW u \in Ticks, StartTick(u)
      PROVE  Kept \/ (StartTick(t) /\ task'[t].from[s] = cursor[LayerOf(t)][s])
  <2>1. PICK due \in BOOLEAN :
          task' = [task EXCEPT ![u] = [Idle EXCEPT !.pc = "sweeping",
                     !.todo = Eligible(LayerOf(u)), !.from = cursor[LayerOf(u)], !.due = due]]
    BY <1>2 DEF StartTick
  <2>2. CASE u = t
    BY <1>2, <2>1, <2>2, <1>a DEF Idle
  <2>3. CASE u # t
    <3>1. PICK r : task' = [task EXCEPT ![u] = r]
      BY <2>1
    <3>2. task'[t] = task[t]
      BY <2>3, <3>1, <1>a
    <3> QED
      BY <3>2, <1>d
  <2> QED
    BY <2>2, <2>3
<1>3. ASSUME NEW u \in Ticks, NEW r \in Sessions, SkipSession(u, r) \/ AskModel(u, r)
      PROVE  Kept
  <2>1. CASE u = t
    BY <1>3, <2>1, <1>a DEF SkipSession, AskModel, Pending, Locals
  <2>2. CASE u # t
    BY <1>3, <2>2, <1>a, <1>d DEF SkipSession, AskModel
  <2> QED
    BY <2>1, <2>2
<1>4. ASSUME NEW u \in Ticks, ModelAnswers(u) \/ ExtractionFails(u) PROVE Kept
  BY <1>4, <1>a DEF ModelAnswers, ExtractionFails, Pending, Locals
<1>5. ASSUME NEW u \in Ticks, PassFails(u) PROVE Kept
  <2>1. CASE u = t
    BY <1>5, <2>1, <1>a, <1>c DEF PassFails, Pending
  <2>2. CASE u # t
    BY <1>5, <2>2, <1>a, <1>d DEF PassFails
  <2> QED
    BY <2>1, <2>2
<1>6. ASSUME NEW u \in Ticks, Commit(u) \/ CommitFails(u)
      PROVE  Kept
  <2>1. task' = [task EXCEPT ![u] = [task[u] EXCEPT !.pc = "leaving"]]
    BY <1>6, <1>a DEF Commit, CommitFails, AfterThrow
  <2>2. CASE u = t
    BY <2>1, <2>2, <1>a DEF Pending, Locals
  <2>3. CASE u # t
    BY <2>1, <2>3, <1>a, <1>d
  <2> QED
    BY <2>2, <2>3
<1>7. ASSUME NEW u \in Ticks, EndSweep(u) PROVE Kept
  <2>1. CASE u = t
    <3>1. task'[t].todo = {} /\ task'[t].at = NoSession
      <4>1. CASE task[u].due
        <5>1. PICK n \in 0 .. MaxLevels :
                task' = [task EXCEPT ![u] = [Idle EXCEPT !.pc = "tending", !.left = n]]
          BY <1>7, <4>1 DEF EndSweep
        <5> QED
          BY <2>1, <5>1, <1>a DEF Idle
      <4>2. CASE ~task[u].due
        BY <1>7, <2>1, <4>2, <1>a, <1>b DEF EndSweep
      <4> QED
        BY <4>1, <4>2
    <3> QED
      BY <3>1, <1>a DEF Pending
  <2>2. CASE u # t
    BY <1>7, <2>2, <1>a, <1>d DEF EndSweep
  <2> QED
    BY <2>1, <2>2
<1>8. ASSUME NEW u \in Ticks,
             SkipLevel(u) \/ SummarizeLevel(u) \/ StartTidying(u) \/ Tidy(u) \/ EndTidying(u)
      PROVE  Kept
  BY <1>8, <1>a DEF SkipLevel, SummarizeLevel, StartTidying, Tidy, EndTidying, Pending, Locals
<1>9. ASSUME NEW u \in Writers, StartWrite(u) PROVE Kept
  BY <1>9, <1>a, <1>d DEF StartWrite
<1>10. ASSUME NEW u \in Tasks, LockStep(u) PROVE Kept
  <2>1. CASE EnterLock(u) \/ WriteEntries(u)
    BY <2>1, <1>a DEF EnterLock, WriteEntries, Pending, Locals
  <2>2. CASE LeaveLock(u) /\ u = t
    <3>1. /\ AfterLock(t).pc \notin {"asking", "locking", "inside"}
          /\ s \in AfterLock(t).todo =>
                s \in task[t].todo /\ AfterLock(t).from[s] = task[t].from[s]
      BY <1>a, <1>b, <1>c DEF AfterLock, Locals
    <3> QED
      BY <2>2, <3>1, <1>a DEF LeaveLock, Pending
  <2>3. CASE LeaveLock(u) /\ u # t
    BY <2>3, <1>a, <1>d DEF LeaveLock
  <2> QED
    BY <1>10, <2>1, <2>2, <2>3 DEF LockStep
<1>11. ASSUME Crash PROVE FALSE
  BY <1>11, <1>a, <1>b DEF Crash, Pending
<1>12. CASE UNCHANGED vars
  BY <1>12, <1>d DEF vars
<1> QED
  BY <1>1, <1>2, <1>3, <1>4, <1>5, <1>6, <1>7, <1>8, <1>9, <1>10, <1>11, <1>12
     DEF Next, TickStep

\* A commit, done or failed, ends the pass over its session.
LEMMA CommitEnds ==
  ASSUME TypeOK, LocalsOK, NEW t \in Ticks, Commit(t) \/ CommitFails(t)
  PROVE  /\ task[t].at \in Sessions
         /\ \A s \in Sessions : s = task[t].at => Pending(t, s) /\ ~Pending(t, s)'
<1>1. task \in [Tasks -> Locals] /\ t \in Tasks
  BY DEF TypeOK
<1>2. task' = [task EXCEPT ![t] = [task[t] EXCEPT !.pc = "leaving"]]
  BY <1>1 DEF Commit, CommitFails, AfterThrow
<1>3. task[t].pc = "inside" /\ task[t].job = "digest" /\ task[t].at \in Sessions \ task[t].todo
  BY DEF Commit, CommitFails, LocalsOK, Local
<1> QED
  BY <1>1, <1>2, <1>3 DEF Pending, Locals

\* Ticks run from StartTick on, and nothing else counts overlaps.
LEMMA RunningStep ==
  ASSUME TypeOK, [Next]_vars, NEW t \in Ticks, ~StartTick(t), task[t].pc = "idle"
  PROVE  task'[t].pc = "idle"
<1>a. task \in [Tasks -> Locals] /\ t \in Tasks /\ t \notin Writers
  BY DEF TypeOK
<1>b. ASSUME NEW u \in Tasks, NEW r, u # t, task' = [task EXCEPT ![u] = r]
      PROVE  task'[t].pc = "idle"
  BY <1>b, <1>a
<1>1. ASSUME NEW s \in Sessions, AppendTurn(s) \/ FallDormant(s) \/ Archive(s) PROVE task'[t].pc = "idle"
  BY <1>1 DEF AppendTurn, FallDormant, Archive
<1>2. ASSUME NEW u \in Ticks, StartTick(u) PROVE task'[t].pc = "idle"
  <2>1. PICK r : task' = [task EXCEPT ![u] = r]
    BY <1>2 DEF StartTick
  <2> QED
    BY <1>2, <1>b, <2>1
<1>3. ASSUME NEW u \in Ticks, TickStep(u) PROVE task'[t].pc = "idle"
  <2>1. u # t
    BY <1>3 DEF TickStep, SkipSession, AskModel, ModelAnswers, ExtractionFails,
        PassFails, Commit, CommitFails, EndSweep, SkipLevel, SummarizeLevel,
        StartTidying, Tidy, EndTidying
  <2> QED
    BY <1>3, <2>1, <1>a DEF TickStep, SkipSession, AskModel, ModelAnswers, ExtractionFails,
        PassFails, Commit, CommitFails, EndSweep, SkipLevel, SummarizeLevel,
        StartTidying, Tidy, EndTidying
<1>4. ASSUME NEW u \in Writers, StartWrite(u) PROVE task'[t].pc = "idle"
  BY <1>4, <1>a DEF StartWrite
<1>5. ASSUME NEW u \in Tasks, LockStep(u) PROVE task'[t].pc = "idle"
  BY <1>5, <1>a DEF LockStep, EnterLock, WriteEntries, LeaveLock
<1>6. CASE Crash
  BY <1>6, <1>a DEF Crash, Idle
<1>7. CASE UNCHANGED vars
  BY <1>7 DEF vars
<1> QED
  BY <1>1, <1>2, <1>3, <1>4, <1>5, <1>6, <1>7 DEF Next

\* Only a tick that starts can count an overlap.
LEMMA OverlapStep ==
  ASSUME [Next]_vars
  PROVE  overlaps' = overlaps \/ \E t \in Ticks : StartTick(t)
<1>1. ASSUME NEW s \in Sessions, AppendTurn(s) \/ FallDormant(s) \/ Archive(s) PROVE overlaps' = overlaps
  BY <1>1 DEF AppendTurn, FallDormant, Archive
<1>2. ASSUME NEW t \in Ticks, TickStep(t) PROVE overlaps' = overlaps
  BY <1>2 DEF TickStep, SkipSession, AskModel, ModelAnswers, ExtractionFails,
      PassFails, Commit, CommitFails, EndSweep, SkipLevel, SummarizeLevel,
      StartTidying, Tidy, EndTidying
<1>3. ASSUME NEW t \in Writers, StartWrite(t) PROVE overlaps' = overlaps
  BY <1>3 DEF StartWrite
<1>4. ASSUME NEW t \in Tasks, LockStep(t) PROVE overlaps' = overlaps
  BY <1>4 DEF LockStep, EnterLock, WriteEntries, LeaveLock
<1>5. CASE Crash
  BY <1>5 DEF Crash
<1>6. CASE UNCHANGED vars
  BY <1>6 DEF vars
<1> QED
  BY <1>1, <1>2, <1>3, <1>4, <1>5, <1>6 DEF Next

\* A tick that starts reads the cursors and counts an overlap in its own layer.
LEMMA StartEffect ==
  ASSUME TypeOK, NEW t \in Ticks, StartTick(t)
  PROVE  /\ UNCHANGED <<cursor, stored, faults>>
         /\ \A l \in Layers :
              overlaps'[l] = IF l = LayerOf(t) /\ Running(l) # {}
                                THEN overlaps[l] + 1 ELSE overlaps[l]
         /\ \A u \in Ticks : u # t => task'[u] = task[u]
         /\ \A s \in Sessions : task'[t].from[s] = cursor[LayerOf(t)][s]
<1>1. PICK due \in BOOLEAN :
        task' = [task EXCEPT ![t] = [Idle EXCEPT !.pc = "sweeping",
                   !.todo = Eligible(LayerOf(t)), !.from = cursor[LayerOf(t)], !.due = due]]
  BY DEF StartTick
<1>2. task \in [Tasks -> Locals] /\ t \in Tasks /\ LayerOf(t) \in Layers
  BY DEF TypeOK, LayerOf, Layers
<1>3. \A s \in Sessions : task'[t].from[s] = cursor[LayerOf(t)][s]
  BY <1>1, <1>2 DEF Idle
<1>4. \A u \in Ticks : u # t => task'[u] = task[u]
  BY <1>1, <1>2
<1>5. \A l \in Layers :
         overlaps'[l] = IF l = LayerOf(t) /\ Running(l) # {}
                           THEN overlaps[l] + 1 ELSE overlaps[l]
  BY <1>2 DEF StartTick, TypeOK
<1> QED
  BY <1>3, <1>4, <1>5 DEF StartTick, ghosts

\* A pending pass belongs to a running tick.
LEMMA PendingRuns ==
  ASSUME LocalsOK, NEW t \in Ticks, NEW s \in Sessions, Pending(t, s)
  PROVE  t \in Running(LayerOf(t))
BY DEF LocalsOK, Local, Pending, Running

\* Without overlaps a layer has one tick at a time.
LEMMA AloneNext == ASSUME CInv, Alone, [Next]_vars PROVE Alone'
<1> USE DEF CInv
<1> SUFFICES ASSUME NEW l \in Layers, overlaps'[l] = 0
             PROVE  /\ \A t, u \in Running(l)' : t = u
                    /\ \A t \in Running(l)', s \in Sessions :
                          Pending(t, s)' => task'[t].from[s] = cursor'[l][s]
  BY DEF Alone
<1>1. overlaps[l] = 0 /\ \A t \in Ticks : StartTick(t) /\ LayerOf(t) = l => Running(l) = {}
  <2>1. overlaps[l] \in Nat
    BY DEF TypeOK
  <2>2. CASE overlaps' = overlaps
    <3>1. ASSUME NEW t \in Ticks, StartTick(t), LayerOf(t) = l PROVE Running(l) = {}
      BY <2>1, <2>2, <3>1, StartEffect
    <3> QED
      BY <2>2, <3>1
  <2>3. ASSUME NEW u \in Ticks, StartTick(u)
        PROVE  overlaps[l] = 0 /\ \A t \in Ticks : StartTick(t) /\ LayerOf(t) = l => Running(l) = {}
    <3>1. overlaps[l] = 0
      BY <2>1, <2>3, StartEffect
    <3>2. ASSUME NEW t \in Ticks, StartTick(t), LayerOf(t) = l PROVE Running(l) = {}
      BY <2>1, <3>1, <3>2, StartEffect
    <3> QED
      BY <3>1, <3>2
  <2> QED
    BY <2>2, <2>3, OverlapStep
<1>2. /\ \A t, u \in Running(l) : t = u
      /\ \A t \in Running(l), s \in Sessions :
            Pending(t, s) => task[t].from[s] = cursor[l][s]
  BY <1>1 DEF Alone
<1>3. ASSUME NEW t \in Running(l)' PROVE t \in Ticks /\ LayerOf(t) = l
  BY <1>3 DEF Running
<1>4. ASSUME NEW t \in Running(l)' PROVE t \in Running(l) \/ StartTick(t)
  BY <1>4, RunningStep DEF Running
<1>5. ASSUME NEW t \in Ticks, NEW u \in Ticks, StartTick(t), StartTick(u) PROVE t = u
  <2>1. u # t => task'[u] = task[u]
    BY <1>5, StartEffect
  <2>2. task'[u].pc = "sweeping" /\ task[u].pc = "idle"
    <3>1. PICK due \in BOOLEAN :
            task' = [task EXCEPT ![u] = [Idle EXCEPT !.pc = "sweeping",
                       !.todo = Eligible(LayerOf(u)), !.from = cursor[LayerOf(u)], !.due = due]]
      BY <1>5 DEF StartTick
    <3> QED
      BY <1>5, <3>1 DEF StartTick, Idle, TypeOK
  <2> QED
    BY <2>1, <2>2
<1>6. ASSUME NEW t \in Running(l)', NEW u \in Running(l)' PROVE t = u
  BY <1>1, <1>2, <1>3, <1>4, <1>5, <1>6
<1>7. ASSUME NEW t \in Running(l)', NEW s \in Sessions, Pending(t, s)'
      PROVE  task'[t].from[s] = cursor'[l][s]
  <2>1. t \in Ticks /\ LayerOf(t) = l
    BY <1>3, <1>7
  <2>2. CASE StartTick(t) /\ task'[t].from[s] = cursor[l][s]
    BY <2>1, <2>2, StartEffect
  <2>3. CASE Pending(t, s) /\ task'[t].from[s] = task[t].from[s]
    <3>1. t \in Running(l) /\ task[t].from[s] = cursor[l][s]
      BY <1>2, <2>1, <2>3, PendingRuns
    <3>2. CASE UNCHANGED <<cursor, read, dropped>>
      BY <2>3, <3>1, <3>2
    <3>3. ASSUME NEW u \in Ticks, Commit(u) PROVE cursor'[l][s] = cursor[l][s]
      <4>1. CASE LayerOf(u) = l /\ task[u].at = s
        <5>1. Pending(u, s) /\ ~Pending(u, s)'
          BY <3>3, <4>1, CommitEnds
        <5>2. u \in Running(l)
          BY <4>1, <5>1, PendingRuns
        <5> QED
          BY <1>2, <1>7, <3>1, <5>1, <5>2
      <4>2. CASE ~(LayerOf(u) = l /\ task[u].at = s)
        BY <3>3, <4>2, CommitEffect
      <4> QED
        BY <4>1, <4>2
    <3> QED
      BY <2>3, <3>1, <3>2, <3>3, OnlyCommits
  <2> QED
    BY <1>7, <2>1, <2>2, <2>3, PendingStep
<1> QED
  BY <1>6, <1>7

\* Cursors go back only in a layer with overlaps.
LEMMA AdvanceStep ==
  ASSUME CInv, Alone, [Next]_vars, NEW l \in Layers, NEW s \in Sessions, overlaps[l] = 0
  PROVE  cursor'[l][s] >= cursor[l][s]
<1> USE DEF CInv
<1>1. cursor[l][s] \in Nat
  BY DEF TypeOK
<1>2. CASE UNCHANGED <<cursor, read, dropped>>
  BY <1>1, <1>2
<1>3. ASSUME NEW t \in Ticks, Commit(t) PROVE cursor'[l][s] >= cursor[l][s]
  <2>1. CASE LayerOf(t) = l /\ task[t].at = s
    <3>1. task[t].from[s] = cursor[l][s]
      BY <1>3, <2>1, CommitEnds, PendingRuns DEF Alone
    <3> QED
      BY <1>1, <1>3, <2>1, <3>1, CommitEffect
  <2>2. CASE ~(LayerOf(t) = l /\ task[t].at = s)
    BY <1>1, <1>3, <2>2, CommitEffect
  <2> QED
    BY <2>1, <2>2
<1> QED
  BY <1>2, <1>3, OnlyCommits

\* Initially no tick runs.
LEMMA AloneInit == Init => Alone
BY DEF Init, Alone, Running, Idle

\* Without overlaps in a layer its cursors never move back, however long the
\* run and whatever fails.
THEOREM CursorsOnlyAdvance == Spec => CursorsAdvance
<1>1. Init => LockInv /\ CInv /\ Alone
  BY LockInitial, CInvInit, AloneInit DEF Init
<1>2. LockInv /\ CInv /\ Alone /\ [Next]_vars => (LockInv /\ CInv /\ Alone)'
  BY LockUsed, LockStepInv, CInvNext, AloneNext
<1>3. LockInv /\ CInv /\ Alone /\ [Next]_vars =>
        [\A l \in Layers, s \in Sessions :
            overlaps[l] = 0 => cursor'[l][s] >= cursor[l][s]]_vars
  BY AdvanceStep
<1> QED
  BY <1>1, <1>2, <1>3, PTL DEF Spec, CursorsAdvance

\* What a step can do to the count of a turn's copies: a commit adds one for
\* a survivor, and so may a failed commit or a crash, which is counted.
LEMMA StoredStep ==
  ASSUME TypeOK, LocalsOK, [Next]_vars,
         NEW l \in Layers, NEW s \in Sessions, NEW i \in Turns
  PROVE  \/ stored'[l][s][i] = stored[l][s][i] /\ faults' = faults
         \/ stored'[l][s][i] <= stored[l][s][i] + 1 /\ faults' = faults + 1
         \/ \E t \in Ticks :
               /\ Commit(t) /\ LayerOf(t) = l /\ task[t].at = s /\ i \in task[t].survivors
               /\ stored'[l][s][i] = stored[l][s][i] + 1 /\ faults' = faults
<1> DEFINE Same == stored'[l][s][i] = stored[l][s][i] /\ faults' = faults
           Fault == stored'[l][s][i] <= stored[l][s][i] + 1 /\ faults' = faults + 1
<1>a. stored[l][s][i] \in Nat
  BY DEF TypeOK
<1>b. \A t \in Ticks : LayerOf(t) \in Layers
  BY DEF LayerOf, Layers
<1>1. ASSUME NEW r \in Sessions, AppendTurn(r) \/ FallDormant(r) \/ Archive(r) PROVE Same
  BY <1>1 DEF AppendTurn, FallDormant, Archive, ghosts
<1>2. ASSUME NEW t \in Ticks, StartTick(t) PROVE Same
  BY <1>2 DEF StartTick, ghosts
<1>3. ASSUME NEW t \in Ticks, Commit(t)
      PROVE  \/ Same
             \/ /\ LayerOf(t) = l /\ task[t].at = s /\ i \in task[t].survivors
                /\ stored'[l][s][i] = stored[l][s][i] + 1 /\ faults' = faults
  BY <1>3, <1>b, AddMemoriesType DEF Commit, LocalsOK, Local
<1>4. ASSUME NEW t \in Ticks, CommitFails(t) PROVE Fault
  <2>1. PICK W : AddMemories(LayerOf(t), task[t].at, W)
    BY <1>4 DEF CommitFails
  <2>2. task[t].at \in Sessions /\ faults' = faults + 1
    BY <1>4 DEF CommitFails, LocalsOK, Local
  <2> QED
    BY <2>1, <2>2, <1>a, <1>b, AddMemoriesType, SMTT(30)
<1>5. ASSUME NEW t \in Ticks, TickStep(t), ~Commit(t), ~CommitFails(t) PROVE Same
  BY <1>5 DEF TickStep, SkipSession, AskModel, ModelAnswers, ExtractionFails,
      PassFails, EndSweep, SkipLevel, SummarizeLevel, StartTidying, Tidy,
      EndTidying, ghosts
<1>6. ASSUME NEW t \in Writers, StartWrite(t) PROVE Same
  BY <1>6 DEF StartWrite, ghosts
<1>7. ASSUME NEW t \in Tasks, LockStep(t) PROVE Same
  BY <1>7 DEF LockStep, EnterLock, WriteEntries, LeaveLock, ghosts
<1>8. ASSUME Crash PROVE Fault
  <2>1. CASE UNCHANGED stored
    BY <1>8, <2>1, <1>a DEF Crash
  <2>2. ASSUME NEW t \in Ticks, task[t].job = "digest", NEW W,
               AddMemories(LayerOf(t), task[t].at, W)
        PROVE  stored'[l][s][i] <= stored[l][s][i] + 1
    <3>1. task[t].at \in Sessions
      BY <2>2 DEF LocalsOK, Local
    <3> QED
      BY <2>2, <3>1, <1>a, <1>b, AddMemoriesType
  <2> QED
    BY <1>8, <2>1, <2>2 DEF Crash
<1>9. CASE UNCHANGED vars
  BY <1>9 DEF vars
<1> QED
  BY <1>1, <1>2, <1>3, <1>4, <1>5, <1>6, <1>7, <1>8, <1>9 DEF Next

\* The committed batch starts behind the snapshot and ends at the new cursor.
LEMMA SurvivorsBetween ==
  ASSUME TypeOK, LocalsOK, NEW t \in Ticks, Commit(t), NEW i \in task[t].survivors
  PROVE  task[t].from[task[t].at] < i /\ i <= task[t].upTo
<1>1. task[t].at \in Sessions /\ i \in Batch(t) /\ task[t] \in Locals
  BY DEF Commit, LocalsOK, Local, TypeOK
<1> QED
  BY <1>1 DEF Batch, Locals

\* Threats are made by ticks that start, and end with a commit.
LEMMA ThreatsStep ==
  ASSUME TypeOK, LocalsOK, [Next]_vars,
         NEW l \in Layers, NEW s \in Sessions, NEW i \in Turns
  PROVE  /\ \A t \in Threats(l, s, i)' : t \in Threats(l, s, i) \/
                (StartTick(t) /\ LayerOf(t) = l /\ cursor[l][s] < i)
         /\ \A t \in Ticks : Commit(t) /\ task[t].at = s => t \notin Threats(l, s, i)'
<1>1. ASSUME NEW t \in Threats(l, s, i)', t \notin Threats(l, s, i)
      PROVE  StartTick(t) /\ LayerOf(t) = l /\ cursor[l][s] < i
  <2>1. t \in Ticks /\ LayerOf(t) = l /\ Pending(t, s)' /\ task'[t].from[s] < i
    BY <1>1 DEF Threats
  <2>2. CASE Pending(t, s) /\ task'[t].from[s] = task[t].from[s]
    BY <1>1, <2>1, <2>2 DEF Threats
  <2>3. CASE StartTick(t) /\ task'[t].from[s] = cursor[LayerOf(t)][s]
    BY <2>1, <2>3
  <2> QED
    BY <2>1, <2>2, <2>3, PendingStep
<1>2. ASSUME NEW t \in Ticks, Commit(t), task[t].at = s PROVE t \notin Threats(l, s, i)'
  BY <1>2, CommitEnds DEF Threats
<1> QED
  BY <1>1, <1>2

\* A turn gets another copy only with another overlap or fault.
LEMMA CopiesNext == ASSUME CInv, CInv', Copies, [Next]_vars PROVE Copies'
<1> USE DEF CInv
<1> SUFFICES ASSUME NEW l \in Layers, NEW s \in Sessions, NEW i \in Turns
             PROVE  PaidFor(l, s, i)'
  BY DEF Copies, Turns
<1> DEFINE T == Threats(l, s, i)
           N == stored[l][s][i]
           Paid == faults + overlaps[l]
           C == cursor[l][s]
<1>a. N \in Nat /\ N' \in Nat /\ faults \in Nat /\ overlaps[l] \in Nat /\ C \in Nat /\ i \in Nat
  BY DEF TypeOK, Turns
<1>b. IsFiniteSet(T) /\ N + Cardinality(T) <= Paid + 1 /\ (i > C => N <= Paid)
  BY DEF Copies, PaidFor
<1>c. Cardinality(T) \in Nat
  BY <1>b, FS_CardinalityType
<1>d. SUFFICES /\ IsFiniteSet(T')
               /\ N' + Cardinality(T') <= Paid' + 1
               /\ i > C' => N' <= Paid'
  BY DEF PaidFor
<1> HIDE DEF T
<1>e. ASSUME T' \subseteq T
      PROVE  IsFiniteSet(T') /\ Cardinality(T') \in Nat /\ Cardinality(T') <= Cardinality(T)
  BY <1>b, <1>e, FS_Subset, FS_CardinalityType
<1>1. ASSUME NEW t \in Ticks, StartTick(t)
      PROVE  IsFiniteSet(T') /\ N' + Cardinality(T') <= Paid' + 1 /\ (i > C' => N' <= Paid')
  <2>1. C' = C /\ N' = N /\ faults' = faults
    BY <1>1, StartEffect
  <2>2. T' \subseteq T \cup {t}
    <3>1. ASSUME NEW u \in T', u # t PROVE u \in T
      BY <1>1, <3>1, StartEffect DEF T, Threats, Pending
    <3> QED
      BY <3>1
  <2>3. /\ IsFiniteSet(T') /\ Cardinality(T') \in Nat
        /\ Cardinality(T') <= Cardinality(T) + 1
    <3>1. IsFiniteSet(T \cup {t}) /\ Cardinality(T \cup {t}) <= Cardinality(T) + 1
      <4>1. IsFiniteSet(T)
        BY <1>b
      <4>2. /\ IsFiniteSet(T \cup {t})
            /\ Cardinality(T \cup {t}) = IF t \in T THEN Cardinality(T) ELSE Cardinality(T) + 1
        BY <4>1, FS_AddElement
      <4> QED
        BY <1>c, <4>2
    <3>2. /\ IsFiniteSet(T') /\ Cardinality(T') <= Cardinality(T \cup {t})
          /\ Cardinality(T') \in Nat /\ Cardinality(T \cup {t}) \in Nat
      BY <2>2, <3>1, FS_Subset, FS_CardinalityType
    <3> QED
      BY <3>1, <3>2, <1>c
  <2>4. CASE t \notin T'
    <3>1. T' \subseteq T
      BY <2>2, <2>4
    <3>2. overlaps'[l] \in Nat /\ overlaps'[l] >= overlaps[l]
      BY <1>1, <1>a, StartEffect
    <3> QED
      BY <1>a, <1>b, <1>c, <1>e, <2>1, <3>1, <3>2
  <2>5. CASE t \in T' /\ Running(l) = {}
    <3>1. T = {}
      BY <2>5, PendingRuns DEF T, Threats
    <3>2. Cardinality(T) = 0
      BY <3>1, FS_EmptySet
    <3>3. overlaps'[l] = overlaps[l]
      BY <1>1, <2>5, StartEffect
    <3>4. C < i
      BY <1>1, <2>5, <3>1, ThreatsStep DEF T
    <3> QED
      BY <1>a, <1>b, <2>1, <2>3, <3>2, <3>3, <3>4
  <2>6. CASE t \in T' /\ Running(l) # {}
    <3>1. LayerOf(t) = l
      BY <2>6 DEF T, Threats
    <3>2. overlaps'[l] = overlaps[l] + 1
      BY <1>1, <2>6, <3>1, StartEffect
    <3> QED
      BY <1>a, <1>b, <1>c, <2>1, <2>3, <3>2
  <2> QED
    BY <2>4, <2>5, <2>6
<1>2. ASSUME \A t \in Ticks : ~StartTick(t)
      PROVE  IsFiniteSet(T') /\ N' + Cardinality(T') <= Paid' + 1 /\ (i > C' => N' <= Paid')
  <2>1. T' \subseteq T
    BY <1>2, ThreatsStep DEF T, Threats
  <2>2. overlaps' = overlaps
    BY <1>2, OverlapStep
  <2>3. CASE \A t \in Ticks : Commit(t) => ~(LayerOf(t) = l /\ task[t].at = s)
    <3>1. C' = C
      BY <2>3, OnlyCommits, CommitEffect
    <3>2. /\ faults' \in {faults, faults + 1}
          /\ faults' = faults => N' = N
          /\ faults' = faults + 1 => N' <= N + 1
      BY <1>a, <2>3, StoredStep
    <3> QED
      BY <1>a, <1>b, <1>c, <1>e, <2>1, <2>2, <3>1, <3>2
  <2>4. ASSUME NEW t \in Ticks, Commit(t), LayerOf(t) = l, task[t].at = s
        PROVE  IsFiniteSet(T') /\ N' + Cardinality(T') <= Paid' + 1 /\ (i > C' => N' <= Paid')
    <3>1. /\ C' = task[t].upTo /\ task[t].upTo \in Nat /\ task[t].from[s] \in Nat
          /\ task[t].from[s] < task[t].upTo
      BY <2>4, CommitEffect
    <3>2. task[t].from[s] < i => t \in T /\ t \notin T'
      BY <2>4, CommitEnds, ThreatsStep DEF T, Threats
    <3>3. ASSUME t \in T, t \notin T'
          PROVE  Cardinality(T) >= 1 /\ Cardinality(T') <= Cardinality(T) - 1
      <4>1. IsFiniteSet(T \ {t}) /\ Cardinality(T \ {t}) = Cardinality(T) - 1
        BY <1>b, <3>3, FS_RemoveElement
      <4>2. T' \subseteq T \ {t}
        BY <2>1, <3>3
      <4>3. Cardinality(T') <= Cardinality(T \ {t}) /\ Cardinality(T \ {t}) \in Nat
        BY <4>1, <4>2, FS_Subset, FS_CardinalityType
      <4> QED
        BY <1>c, <4>1, <4>3
    <3>4. faults' = faults
      BY <2>4 DEF Commit
    <3>5. CASE i \in task[t].survivors
      <4>1. task[t].from[s] < i /\ i <= C'
        BY <2>4, <3>1, <3>5, SurvivorsBetween
      <4>2. N' <= N + 1
        BY <1>a, <3>4, StoredStep
      <4> QED
        BY <1>a, <1>b, <1>c, <1>e, <2>1, <2>2, <3>1, <3>2, <3>3, <3>4, <4>1, <4>2
    <3>6. CASE i \notin task[t].survivors
      <4>1. N' = N
        BY <2>4, <3>6, AddMemoriesType DEF Commit
      <4>2. i > C' => Cardinality(T) >= 1
        BY <1>a, <3>1, <3>2, <3>3
      <4> QED
        BY <1>a, <1>b, <1>c, <1>e, <2>1, <2>2, <3>1, <3>4, <4>1, <4>2
    <3> QED
      BY <3>5, <3>6
  <2> QED
    BY <2>3, <2>4
<1> QED
  BY <1>1, <1>2

\* Initially nothing is stored.
LEMMA CopiesInit == Init => Copies
<1> SUFFICES ASSUME Init, NEW l \in Layers, NEW s \in Sessions, NEW i \in Turns
             PROVE  PaidFor(l, s, i)
  BY DEF Copies
<1>1. Threats(l, s, i) = {}
  BY DEF Init, Threats, Pending, Idle
<1>2. stored[l][s][i] = 0 /\ faults = 0 /\ overlaps[l] = 0
  BY DEF Init
<1> QED
  BY <1>1, <1>2, FS_EmptySet DEF PaidFor

\* The number of copies follows from the inductive one.
LEMMA CopiesBound == CInv /\ Copies => CopiesBounded
<1> SUFFICES ASSUME CInv, Copies, NEW l \in Layers, NEW s \in Sessions, NEW i \in Turns
             PROVE  stored[l][s][i] <=
                       faults + overlaps[l] + (IF i <= cursor[l][s] THEN 1 ELSE 0)
  BY DEF CopiesBounded
<1>1. /\ stored[l][s][i] \in Nat /\ faults \in Nat /\ overlaps[l] \in Nat
      /\ cursor[l][s] \in Nat /\ i \in Nat
  BY DEF CInv, TypeOK, Turns
<1>2. PaidFor(l, s, i) /\ Cardinality(Threats(l, s, i)) \in Nat
  BY FS_CardinalityType DEF Copies, PaidFor
<1> QED
  BY <1>1, <1>2 DEF PaidFor

\* Duplicates are bounded by what went wrong: a turn is stored once per
\* layer, and once more at most for each fault and each overlap.
THEOREM CopiesAlwaysBounded == Spec => []CopiesBounded
<1>1. Init => LockInv /\ CInv /\ Copies
  BY LockInitial, CInvInit, CopiesInit DEF Init
<1>2. LockInv /\ CInv /\ Copies /\ [Next]_vars => (LockInv /\ CInv /\ Copies)'
  BY LockUsed, LockStepInv, CInvNext, CopiesNext
<1>3. LockInv /\ CInv /\ Copies => CopiesBounded
  BY CopiesBound
<1> QED
  BY <1>1, <1>2, <1>3, PTL DEF Spec

=============================================================================
