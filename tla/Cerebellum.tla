----------------------------- MODULE Cerebellum -----------------------------
(***************************************************************************)
(* The two layers that consolidate session histories into memories         *)
(* (src/cerebellum/layer1.js, layer2.js), the tick handlers that run them, *)
(* and the memory.write handler, all over the lock of the agent's memory.  *)
(*                                                                         *)
(* A tick takes its sessions and their cursors when it starts, asks the    *)
(* model about the turns between the cursor and the length it finds, and   *)
(* commits under the lock: memories to memory.db, one transaction each,    *)
(* then the cursor to agent-core.db.  A session's turns are 1..length[s],  *)
(* and each brings at most one memory per pass.                            *)
(***************************************************************************)
EXTENDS Lock, Naturals, FiniteSets

CONSTANTS
    Sessions,
    L1Ticks, L2Ticks,       \* calls of cerebellum.l1Tick and l2Tick in flight
    Writers,                \* calls of memory.write in flight
    NoSession,
    MaxLength,              \* bound on the turns of a session
    MaxOverlaps,            \* ticks that start while one of their layer runs
    MaxFaults,              \* failed commits and crashes
    MaxLevels,              \* summary levels due at once (5 in the code)
    MaxAsks                 \* model calls of one housekeeping (6 in the code)

Ticks == L1Ticks \cup L2Ticks
Layers == {"l1", "l2"}
LayerOf(t) == IF t \in L1Ticks THEN "l1" ELSE "l2"
Turns == 1 .. MaxLength

ASSUME CerebellumAssumption ==
    /\ Tasks = Ticks \cup Writers
    /\ L1Ticks \cap L2Ticks = {}
    /\ Ticks \cap Writers = {}
    /\ NoSession \notin Sessions
    /\ MaxLength \in Nat /\ MaxLevels \in Nat /\ MaxAsks \in Nat
    /\ MaxOverlaps \in Nat /\ MaxFaults \in Nat

VARIABLES
    length,     \* rows in session_history
    status,     \* awake and drowsy sessions are live
    cursor,     \* cerebellum_l1_cursor and cerebellum_l2_cursor
    task,       \* the calls in flight, with their locals
    read,       \* history: turns a committed pass put to the model
    dropped,    \* history: turns given up with a failed extraction
    stored,     \* history: how often a memory of a turn was written
    overlaps,   \* ticks that started while another of their layer ran
    faults      \* commits that failed, and crashes

history == <<length, status>>
ghosts == <<read, dropped, stored>>
vars == <<lockVars, length, status, cursor, task, read, dropped, stored,
          overlaps, faults>>

PCs == {"idle", "sweeping", "asking", "tending", "locking", "inside", "leaving"}
Jobs == {"digest", "summary", "tidy", "write"}

Idle == [pc |-> "idle", job |-> "write", todo |-> {}, from |-> [s \in Sessions |-> 0],
         at |-> NoSession, upTo |-> 0, answered |-> FALSE, survivors |-> {},
         due |-> FALSE, left |-> 0]

Locals == [pc : PCs, job : Jobs, todo : SUBSET Sessions,
           from : [Sessions -> 0 .. MaxLength], at : Sessions \cup {NoSession},
           upTo : 0 .. MaxLength, answered : BOOLEAN, survivors : SUBSET Turns,
           due : BOOLEAN, left : Nat]

TypeOK ==
    /\ LockTypeOK
    /\ length \in [Sessions -> 0 .. MaxLength]
    /\ status \in [Sessions -> {"live", "dormant", "archived"}]
    /\ cursor \in [Layers -> [Sessions -> 0 .. MaxLength]]
    /\ task \in [Tasks -> Locals]
    /\ read \in [Layers -> [Sessions -> SUBSET Turns]]
    /\ dropped \in [Layers -> [Sessions -> SUBSET Turns]]
    /\ stored \in [Layers -> [Sessions -> [Turns -> Nat]]]
    /\ overlaps \in [Layers -> Nat]
    /\ faults \in Nat

Init ==
    /\ LockInit
    /\ length = [s \in Sessions |-> 0]
    /\ status = [s \in Sessions |-> "live"]
    /\ cursor = [l \in Layers |-> [s \in Sessions |-> 0]]
    /\ task = [t \in Tasks |-> Idle]
    /\ read = [l \in Layers |-> [s \in Sessions |-> {}]]
    /\ dropped = [l \in Layers |-> [s \in Sessions |-> {}]]
    /\ stored = [l \in Layers |-> [s \in Sessions |-> [i \in Turns |-> 0]]]
    /\ overlaps = [l \in Layers |-> 0]
    /\ faults = 0

-----------------------------------------------------------------------------
(* The Supervisor appends a turn.  A session that is no longer live may    *)
(* still get a late answer.                                                *)
AppendTurn(s) ==
    /\ length[s] < MaxLength
    /\ length' = [length EXCEPT ![s] = @ + 1]
    /\ UNCHANGED <<lockVars, status, cursor, task, ghosts, overlaps, faults>>

(* The Supervisor retires a session.                                       *)
FallDormant(s) ==
    /\ status[s] = "live"
    /\ status' = [status EXCEPT ![s] = "dormant"]
    /\ UNCHANGED <<lockVars, length, cursor, task, ghosts, overlaps, faults>>

(* It archives one whose history both layers have digested.                *)
Archive(s) ==
    /\ status[s] = "dormant"
    /\ \A l \in Layers : cursor[l][s] >= length[s]
    /\ status' = [status EXCEPT ![s] = "archived"]
    /\ UNCHANGED <<lockVars, length, cursor, task, ghosts, overlaps, faults>>

-----------------------------------------------------------------------------
Running(l) == {u \in Ticks : LayerOf(u) = l /\ task[u].pc # "idle"}

Dormant == {s \in Sessions : status[s] = "dormant"}

Eligible(l) ==
    IF l = "l1" THEN {s \in Sessions : status[s] # "archived"} ELSE Dormant

(* A tick handler lists the sessions, with their cursors as they are now.  *)
(* Whether the level summaries and the housekeeping are due (100 turns,    *)
(* four hours) is decided from this list too; it takes a dormant session.  *)
StartTick(t) ==
    LET l == LayerOf(t) IN
    /\ task[t].pc = "idle"
    /\ Running(l) # {} => overlaps[l] < MaxOverlaps
    /\ overlaps' = [overlaps EXCEPT ![l] = IF Running(l) = {} THEN @ ELSE @ + 1]
    /\ \E due \in IF l = "l2" /\ Dormant # {} THEN BOOLEAN ELSE {FALSE} :
          task' = [task EXCEPT ![t] = [Idle EXCEPT !.pc = "sweeping",
                      !.todo = Eligible(l), !.from = cursor[l], !.due = due]]
    /\ UNCHANGED <<lockVars, history, cursor, ghosts, faults>>

(* The next session of the list has no turns behind its cursor.            *)
SkipSession(t, s) ==
    /\ task[t].pc = "sweeping"
    /\ s \in task[t].todo
    /\ length[s] <= task[t].from[s]
    /\ task' = [task EXCEPT ![t].todo = @ \ {s}, ![t].from[s] = 0]
    /\ UNCHANGED <<lockVars, history, cursor, ghosts, overlaps, faults>>

(* It has: the turns up to the present length are read and put to the      *)
(* model.                                                                  *)
AskModel(t, s) ==
    /\ task[t].pc = "sweeping"
    /\ s \in task[t].todo
    /\ length[s] > task[t].from[s]
    /\ task' = [task EXCEPT ![t].pc = "asking", ![t].todo = @ \ {s},
                            ![t].at = s, ![t].upTo = length[s]]
    /\ UNCHANGED <<lockVars, history, cursor, ghosts, overlaps, faults>>

(* The turns a pass is about.                                              *)
Batch_StartsEarly(t) == Turns \cap (task[t].from[task[t].at] .. task[t].upTo)
Batch_EndsLate(t) == (task[t].from[task[t].at] + 1) .. (task[t].upTo + 1)
Batch(t) == (task[t].from[task[t].at] + 1) .. task[t].upTo

(* The model answered, and what is no duplicate of an existing memory      *)
(* survives.  In layer 1 the deduplication asks again for each proposal,   *)
(* in layer 2 the turns go in batches of 100; neither writes anything      *)
(* before the last answer, so the answers are one step.                    *)
ModelAnswers(t) ==
    /\ task[t].pc = "asking"
    /\ \E S \in SUBSET Batch(t) :
          task' = [task EXCEPT ![t].pc = "locking", ![t].job = "digest",
                               ![t].answered = TRUE, ![t].survivors = S]
    /\ Acquire(t)
    /\ UNCHANGED <<history, cursor, ghosts, overlaps, faults>>

(* The model failed twice.  Layer 1 goes on with no proposals.             *)
ExtractionFails(t) ==
    /\ t \in L1Ticks
    /\ task[t].pc = "asking"
    /\ task' = [task EXCEPT ![t].pc = "locking", ![t].job = "digest",
                            ![t].answered = FALSE, ![t].survivors = {}]
    /\ Acquire(t)
    /\ UNCHANGED <<history, cursor, ghosts, overlaps, faults>>

(* Back at the list of sessions.  The locals of the last pass are gone.    *)
Sweeping(t) ==
    [Idle EXCEPT !.pc = "sweeping", !.todo = task[t].todo, !.due = task[t].due,
        !.from = [s \in Sessions |-> IF s \in task[t].todo THEN task[t].from[s] ELSE 0]]

(* The pass throws before its lock: in layer 2 when the model fails, in     *)
(* both when the database does.  The session is left for a later tick.     *)
PassFails(t) ==
    /\ task[t].pc = "asking"
    /\ task' = [task EXCEPT ![t] = Sweeping(t)]
    /\ UNCHANGED <<lockVars, history, cursor, ghosts, overlaps, faults>>

EnterLock(t) ==
    /\ task[t].pc = "locking"
    /\ Enter(t)
    /\ task' = [task EXCEPT ![t].pc = "inside"]
    /\ UNCHANGED <<history, cursor, ghosts, overlaps, faults>>

(* What writing the memories of the turns W of a session adds.             *)
AddMemories(l, s, W) ==
    stored' = [stored EXCEPT ![l][s] = [i \in Turns |-> @[i] + IF i \in W THEN 1 ELSE 0]]

(* What the cursor is set to.                                              *)
NewCursor_LengthNow(t) == length[task[t].at]
NewCursor_Written(t) == Cardinality(task[t].survivors)
NewCursor(t) == task[t].upTo

(* The function under the lock: every survivor is written, then the cursor *)
(* is set to the length found before the model was asked.                  *)
Commit(t) ==
    LET l == LayerOf(t)
        s == task[t].at
    IN
    /\ task[t].pc = "inside" /\ task[t].job = "digest"
    /\ AddMemories(l, s, task[t].survivors)
    /\ cursor' = [cursor EXCEPT ![l][s] = NewCursor(t)]
    /\ IF task[t].answered
          THEN read' = [read EXCEPT ![l][s] = @ \cup Batch(t)] /\ UNCHANGED dropped
          ELSE dropped' = [dropped EXCEPT ![l][s] = @ \cup Batch(t)] /\ UNCHANGED read
    /\ task' = [task EXCEPT ![t].pc = "leaving"]
    /\ UNCHANGED <<lockVars, history, overlaps, faults>>

(* A throw passes the finally block of withLock().                         *)
AfterThrow_NoFinally(t) == Sweeping(t)
AfterThrow(t) == [task[t] EXCEPT !.pc = "leaving"]

(* One of the writes throws.  Those before it stay, the cursor too.        *)
CommitFails(t) ==
    /\ task[t].pc = "inside" /\ task[t].job = "digest"
    /\ faults < MaxFaults
    /\ faults' = faults + 1
    /\ \E W \in SUBSET task[t].survivors : AddMemories(LayerOf(t), task[t].at, W)
    /\ task' = [task EXCEPT ![t] = AfterThrow(t)]
    /\ UNCHANGED <<lockVars, history, cursor, read, dropped, overlaps>>

(* The other short functions run under the lock: a level summary, and the  *)
(* entries of memory.write.  Neither touches what is modelled here.        *)
WriteEntries(t) ==
    /\ task[t].pc = "inside" /\ task[t].job \in {"summary", "write"}
    /\ task' = [task EXCEPT ![t].pc = "leaving"]
    /\ UNCHANGED <<lockVars, history, cursor, ghosts, overlaps, faults>>

(* Where the code behind withLock() goes on; the locals of the pass or of  *)
(* the level go out of scope.                                              *)
AfterLock(t) ==
    CASE task[t].job = "digest"  -> Sweeping(t)
      [] task[t].job = "summary" -> [task[t] EXCEPT !.pc = "tending", !.job = "write"]
      [] OTHER                   -> Idle

(* withLock() releases, after success and after a throw.                   *)
LeaveLock(t) ==
    /\ task[t].pc = "leaving"
    /\ Release(t)
    /\ task' = [task EXCEPT ![t] = AfterLock(t)]
    /\ UNCHANGED <<history, cursor, ghosts, overlaps, faults>>

(* The list is done, and with it the tick, unless more is due.             *)
EndSweep(t) ==
    /\ task[t].pc = "sweeping"
    /\ task[t].todo = {}
    /\ IF task[t].due
          THEN \E n \in 0 .. MaxLevels :
                  task' = [task EXCEPT ![t] = [Idle EXCEPT !.pc = "tending", !.left = n]]
          ELSE task' = [task EXCEPT ![t] = Idle]
    /\ UNCHANGED <<lockVars, history, cursor, ghosts, overlaps, faults>>

-----------------------------------------------------------------------------
(* A level of summaries has no sources, or the model fails.                *)
SkipLevel(t) ==
    /\ task[t].pc = "tending"
    /\ task[t].left > 0
    /\ task' = [task EXCEPT ![t].left = @ - 1]
    /\ UNCHANGED <<lockVars, history, cursor, ghosts, overlaps, faults>>

(* The model aggregated it, outside the lock.                              *)
SummarizeLevel(t) ==
    /\ task[t].pc = "tending"
    /\ task[t].left > 0
    /\ task' = [task EXCEPT ![t].left = @ - 1, ![t].pc = "locking", ![t].job = "summary"]
    /\ Acquire(t)
    /\ UNCHANGED <<history, cursor, ghosts, overlaps, faults>>

(* Housekeeping takes the lock before it asks anything.                    *)
StartTidying(t) ==
    /\ task[t].pc = "tending"
    /\ task[t].left = 0
    /\ \E n \in 0 .. MaxAsks :
          task' = [task EXCEPT ![t].pc = "locking", ![t].job = "tidy", ![t].left = n]
    /\ Acquire(t)
    /\ UNCHANGED <<history, cursor, ghosts, overlaps, faults>>

(* A model call under the lock has ended; its failure is caught.           *)
Tidy(t) ==
    /\ task[t].pc = "inside" /\ task[t].job = "tidy"
    /\ task[t].left > 0
    /\ task' = [task EXCEPT ![t].left = @ - 1]
    /\ UNCHANGED <<lockVars, history, cursor, ghosts, overlaps, faults>>

EndTidying(t) ==
    /\ task[t].pc = "inside" /\ task[t].job = "tidy"
    /\ task[t].left = 0
    /\ task' = [task EXCEPT ![t].pc = "leaving"]
    /\ UNCHANGED <<lockVars, history, cursor, ghosts, overlaps, faults>>

(* memory.write                                                            *)
StartWrite(t) ==
    /\ task[t].pc = "idle"
    /\ task' = [task EXCEPT ![t] = [Idle EXCEPT !.pc = "locking"]]
    /\ Acquire(t)
    /\ UNCHANGED <<history, cursor, ghosts, overlaps, faults>>

(* The process dies, possibly between two writes of a commit: the two      *)
(* database files keep what was written, calls and lock are gone.          *)
Crash ==
    /\ faults < MaxFaults
    /\ faults' = faults + 1
    /\ \/ UNCHANGED stored
       \/ \E t \in Ticks :
             /\ task[t].pc = "inside" /\ task[t].job = "digest"
             /\ \E W \in SUBSET task[t].survivors :
                   AddMemories(LayerOf(t), task[t].at, W)
    /\ task' = [t \in Tasks |-> Idle]
    /\ Renew
    /\ UNCHANGED <<history, cursor, read, dropped, overlaps>>

-----------------------------------------------------------------------------
TickStep(t) ==
    \/ \E s \in Sessions : SkipSession(t, s) \/ AskModel(t, s)
    \/ ModelAnswers(t) \/ ExtractionFails(t) \/ PassFails(t)
    \/ Commit(t) \/ CommitFails(t)
    \/ EndSweep(t) \/ SkipLevel(t) \/ SummarizeLevel(t)
    \/ StartTidying(t) \/ Tidy(t) \/ EndTidying(t)

LockStep(t) == EnterLock(t) \/ WriteEntries(t) \/ LeaveLock(t)

Next ==
    \/ \E s \in Sessions : AppendTurn(s) \/ FallDormant(s) \/ Archive(s)
    \/ \E t \in Ticks : StartTick(t) \/ TickStep(t)
    \/ \E t \in Writers : StartWrite(t)
    \/ \E t \in Tasks : LockStep(t)
    \/ Crash

Spec == Init /\ [][Next]_vars

(* Model calls end, since the provider client has a time limit, and        *)
(* continuations whose promise has resolved run.  The host need not call   *)
(* and histories need not grow.                                            *)
FairSpec ==
    /\ Spec
    /\ \A t \in Ticks : WF_vars(TickStep(t))
    /\ \A t \in Tasks : WF_vars(LockStep(t))

-----------------------------------------------------------------------------
(***************************************************************************)
(* A turn behind a cursor was put to the model in a pass that committed,   *)
(* or was in the batch of a failed layer 1 extraction; layer 2 gives       *)
(* nothing up.  Ticks that overlap, late turns, failed commits and crashes *)
(* skip no turn.                                                           *)
(***************************************************************************)
NoTurnSkipped ==
    \A l \in Layers, s \in Sessions :
        /\ 1 .. cursor[l][s] \subseteq read[l][s] \cup dropped[l][s]
        /\ dropped["l2"][s] = {}

(***************************************************************************)
(* What a turn can cost in duplicates: one memory per layer, and one more  *)
(* at most for each commit that failed, crash, and tick that overlapped    *)
(* another; while the turn is ahead of the cursor the regular one is       *)
(* still to come.                                                          *)
(***************************************************************************)
CopiesBounded ==
    \A l \in Layers, s \in Sessions, i \in Turns :
        stored[l][s][i] <=
            faults + overlaps[l] + (IF i <= cursor[l][s] THEN 1 ELSE 0)

(***************************************************************************)
(* A cursor moves back only in a layer whose ticks have overlapped.        *)
(***************************************************************************)
CursorsAdvance ==
    [][\A l \in Layers, s \in Sessions :
          overlaps[l] = 0 => cursor'[l][s] >= cursor[l][s]]_vars

(***************************************************************************)
(* Whoever started ends, ticks and memory.write alike: the lock comes      *)
(* round, whatever throws under it and however long the housekeeping       *)
(* keeps it.                                                               *)
(***************************************************************************)
CallsEnd == \A t \in Tasks : task[t].pc # "idle" ~> task[t].pc = "idle"

=============================================================================
