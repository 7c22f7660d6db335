-------------------------------- MODULE Daemon --------------------------------
(***************************************************************************)
(* The process of an agent (src/bin/agent-core-daemon.js): the startup     *)
(* sequence S1 to S17, the tool registry and its push listener, the        *)
(* recovery sweep of agent-core.db, serving, and the shutdown on SIGTERM;  *)
(* with the host that forks it, calls it, pushes tools, signals it and     *)
(* forks it again.  The host is external: it is taken to stop its adapter  *)
(* when the process is gone, to push a tool as soon as its catalog         *)
(* changes, and to send the init message first.                            *)
(***************************************************************************)
EXTENDS IpcAdapter, FiniteSets

CONSTANTS
    Legacy,         \* rows of session_history from before the first life
    MaxLives,       \* forks
    MaxPushes,      \* changes of the host's catalog
    MaxKills        \* kills at any moment

ASSUME DaemonAssumption ==
    /\ Streams \subseteq Requests
    /\ NoRequest \notin Requests
    /\ Legacy \cap Requests = {}
    /\ MaxChunks \in [Requests -> Nat] /\ MaxLives \in Nat /\ MaxPushes \in Nat /\ MaxKills \in Nat

VARIABLES
    phase,          \* how far main() has come
    lives,          \* forks so far
    row,            \* status of the rows of session_history
    bornIn,         \* history: the life that appended a row
    registry,       \* the process's tools
    catalog,        \* the host's tools
    pushes, kills,
    readySeen,      \* the host has been told daemon:ready
    relied,         \* history: requests of this life sent after that
    unswept         \* history: the last sweep failed

daemonVars == <<phase, lives, row, bornIn, registry, catalog, pushes, kills,
                readySeen, relied, unswept>>
vars == <<ipcVars, daemonVars>>

Rows == Requests \cup Legacy
Phases == {"down", "waiting", "binding", "serving", "draining"}
RowStatuses == {"absent", "null", "in_progress", "completed", "interrupted", "failed"}

TypeOK ==
    /\ IpcTypeOK
    /\ phase \in Phases
    /\ lives \in Nat
    /\ row \in [Rows -> RowStatuses]
    /\ bornIn \in [Rows -> Nat]
    /\ registry \subseteq Tools
    /\ catalog \subseteq Tools
    /\ pushes \in Nat
    /\ kills \in Nat
    /\ readySeen \in BOOLEAN
    /\ relied \subseteq Requests
    /\ unswept \in BOOLEAN

(* A database from before the status column has rows without one.          *)
Init ==
    /\ IpcInit
    /\ phase = "down"
    /\ lives = 0
    /\ row = [x \in Rows |-> IF x \in Legacy THEN "null" ELSE "absent"]
    /\ bornIn = [x \in Rows |-> 0]
    /\ registry = {}
    /\ catalog = {}
    /\ pushes = 0
    /\ kills = 0
    /\ readySeen = FALSE
    /\ relied = {}
    /\ unswept = FALSE

Alive == phase # "down"

-----------------------------------------------------------------------------
(* The host forks, starts an adapter over the child and sends the init     *)
(* message with the tools as they are.                                     *)
Fork ==
    /\ phase = "down"
    /\ ~hostUp
    /\ lives < MaxLives
    /\ lives' = lives + 1
    /\ phase' = "waiting"
    /\ hostUp' = TRUE
    /\ killed' = FALSE
    /\ toPeer' = <<[op |-> "init", tools |-> catalog, id |-> NoRequest]>>
    /\ wire' = [r \in Requests |-> <<>>]
    /\ readySeen' = FALSE
    /\ relied' = {}
    /\ UNCHANGED <<call, pending, draining, chain, busy, heard, peerVars, row,
                   bornIn, registry, catalog, pushes, kills, unswept>>

Call(r) ==
    /\ SendRequest(r, ~Alive)
    /\ relied' = IF readySeen /\ hostUp /\ ~killed /\ Alive THEN relied \cup {r} ELSE relied
    /\ UNCHANGED <<phase, lives, row, bornIn, registry, catalog, pushes, kills, readySeen,
                   unswept>>

(* The host adds a tool to its catalog or removes one, and tells a running *)
(* process.                                                                *)
Push(op, t) ==
    /\ pushes < MaxPushes
    /\ pushes' = pushes + 1
    /\ \/ op = "add" /\ t \notin catalog /\ catalog' = catalog \cup {t}
       \/ op = "remove" /\ t \in catalog /\ catalog' = catalog \ {t}
    /\ toPeer' = IF Alive THEN Append(toPeer, [op |-> op, tools |-> {t}, id |-> NoRequest])
                          ELSE toPeer
    /\ UNCHANGED <<hostVars, wire, peerVars, phase, lives, row, bornIn, registry,
                   kills, readySeen, relied, unswept>>

StopAdapter ==
    /\ phase = "down"
    /\ StopHost
    /\ UNCHANGED daemonVars

(* Of a frame from the process.                                            *)
HostHears(r) ==
    /\ HostStep(r)
    /\ UNCHANGED daemonVars

-----------------------------------------------------------------------------
(* The process ends.  Its rows stay.                                       *)
Gone ==
    /\ LosePeer
    /\ phase' = "down"
    /\ registry' = {}
    /\ UNCHANGED <<lives, bornIn, catalog, pushes, readySeen, relied, unswept>>

(* daemon:ready                                                            *)
ReadySent_WhenBinding == phase' \in {"binding", "serving"}
ReadySent == phase' = "serving"

NextFrame == Head(toPeer)
DropFrame == toPeer' = SubSeq(toPeer, 2, Len(toPeer))

(* S2 to S9: the first message is the init message.  Validation, the       *)
(* registry, and the listener for pushes follow without an await; a        *)
(* message that comes while nobody listens is kept by the channel.         *)
ReceiveInit ==
    /\ phase = "waiting"
    /\ toPeer # <<>>
    /\ NextFrame.op = "init"
    /\ DropFrame
    /\ registry' = NextFrame.tools
    /\ phase' = "binding"
    /\ readySeen' = ReadySent
    /\ UNCHANGED <<hostVars, wire, peerVars, lives, row, bornIn, catalog, pushes,
                   kills, relied, unswept>>

(* openAgentCoreDb(): rows from before the column are completed.           *)
Backfill(rows) == [x \in Rows |-> IF rows[x] = "null" THEN "completed" ELSE rows[x]]

(* runStartupRecoverySweep(): a row that is not terminal, or has no status. *)
Terminals == {"completed", "interrupted", "failed"}
Sweep_NullOnly(rows) ==
    [x \in Rows |-> IF rows[x] = "null" THEN "interrupted" ELSE rows[x]]
Sweep(rows) ==
    [x \in Rows |-> IF rows[x] \in Terminals \cup {"absent"} THEN rows[x] ELSE "interrupted"]

(* What S12 to S14 do to agent-core.db.                                    *)
Recovered_SweepFirst(rows) == Backfill(Sweep(rows))
Recovered(rows) == Sweep(Backfill(rows))

(* SIGTERM finds the stub of the start.                                    *)
EarlySigterm ==
    /\ phase \in {"waiting", "binding"}
    /\ killed
    /\ Gone
    /\ UNCHANGED <<row, kills>>

(* S1 to S9 fail: no init message in time, a payload that is not valid,    *)
(* a name twice in the tool list.                                          *)
InitFails ==
    /\ phase = "waiting"
    /\ kills < MaxKills
    /\ kills' = kills + 1
    /\ Gone
    /\ UNCHANGED row

(* S10 fails: the socket cannot be bound.                                  *)
BindFails ==
    /\ phase = "binding"
    /\ kills < MaxKills
    /\ kills' = kills + 1
    /\ Gone
    /\ UNCHANGED row

(* S11 or S12 fails, or the process is killed between two of the steps     *)
(* that write to agent-core.db.                                            *)
OpeningFails ==
    /\ phase = "binding"
    /\ kills < MaxKills
    /\ kills' = kills + 1
    /\ row' \in {row, Backfill(row), Recovered(row)}
    /\ Gone

(* S11 to S17 in one go: databases, sweep, handlers, the full SIGTERM      *)
(* handler, daemon:ready, and start().  A sweep that fails is only warned  *)
(* about; that costs one of the faults.                                    *)
Serve ==
    /\ phase = "binding"
    /\ \/ row' = Recovered(row) /\ unswept' = FALSE /\ UNCHANGED kills
       \/ kills < MaxKills /\ row' = Backfill(row) /\ unswept' = TRUE /\ kills' = kills + 1
    /\ phase' = "serving"
    /\ listening' = TRUE
    /\ readySeen' = ReadySent
    /\ UNCHANGED <<hostVars, toPeer, wire, work, said, lives, bornIn, registry,
                   catalog, pushes, relied>>

(* A message is emitted to every listener: the one for pushes from S5 on,  *)
(* the adapter from S17 until SIGTERM.                                     *)
PushHeard_FromReadyOn == phase \in {"serving", "draining"}
PushHeard == phase \in {"binding", "serving", "draining"}

ReceivePush ==
    /\ phase \in {"binding", "serving", "draining"}
    /\ toPeer # <<>>
    /\ NextFrame.op \in {"add", "remove"}
    /\ DropFrame
    /\ registry' = CASE ~PushHeard             -> registry
                     [] NextFrame.op = "add"   -> registry \cup NextFrame.tools
                     [] OTHER                  -> registry \ NextFrame.tools
    /\ UNCHANGED <<hostVars, wire, peerVars, phase, lives, row, bornIn, catalog,
                   pushes, kills, readySeen, relied, unswept>>

ReceiveRequest ==
    /\ phase \in {"binding", "serving", "draining"}
    /\ toPeer # <<>>
    /\ NextFrame.op = "request"
    /\ TakeRequest(NextFrame.id)
    /\ DropFrame
    /\ UNCHANGED daemonVars

(* session.receiveEvent appends a row in progress.  Nothing else in the    *)
(* process ever changes its status.                                        *)
AppendRow(r) ==
    /\ work[r] = "running"
    /\ row[r] = "absent"
    /\ row' = [row EXCEPT ![r] = "in_progress"]
    /\ bornIn' = [bornIn EXCEPT ![r] = lives]
    /\ UNCHANGED <<ipcVars, phase, lives, registry, catalog, pushes, kills,
                   readySeen, relied, unswept>>

Work(r) ==
    /\ EmitChunk(r) \/ \E kind \in {"result", "error"} : Answer(r, kind)
    /\ UNCHANGED daemonVars

-----------------------------------------------------------------------------
(* The host sends SIGTERM, which sets child.killed.                        *)
Signal ==
    /\ Alive
    /\ ~killed
    /\ killed' = TRUE
    /\ UNCHANGED <<call, pending, draining, chain, busy, heard, hostUp, toPeer, wire,
                   peerVars, daemonVars>>

(* The full handler: the adapter stops, and the REST server closes once    *)
(* its connections end.  Handlers that run go on, and can still send.  A   *)
(* second signal does the same again, to no effect.                        *)
Terminate ==
    /\ killed
    /\ phase = "serving"
    /\ phase' = "draining"
    /\ listening' = FALSE
    /\ UNCHANGED <<hostVars, toPeer, wire, work, said, lives, row, bornIn, registry,
                   catalog, pushes, kills, readySeen, relied, unswept>>

(* The databases are closed and the process exits, with no await between.  *)
Exit ==
    /\ phase = "draining"
    /\ Gone
    /\ UNCHANGED <<row, kills>>

(* SIGKILL, an uncaught exception.                                         *)
Kill ==
    /\ phase \in {"serving", "draining"}
    /\ kills < MaxKills
    /\ kills' = kills + 1
    /\ Gone
    /\ UNCHANGED row

-----------------------------------------------------------------------------
PeerStep ==
    \/ ReceiveInit \/ Serve \/ ReceivePush \/ ReceiveRequest \/ Terminate \/ Exit

Next ==
    \/ Fork \/ Signal \/ StopAdapter
    \/ \E r \in Requests : Call(r) \/ HostHears(r) \/ AppendRow(r) \/ Work(r)
    \/ \E op \in {"add", "remove"}, t \in Tools : Push(op, t)
    \/ PeerStep
    \/ EarlySigterm \/ InitFails \/ BindFails \/ OpeningFails \/ Kill

Spec == Init /\ [][Next]_vars

-----------------------------------------------------------------------------
(***************************************************************************)
(* daemon:ready is sent before the adapter starts, and yet no request is   *)
(* lost on a process that has said it: one sent after it, to a process     *)
(* that still serves, is on its way or has been taken.                     *)
(***************************************************************************)
ReadyIsHeard ==
    phase = "serving" =>
        \A r \in relied :
            \/ work[r] # "none"
            \/ \E i \in DOMAIN toPeer : toPeer[i] = RequestFrame(r)

(* A process that has read what is on its way to it will have the tool t.  *)
Concerns(f, t) == f.op = "init" \/ (f.op \in {"add", "remove"} /\ t \in f.tools)

WillHave(t) ==
    LET F == {i \in DOMAIN toPeer : Concerns(toPeer[i], t)} IN
    IF F = {} THEN t \in registry
    ELSE \E i \in F :
            /\ \A j \in F : j <= i
            /\ toPeer[i].op # "remove" /\ t \in toPeer[i].tools

(***************************************************************************)
(* No change of the catalog is lost on the process, not even while it      *)
(* starts: its registry and the pushes on their way make up the catalog.   *)
(***************************************************************************)
ToolsInStep == Alive => \A t \in Tools : WillHave(t) <=> t \in catalog

(***************************************************************************)
(* A call that is open has something that will settle it: its entry, with  *)
(* the timer, or a chain that runs out.  So none waits for ever on a       *)
(* process that died, a frame that was lost or an adapter that stopped.    *)
(***************************************************************************)
NeverOrphaned == \A r \in Requests : call[r] = "open" => r \in pending \cup draining

(***************************************************************************)
(* The sweep interrupts turns of earlier lives only, and only those that   *)
(* were in progress: rows from before the status column and rows with an   *)
(* end keep theirs.                                                        *)
(***************************************************************************)
SweepSpares ==
    [][\A x \in Rows :
          row'[x] = "interrupted" /\ row[x] # "interrupted" =>
              row[x] = "in_progress" /\ bornIn[x] < lives]_vars

(***************************************************************************)
(* And it leaves none of them.  However the earlier lives ended, by        *)
(* SIGTERM, by a kill or in a start that failed, while a process serves    *)
(* whose own sweep has not failed, what is in progress has been begun in   *)
(* this life.                                                              *)
(***************************************************************************)
StaleTurnsSwept ==
    phase = "serving" /\ ~unswept =>
        \A x \in Rows : row[x] \notin Terminals \cup {"absent"} => bornIn[x] = lives

=============================================================================
