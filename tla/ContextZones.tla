---------------------------- MODULE ContextZones ----------------------------
(***************************************************************************)
(* How the context engine lays out the payload of an event of an existing  *)
(* session, and the compaction it runs on every fourth turn (stage 2).     *)
(* receiveEvent() is not serialised: the runs of two events, of one        *)
(* session or of two, interleave at their awaits, and they share the pause *)
(* flag and the failure count of the compaction.                           *)
(*                                                                         *)
(* A history is the rows 1..rows[s]; what a row says is left out, and so   *)
(* are the summary, the tags, the linger flag and the size the engine      *)
(* writes with the turn count: nothing below reads them.  Positions in a   *)
(* payload count from 0, as breakpoints do.                                *)
(***************************************************************************)
EXTENDS Integers, Sequences, FiniteSets

CONSTANTS
    Sessions,
    Calls,      \* calls of receiveEvent() and ticks, each made once
    Restored,   \* what a session may come with: [turns, rows, cursor]
    NoSession

ASSUME RestoredAssumption ==
    Restored \subseteq {r \in [turns : Nat, rows : Nat, cursor : Nat] :
                            r.cursor <= r.rows}

X == 5          \* rows of zone C-tail
Y == 5          \* rows of a block
K == 20         \* rows of the window, more while layer 1 lags behind
W == 4          \* turns between two organisations
PauseAt == 3    \* failures in a row before the compaction pauses
Null == -1

VARIABLES
    rows,       \* session_history: rows of a session
    turns,      \* turn_count
    cursor,     \* cerebellum_l1_cursor
    paused,     \* _compactionPaused
    failures,   \* _compactionFailureCount
    call,       \* the calls under way, with their locals
    completed,  \* history: successful inferences of a session
    overtaken,  \* history: those recorded while stage 2 ran on the session
    outcomes    \* history: how the last blocks ended

vars == <<rows, turns, cursor, paused, failures, call, completed, overtaken,
          outcomes>>

ghosts == <<completed, overtaken, outcomes>>

-----------------------------------------------------------------------------
Lesser(a, b) == IF a < b THEN a ELSE b
Greater(a, b) == IF a < b THEN b ELSE a

(* A message of a payload: a row, or the summary of some rows, or one of   *)
(* the others, which stand for no rows.                                    *)
Message(kind, from, to) == [kind |-> kind, from |-> from, to |-> to]
System == Message("system", 0, 0)
Memories == Message("memories", 0, 0)
Chat == Message("chat", 0, 0)
User == Message("user", 0, 0)
Summary(from, to) == Message("summary", from, to)

(* The rows from + 1 .. to, verbatim.                                      *)
RowsOf(from, to) ==
    [i \in 1 .. Greater(0, to - from) |-> Message("row", from + i, from + i)]

(* A call that has nothing under way.                                      *)
Blank(pc) ==
    [pc |-> pc, session |-> NoSession, digested |-> 0, turnCount |-> 0,
     first |-> 0, last |-> 0, boundary |-> 0, block |-> 0, attempt |-> 0,
     probe |-> FALSE, out |-> <<>>, bps |-> <<>>, condensed |-> {}]

Init ==
    /\ \E r \in [Sessions -> Restored] :
           /\ rows = [s \in Sessions |-> r[s].rows]
           /\ turns = [s \in Sessions |-> r[s].turns]
           /\ cursor = [s \in Sessions |-> r[s].cursor]
           /\ completed = turns
    /\ paused = FALSE
    /\ failures = 0
    /\ call = [c \in Calls |-> Blank("idle")]
    /\ overtaken = [s \in Sessions |-> 0]
    /\ outcomes = <<>>

-----------------------------------------------------------------------------
(* shouldTriggerStage2().                                                  *)
ShouldTriggerStage2(s) == turns[s] > 0 /\ turns[s] % W = 0

(* The first row of the window, less one: the last K rows, or more when    *)
(* layer 1 has not read so far.                                            *)
ReadStart(length, digested) == Lesser(Greater(0, length - K), digested)

(* How many blocks zone C-mid may have.                                    *)
BlocksToAnalyze(turnCount, total) ==
    CASE turnCount <= 8 -> 1
      [] turnCount \in 9 .. 16 -> 2
      [] OTHER -> Lesser(5, Greater(0, total - X) \div Y)

(* The rows of the window in zone C-front.                                 *)
CompactBoundary(turnCount, total) ==
    Greater(0, total - X - BlocksToAnalyze(turnCount, total) * Y)

(* Where zone C-mid of a run begins and ends, as rows of the session.      *)
MidStart(k) == k.first + k.boundary
MidEnd(k) == k.first + Greater(k.boundary, k.last - k.first - X)

(* The rows before and up to the end of a block.                           *)
BlockStart(k) == MidStart(k) + (k.block - 1) * Y
BlockEnd(k) == Lesser(BlockStart(k) + Y, MidEnd(k))

-----------------------------------------------------------------------------
(* assertBpInvariant(): the first is set, the positions do not decrease,   *)
(* and behind a null there are nulls only.                                 *)
BpInvariant(bps) ==
    /\ bps[1] # Null
    /\ \A i, j \in 1 .. Len(bps) :
           i < j /\ bps[j] # Null => bps[i] # Null /\ bps[i] <= bps[j]

(* buildCacheControlMarkers(): one marker for each place a breakpoint is   *)
(* at.                                                                     *)
Markers(bps) == {bps[i] : i \in 1 .. Len(bps)} \ {Null}

(* The payload before stage 2: the whole window, and the event itself.     *)
EventPayload(hasB, first, last, hasChat) ==
    <<System>> \o (IF hasB THEN <<Memories>> ELSE <<>>) \o RowsOf(first, last)
        \o (IF hasChat THEN <<Chat>> ELSE <<>>) \o <<User>>

(* The breakpoints of a run of stage 2 that ends with the messages out     *)
(* before zone C-tail.                                                     *)
Breakpoints_Gap(k, out) ==
    LET hasB == Memories \in {k.out[i] : i \in 1 .. Len(k.out)}
        zoneBEnd == IF hasB THEN 1 ELSE 0
        bp2 == IF hasB THEN zoneBEnd ELSE Null
        bp3 == IF k.boundary > 0 THEN zoneBEnd + k.boundary ELSE Null
        bp4 == IF MidEnd(k) > MidStart(k) THEN Len(out) - 1 ELSE Null
    IN  <<0, bp2, bp3, bp4>>

Breakpoints(k, out) ==
    LET hasB == Memories \in {k.out[i] : i \in 1 .. Len(k.out)}
        zoneBEnd == IF hasB THEN 1 ELSE 0
        bp2 == IF hasB THEN zoneBEnd ELSE Null
        bp3 == IF bp2 # Null /\ k.boundary > 0
               THEN zoneBEnd + k.boundary ELSE Null
        bp4 == IF bp3 # Null /\ MidEnd(k) > MidStart(k)
               THEN Len(out) - 1 ELSE Null
    IN  <<0, bp2, bp3, bp4>>

(* The end of stage 2: zone C-tail, the breakpoints, and the turn count    *)
(* written back as it was read.                                            *)
Organized(k, out) ==
    LET bps == Breakpoints(k, out)
        tail == Greater(k.first, k.last - X)
    IN  [k EXCEPT !.pc = IF BpInvariant(bps) THEN "think" ELSE "thrown",
                  !.out = out \o RowsOf(tail, k.last),
                  !.bps = bps]

-----------------------------------------------------------------------------
(* handleEvent() routes an event to a session; assemblePayloadForEvent()   *)
(* reads the meta row and awaits the system prompt.                        *)
ReceiveEvent(c, s) ==
    /\ call[c].pc = "idle"
    /\ call' = [call EXCEPT ![c] =
                  [Blank("prompt") EXCEPT !.session = s,
                                          !.digested = cursor[s]]]
    /\ UNCHANGED <<rows, turns, cursor, paused, failures, ghosts>>

(* The timers of a drowsy session have it linger, or keep its cache alive: *)
(* stage5KeepAlive() and stage6LingerEnhance() begin alike.                *)
BeginTick(c, s) ==
    /\ call[c].pc = "idle"
    /\ call' = [call EXCEPT ![c] =
                  [Blank("tickPrompt") EXCEPT !.session = s,
                                               !.digested = cursor[s]]]
    /\ UNCHANGED <<rows, turns, cursor, paused, failures, ghosts>>

(* And they end alike: the window, and the message of the tick.            *)
TickPayload(c) ==
    LET k == call[c]
        last == rows[k.session]
        first == ReadStart(last, k.digested)
    IN  /\ k.pc = "tickPrompt"
        /\ call' = [call EXCEPT ![c] =
                      [k EXCEPT !.pc = "tickThink", !.first = first,
                                !.last = last,
                                !.out = EventPayload(FALSE, first, last, FALSE),
                                !.bps = <<0, Null, Null, Null>>]]
        /\ UNCHANGED <<rows, turns, cursor, paused, failures, ghosts>>

(* The prompt is there and no organisation is due: the payload is the      *)
(* window, the chat history of the event and its message.                  *)
AssemblePayload(c) ==
    LET k == call[c]
        last == rows[k.session]
        first == ReadStart(last, k.digested)
    IN  /\ k.pc = "prompt"
        /\ ~ShouldTriggerStage2(k.session)
        /\ \E hasB, hasChat \in BOOLEAN :
               call' = [call EXCEPT ![c] =
                          [k EXCEPT !.pc = "think", !.first = first,
                                    !.last = last,
                                    !.out = EventPayload(hasB, first, last,
                                                         hasChat),
                                    !.bps = <<0, IF hasB THEN 1 ELSE Null,
                                              Null, Null>>]]
        /\ UNCHANGED <<rows, turns, cursor, paused, failures, ghosts>>

(* It is due: stage2OrganizeContext() reads the meta row again, rebuilds   *)
(* the payload from zone A, a new zone B and the history, and asks about   *)
(* the first block of zone C-mid, or ends when there is none.              *)
OrganizeContext(c) ==
    LET k == call[c]
        s == k.session
        last == rows[s]
        first == ReadStart(last, cursor[s])
        boundary == CompactBoundary(turns[s], last - first)
    IN  /\ k.pc = "prompt"
        /\ ShouldTriggerStage2(s)
        /\ \E hasB \in BOOLEAN :
               LET front == <<System>> \o (IF hasB THEN <<Memories>> ELSE <<>>)
                                \o RowsOf(first, first + boundary)
                   run == [k EXCEPT !.pc = "compact", !.turnCount = turns[s],
                                    !.first = first, !.last = last,
                                    !.boundary = boundary, !.block = 1,
                                    !.probe = paused, !.out = front]
               IN  call' = [call EXCEPT ![c] =
                              IF MidEnd(run) > MidStart(run) THEN run
                              ELSE Organized(run, front)]
        /\ UNCHANGED <<rows, turns, cursor, paused, failures, ghosts>>

-----------------------------------------------------------------------------
(* _compactZoneCMid() goes on with the next block, or keeps what is left   *)
(* when the compaction is paused by then or its probe has failed.          *)
GoOn(c, out, condensed, stop) ==
    LET k == call[c]
        s == k.session
        here == [k EXCEPT !.condensed = condensed]
    IN  IF stop \/ BlockEnd(k) = MidEnd(k)
        THEN /\ call' = [call EXCEPT ![c] =
                           Organized(here, out \o RowsOf(BlockEnd(k), MidEnd(k)))]
             /\ turns' = [turns EXCEPT ![s] = k.turnCount]
        ELSE /\ call' = [call EXCEPT ![c] =
                           [here EXCEPT !.block = @ + 1, !.attempt = 0,
                                        !.probe = FALSE, !.out = out]]
             /\ UNCHANGED turns

(* parseCompactionVerdict(): an answer that is no verdict, or a compaction *)
(* without a text, keeps the block.                                        *)
Answers == {"keep", "delete", "compact", "compact without text", "no verdict"}

ParseVerdict(answer) ==
    IF answer \in {"delete", "compact"} THEN answer ELSE "keep"

(* How the last three blocks ended, for the record.                        *)
Noted(o) == outcomes' = SubSeq(Append(outcomes, o),
                               Greater(1, Len(outcomes) - 1), Len(outcomes) + 1)

(* The model answers about a block: keep it, delete it, or here is the     *)
(* text to put in its place.  A success clears the count, and the pause    *)
(* only when it ends a probe.                                              *)
BlockAnswered_NoReset(c, verdict) ==
    LET k == call[c]
        from == BlockStart(k)
        to == BlockEnd(k)
        put == CASE verdict = "keep" -> RowsOf(from, to)
                 [] verdict = "delete" -> <<>>
                 [] verdict = "compact" -> <<Summary(from + 1, to)>>
    IN  /\ k.pc = "compact"
        /\ UNCHANGED failures
        /\ paused' = (paused /\ ~k.probe)
        /\ Noted("ok")
        /\ GoOn(c, k.out \o put,
                IF verdict = "keep" THEN k.condensed
                ELSE k.condensed \cup (from + 1 .. to),
                paused')
        /\ UNCHANGED <<rows, cursor, completed, overtaken>>

BlockAnswered(c, verdict) ==
    LET k == call[c]
        from == BlockStart(k)
        to == BlockEnd(k)
        put == CASE verdict = "keep" -> RowsOf(from, to)
                 [] verdict = "delete" -> <<>>
                 [] verdict = "compact" -> <<Summary(from + 1, to)>>
    IN  /\ k.pc = "compact"
        /\ failures' = 0
        /\ paused' = (paused /\ ~k.probe)
        /\ Noted("ok")
        /\ GoOn(c, k.out \o put,
                IF verdict = "keep" THEN k.condensed
                ELSE k.condensed \cup (from + 1 .. to),
                paused')
        /\ UNCHANGED <<rows, cursor, completed, overtaken>>

(* The model fails once: the same block is asked about again.              *)
BlockRetried(c) ==
    /\ call[c].pc = "compact"
    /\ call[c].attempt = 0
    /\ call' = [call EXCEPT ![c].attempt = 1]
    /\ UNCHANGED <<rows, turns, cursor, paused, failures, ghosts>>

(* It fails again: the block stays as it is.  A failed probe counts for    *)
(* nothing and ends the run; of the others the third in a row pauses the   *)
(* compaction.                                                             *)
BlockFailed(c) ==
    LET k == call[c]
    IN  /\ k.pc = "compact"
        /\ k.attempt = 1
        /\ failures' = IF k.probe THEN failures ELSE failures + 1
        /\ paused' = (paused \/ (~k.probe /\ failures' >= PauseAt))
        /\ Noted("failed")
        /\ GoOn(c, k.out \o RowsOf(BlockStart(k), BlockEnd(k)), k.condensed,
                paused' \/ k.probe)
        /\ UNCHANGED <<rows, cursor, completed, overtaken>>

-----------------------------------------------------------------------------
(* Runs of stage 2 on a session.                                           *)
Organizing(s) == {c \in Calls : call[c].session = s /\ call[c].pc = "compact"}

(* Brain.think() returns text and recordTurnAfterBrain() appends the       *)
(* message of the event and the answer, and counts the turn.               *)
TurnCompleted(c) ==
    LET s == call[c].session
    IN  /\ call[c].pc = "think"
        /\ rows' = [rows EXCEPT ![s] = @ + 2]
        /\ turns' = [turns EXCEPT ![s] = @ + 1]
        /\ completed' = [completed EXCEPT ![s] = @ + 1]
        /\ overtaken' = [overtaken EXCEPT ![s] =
                           IF Organizing(s) = {} THEN @ ELSE @ + 1]
        /\ call' = [call EXCEPT ![c] = Blank("done")]
        /\ UNCHANGED <<cursor, paused, failures, outcomes>>

(* It is interrupted or has nothing to say: the message of the event is    *)
(* on record, and no turn is counted.                                      *)
TurnInterrupted_Counted(c) ==
    LET s == call[c].session
    IN  /\ call[c].pc = "think"
        /\ rows' = [rows EXCEPT ![s] = @ + 1]
        /\ turns' = [turns EXCEPT ![s] = @ + 1]
        /\ call' = [call EXCEPT ![c] = Blank("done")]
        /\ UNCHANGED <<cursor, paused, failures, ghosts>>

TurnInterrupted(c) ==
    LET s == call[c].session
    IN  /\ call[c].pc = "think"
        /\ rows' = [rows EXCEPT ![s] = @ + 1]
        /\ call' = [call EXCEPT ![c] = Blank("done")]
        /\ UNCHANGED <<turns, cursor, paused, failures, ghosts>>

(* The Brain answers a tick, in words or not; a tick counts no turn.       *)
TickAnswered(c) ==
    LET s == call[c].session
    IN  /\ call[c].pc = "tickThink"
        /\ \E n \in {0, 1} : rows' = [rows EXCEPT ![s] = @ + n]
        /\ call' = [call EXCEPT ![c] = Blank("done")]
        /\ UNCHANGED <<turns, cursor, paused, failures, ghosts>>

(* The Cerebellum commits a pass of layer 1 over the rows there are        *)
(* (module Cerebellum has the passes that rows overtake).                  *)
Digest(s) ==
    /\ cursor[s] < rows[s]
    /\ cursor' = [cursor EXCEPT ![s] = rows[s]]
    /\ UNCHANGED <<rows, turns, paused, failures, call, ghosts>>

Next ==
    \/ \E c \in Calls, s \in Sessions : ReceiveEvent(c, s) \/ BeginTick(c, s)
    \/ \E c \in Calls :
           \/ AssemblePayload(c)
           \/ OrganizeContext(c)
           \/ \E a \in Answers : BlockAnswered(c, ParseVerdict(a))
           \/ BlockRetried(c)
           \/ BlockFailed(c)
           \/ TurnCompleted(c)
           \/ TurnInterrupted(c)
           \/ TickPayload(c)
           \/ TickAnswered(c)
    \/ \E s \in Sessions : Digest(s)

Spec == Init /\ [][Next]_vars

-----------------------------------------------------------------------------
(* Where a payload stands for rows of the history, and the rows it has     *)
(* word for word.                                                          *)
Shown(out) == {i \in 1 .. Len(out) : out[i].kind \in {"row", "summary"}}
Verbatim(out) == {out[i].from : i \in {j \in 1 .. Len(out) : out[j].kind = "row"}}

LastRows(k) == Greater(0, k.last - X) + 1 .. k.last
Behind(out, p) == {out[i].from : i \in Shown(out) \cap (p + 2 .. Len(out))}

Whole(k) ==
    LET out == k.out
        covered == UNION {out[i].from .. out[i].to : i \in Shown(out)}
    IN  /\ \A i, j \in Shown(out) : i < j => out[i].to < out[j].from
        /\ LastRows(k) \subseteq Verbatim(out)
        /\ 1 .. k.last \subseteq covered \cup k.condensed \cup (1 .. cursor[k.session])
        /\ k.condensed \subseteq MidStart(k) + 1 .. k.last - X
        /\ BpInvariant(k.bps)
        /\ Markers(k.bps) \subseteq 0 .. Len(out) - 1
        /\ k.bps[3] # Null => \A r \in Behind(out, k.bps[3]) : r > MidStart(k)
        /\ k.bps[4] # Null => Behind(out, k.bps[4]) = LastRows(k)

(***************************************************************************)
(* What a payload that reaches the Brain says of the history.  The rows    *)
(* come in order and none twice; the last five are there word for word;    *)
(* a row that is missing has been read by layer 1, or the model had it     *)
(* condensed, and that happens in zone C-mid only.  The breakpoints hold   *)
(* their invariant, mark messages that exist, and bp3 and bp4 stand at the *)
(* end of their zones, whatever the model did to the blocks between.       *)
(***************************************************************************)
PayloadWhole ==
    \A c \in Calls : /\ call[c].pc # "thrown"
                     /\ call[c].pc \in {"think", "tickThink"} => Whole(call[c])

(***************************************************************************)
(* The compaction pauses when the last three blocks failed, whoever asked  *)
(* about them, and resumes when one has succeeded.                         *)
(***************************************************************************)
PauseEarned ==
    [][/\ ~paused /\ paused' => outcomes' = <<"failed", "failed", "failed">>
       /\ paused /\ ~paused' => outcomes'[Len(outcomes')] = "ok"]_vars

(***************************************************************************)
(* turn_count, which stage 2 reads before the compaction and writes back   *)
(* after it, never exceeds the successful inferences, and falls short of   *)
(* them by the turns that ended in the meantime at most.                   *)
(***************************************************************************)
TurnsCounted ==
    \A s \in Sessions :
        /\ turns[s] <= completed[s]
        /\ turns[s] + overtaken[s] >= completed[s]

(***************************************************************************)
(* What the layout of the payload builder promises: zone C-tail holds the  *)
(* latest turns and the message of the event the Brain is to answer.       *)
(***************************************************************************)
UserMessageReachesBrain ==
    \A c \in Calls :
        call[c].pc \in {"think", "tickThink"} =>
            \E i \in 1 .. Len(call[c].out) : call[c].out[i] = User

=============================================================================
