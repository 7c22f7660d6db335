-------------------------- MODULE ContextZonesProofs --------------------------
(***************************************************************************)
(* Theorems about ContextZones, for any sessions, calls and histories: the *)
(* turn count that the compaction writes back, the pause that the calls    *)
(* share, and what a payload has of the history.                           *)
(***************************************************************************)
EXTENDS ContextZones, SequenceTheorems, TLAPS

(* What is known of the locals of the calls.                               *)
Fields == {"pc", "session", "digested", "turnCount", "first", "last", "boundary",
           "block", "attempt", "probe", "out", "bps", "condensed"}

Called ==
    /\ DOMAIN call = Calls
    /\ \A c \in Calls : /\ DOMAIN call[c] = Fields
                        /\ call[c].pc \notin {"idle", "done"} => call[c].session \in Sessions

(* A count n of a session is between what it has completed and that less   *)
(* what overtook the compaction.                                           *)
Between(n, s) == n \in Nat /\ n <= completed[s] /\ n + overtaken[s] >= completed[s]

(* A compaction under way holds a count that is as good as the one in the  *)
(* table.                                                                  *)
CountsHeld ==
    \A c \in Calls : call[c].pc = "compact" => Between(call[c].turnCount, call[c].session)

CountInv ==
    /\ turns \in [Sessions -> Nat]
    /\ completed \in [Sessions -> Nat]
    /\ overtaken \in [Sessions -> Nat]
    /\ Called
    /\ TurnsCounted
    /\ CountsHeld

(* The failure count is never ahead of the failures in a row.              *)
FailuresInARow ==
    \A i \in 1 .. 3 :
        failures >= i => Len(outcomes) >= i /\ outcomes[Len(outcomes) - i + 1] = "failed"

PauseInv ==
    /\ paused \in BOOLEAN
    /\ failures \in Nat
    /\ outcomes \in Seq({"ok", "failed"}) /\ Len(outcomes) <= 3
    /\ FailuresInARow

-----------------------------------------------------------------------------
\* A call without anything in it has all fields.
LEMMA BlankFields ==
    ASSUME NEW pc
    PROVE  /\ DOMAIN Blank(pc) = Fields
           /\ Blank(pc).pc = pc
  BY DEF Blank, Fields

(* Organized() keeps the session and the count of a call and ends its run. *)
LEMMA OrganizedKeeps ==
    ASSUME NEW k, DOMAIN k = Fields, NEW out
    PROVE  /\ DOMAIN Organized(k, out) = Fields
           /\ Organized(k, out).pc \in {"think", "thrown"}
           /\ Organized(k, out).session = k.session
  BY DEF Organized, Fields

(* The step of one call to locals with a session of its own that are in no *)
(* compaction.                                                             *)
LEMMA OneCall ==
    ASSUME CountInv, NEW c \in Calls, NEW k,
           call' = [call EXCEPT ![c] = k],
           DOMAIN k = Fields,
           k.pc \notin {"idle", "done"} => k.session \in Sessions
    PROVE  Called'
  BY DEF CountInv, Called

\* A step of a call that is not in its compaction leaves the count alone.
LEMMA Elsewhere ==
    ASSUME CountInv, NEW c \in Calls, NEW k,
           call' = [call EXCEPT ![c] = k],
           DOMAIN k = Fields,
           k.pc \notin {"idle", "done"} => k.session \in Sessions,
           k.pc # "compact",
           UNCHANGED <<turns, completed, overtaken>>
    PROVE  CountInv'
<1>1. Called'
  BY OneCall
<1>2. CountsHeld'
  BY DEF CountInv, Called, CountsHeld, Between
<1> QED BY <1>1, <1>2 DEF CountInv, TurnsCounted

(* The end of a block: the next one, or the end of the run.                *)
LEMMA GoOnKeeps ==
    ASSUME CountInv, NEW c \in Calls, NEW out, NEW condensed, NEW stop,
           call[c].pc = "compact",
           GoOn(c, out, condensed, stop),
           UNCHANGED <<completed, overtaken>>
    PROVE  CountInv'
<1> DEFINE k == call[c]
           here == [k EXCEPT !.condensed = condensed]
<1>1. /\ DOMAIN k = Fields /\ k.session \in Sessions
      /\ Between(k.turnCount, k.session)
  BY DEF CountInv, Called, CountsHeld
<1>2. DOMAIN here = Fields /\ here.session = k.session /\ here.turnCount = k.turnCount
  BY <1>1 DEF Fields
<1>3. CASE \E rest : /\ call' = [call EXCEPT ![c] = Organized(here, rest)]
                     /\ turns' = [turns EXCEPT ![k.session] = k.turnCount]
  <2>1. PICK rest : /\ call' = [call EXCEPT ![c] = Organized(here, rest)]
                    /\ turns' = [turns EXCEPT ![k.session] = k.turnCount]
    BY <1>3
  <2> DEFINE end == Organized(here, rest)
  <2>2. /\ DOMAIN end = Fields /\ end.pc \in {"think", "thrown"}
        /\ end.session \in Sessions
    BY <1>1, <1>2, OrganizedKeeps
  <2> HIDE DEF end
  <2>3. Called'
    BY <2>1, <2>2, OneCall DEF end
  <2>4. turns' \in [Sessions -> Nat] /\ TurnsCounted'
    BY <1>1, <2>1 DEF CountInv, TurnsCounted, Between
  <2>5. CountsHeld'
    BY <2>1, <2>2 DEF end, CountInv, Called, CountsHeld, Between
  <2> QED BY <2>3, <2>4, <2>5 DEF CountInv
<1>4. CASE /\ call' = [call EXCEPT ![c] = [here EXCEPT !.block = @ + 1, !.attempt = 0,
                                                       !.probe = FALSE, !.out = out]]
           /\ UNCHANGED turns
  <2> DEFINE next == [here EXCEPT !.block = @ + 1, !.attempt = 0,
                                  !.probe = FALSE, !.out = out]
  <2>1. /\ DOMAIN next = Fields /\ next.session = k.session
        /\ next.turnCount = k.turnCount
    BY <1>2 DEF Fields
  <2> HIDE DEF next
  <2>2. Called'
    BY <1>1, <1>4, <2>1, OneCall DEF next
  <2>3. CountsHeld'
    BY <1>1, <1>4, <2>1 DEF next, CountInv, Called, CountsHeld, Between
  <2> QED BY <1>4, <2>2, <2>3 DEF CountInv, TurnsCounted
<1> QED BY <1>3, <1>4 DEF GoOn

-----------------------------------------------------------------------------
\* Initially no call runs and nothing has overtaken anything.
LEMMA CountInit == Init => CountInv
<1> SUFFICES ASSUME Init PROVE CountInv
  OBVIOUS
<1>1. PICK r \in [Sessions -> Restored] : turns = [s \in Sessions |-> r[s].turns]
  BY DEF Init
<1>2. \A s \in Sessions : r[s].turns \in Nat
  BY RestoredAssumption
<1>3. turns \in [Sessions -> Nat] /\ completed = turns
  BY <1>1, <1>2 DEF Init
<1>4. Called /\ CountsHeld
  BY BlankFields DEF Init, Called, CountsHeld
<1> QED BY <1>3, <1>4 DEF Init, CountInv, TurnsCounted

(* A call begins, or a payload is assembled that needs no organisation.    *)
LEMMA PayloadSteps ==
    ASSUME CountInv, NEW c \in Calls,
           \/ \E s \in Sessions : ReceiveEvent(c, s) \/ BeginTick(c, s)
           \/ TickPayload(c) \/ AssemblePayload(c)
    PROVE  CountInv'
<1>1. DOMAIN call[c] = Fields
  BY DEF CountInv, Called
<1>2. ASSUME NEW s \in Sessions, ReceiveEvent(c, s) PROVE CountInv'
  <2> DEFINE k == [Blank("prompt") EXCEPT !.session = s, !.digested = cursor[s]]
  <2>1. DOMAIN k = Fields /\ k.pc = "prompt" /\ k.session = s
    BY BlankFields DEF Fields
  <2> HIDE DEF k
  <2> QED BY <1>2, <2>1, Elsewhere DEF k, ReceiveEvent, ghosts
<1>3. ASSUME NEW s \in Sessions, BeginTick(c, s) PROVE CountInv'
  <2> DEFINE k == [Blank("tickPrompt") EXCEPT !.session = s, !.digested = cursor[s]]
  <2>1. DOMAIN k = Fields /\ k.pc = "tickPrompt" /\ k.session = s
    BY BlankFields DEF Fields
  <2> HIDE DEF k
  <2> QED BY <1>3, <2>1, Elsewhere DEF k, BeginTick, ghosts
<1>4. CASE TickPayload(c)
  <2> DEFINE last == rows[call[c].session]
             first == ReadStart(last, call[c].digested)
             k == [call[c] EXCEPT !.pc = "tickThink", !.first = first, !.last = last,
                                  !.out = EventPayload(FALSE, first, last, FALSE),
                                  !.bps = <<0, Null, Null, Null>>]
  <2>1. DOMAIN k = Fields /\ k.pc = "tickThink" /\ k.session = call[c].session
    BY <1>1 DEF Fields
  <2>2. /\ call[c].session \in Sessions
        /\ call' = [call EXCEPT ![c] = k]
        /\ UNCHANGED <<turns, completed, overtaken>>
    BY <1>4 DEF TickPayload, ghosts, CountInv, Called
  <2> HIDE DEF k
  <2> QED BY <2>1, <2>2, Elsewhere
<1>5. CASE AssemblePayload(c)
  <2> DEFINE last == rows[call[c].session]
             first == ReadStart(last, call[c].digested)
             k(hasB, hasChat) ==
                 [call[c] EXCEPT !.pc = "think", !.first = first, !.last = last,
                                 !.out = EventPayload(hasB, first, last, hasChat),
                                 !.bps = <<0, IF hasB THEN 1 ELSE Null, Null, Null>>]
  <2>1. PICK hasB \in BOOLEAN, hasChat \in BOOLEAN :
           call' = [call EXCEPT ![c] = k(hasB, hasChat)]
    BY <1>5 DEF AssemblePayload
  <2>2. /\ DOMAIN k(hasB, hasChat) = Fields
        /\ k(hasB, hasChat).pc = "think"
        /\ k(hasB, hasChat).session = call[c].session
    BY <1>1 DEF Fields
  <2>3. /\ call[c].session \in Sessions
        /\ UNCHANGED <<turns, completed, overtaken>>
    BY <1>5 DEF AssemblePayload, ghosts, CountInv, Called
  <2> HIDE DEF k
  <2> QED BY <2>1, <2>2, <2>3, Elsewhere
<1> QED BY <1>2, <1>3, <1>4, <1>5

(* Stage 2 takes the count that is in the table.                           *)
LEMMA OrganizeStep ==
    ASSUME CountInv, NEW c \in Calls, OrganizeContext(c)
    PROVE  CountInv'
<1> DEFINE s == call[c].session
           last == rows[s]
           first == ReadStart(last, cursor[s])
           boundary == CompactBoundary(turns[s], last - first)
           front(hasB) == <<System>> \o (IF hasB THEN <<Memories>> ELSE <<>>)
                              \o RowsOf(first, first + boundary)
           run(hasB) == [call[c] EXCEPT !.pc = "compact", !.turnCount = turns[s],
                           !.first = first, !.last = last,
                           !.boundary = boundary, !.block = 1,
                           !.probe = paused, !.out = front(hasB)]
<1>1. PICK hasB \in BOOLEAN :
         call' = [call EXCEPT ![c] =
                    IF MidEnd(run(hasB)) > MidStart(run(hasB)) THEN run(hasB)
                    ELSE Organized(run(hasB), front(hasB))]
  BY DEF OrganizeContext
<1>2. /\ call[c].pc = "prompt" /\ s \in Sessions /\ DOMAIN call[c] = Fields
      /\ UNCHANGED <<turns, completed, overtaken>>
  BY DEF OrganizeContext, ghosts, CountInv, Called
<1> DEFINE k == run(hasB)
<1>3. /\ DOMAIN k = Fields /\ k.pc = "compact" /\ k.session = s
      /\ k.turnCount = turns[s]
  BY <1>2 DEF Fields
<1> DEFINE out == front(hasB)
<1> HIDE DEF k, out, s
<1>4. CASE call' = [call EXCEPT ![c] = Organized(k, out)]
  <2> DEFINE end == Organized(k, out)
  <2>1. DOMAIN end = Fields /\ end.pc \in {"think", "thrown"} /\ end.session = s
    BY <1>3, OrganizedKeeps
  <2> HIDE DEF end
  <2> QED BY <1>2, <1>4, <2>1, Elsewhere DEF end
<1>5. CASE call' = [call EXCEPT ![c] = k]
  <2>1. Called'
    BY <1>2, <1>3, <1>5, OneCall
  <2>2. CountsHeld'
    BY <1>2, <1>3, <1>5 DEF CountInv, Called, TurnsCounted, CountsHeld, Between
  <2> QED BY <1>2, <2>1, <2>2 DEF CountInv, TurnsCounted
<1> QED BY <1>1, <1>4, <1>5 DEF k, out, s

(* A turn that completes overtakes the compactions of its session.         *)
LEMMA TurnSteps ==
    ASSUME CountInv, NEW c \in Calls,
           TurnCompleted(c) \/ TurnInterrupted(c) \/ TickAnswered(c)
    PROVE  CountInv'
<1>1. DOMAIN Blank("done") = Fields /\ Blank("done").pc = "done"
  BY BlankFields
<1>2. CASE TurnInterrupted(c) \/ TickAnswered(c)
  BY <1>1, <1>2, Elsewhere DEF TurnInterrupted, TickAnswered, ghosts
<1>3. CASE TurnCompleted(c)
  <2> DEFINE s == call[c].session
  <2>1. /\ s \in Sessions
        /\ call' = [call EXCEPT ![c] = Blank("done")]
        /\ turns' = [turns EXCEPT ![s] = @ + 1]
        /\ completed' = [completed EXCEPT ![s] = @ + 1]
        /\ overtaken' = [overtaken EXCEPT ![s] = IF Organizing(s) = {} THEN @ ELSE @ + 1]
    BY <1>3 DEF TurnCompleted, CountInv, Called
  <2> HIDE DEF s
  <2>2. Called'
    BY <1>1, <2>1, OneCall
  <2>3. /\ turns' \in [Sessions -> Nat]
        /\ completed' \in [Sessions -> Nat]
        /\ overtaken' \in [Sessions -> Nat]
    BY <2>1 DEF CountInv
  <2>4. TurnsCounted'
    BY <2>1 DEF CountInv, TurnsCounted
  <2>5. CountsHeld'
    <3> SUFFICES ASSUME NEW d \in Calls, call'[d].pc = "compact"
                 PROVE  Between(call[d].turnCount, call[d].session)'
      BY DEF CountsHeld
    <3>1. /\ call'[d] = call[d] /\ call[d].session \in Sessions
          /\ Between(call[d].turnCount, call[d].session)
      BY <1>1, <2>1 DEF CountInv, Called, CountsHeld
    <3>2. call[d].session = s => overtaken'[s] = overtaken[s] + 1
      BY <2>1, <3>1 DEF Organizing, CountInv
    <3> QED BY <2>1, <3>1, <3>2 DEF Between, CountInv
  <2> QED BY <2>2, <2>3, <2>4, <2>5 DEF CountInv
<1> QED BY <1>2, <1>3

\* No step loses count of the turns.
LEMMA CountNext == CountInv /\ [Next]_vars => CountInv'
<1> SUFFICES ASSUME CountInv, [Next]_vars PROVE CountInv'
  OBVIOUS
<1>1. ASSUME NEW c \in Calls,
             \/ \E a \in Answers : BlockAnswered(c, ParseVerdict(a))
             \/ BlockFailed(c)
      PROVE  CountInv'
  <2>1. \E out, condensed, stop : GoOn(c, out, condensed, stop)
    BY <1>1 DEF BlockAnswered, BlockFailed
  <2>2. call[c].pc = "compact" /\ UNCHANGED <<completed, overtaken>>
    BY <1>1 DEF BlockAnswered, BlockFailed
  <2> QED BY <2>1, <2>2, GoOnKeeps
<1>2. ASSUME NEW c \in Calls, BlockRetried(c) PROVE CountInv'
  BY <1>2 DEF BlockRetried, ghosts, CountInv, Called, Fields, TurnsCounted, CountsHeld, Between
<1>3. CASE \E s \in Sessions : Digest(s)
  BY <1>3 DEF Digest, ghosts, CountInv, Called, TurnsCounted, CountsHeld, Between
<1>4. CASE UNCHANGED vars
  BY <1>4 DEF vars, ghosts, CountInv, Called, TurnsCounted, CountsHeld, Between
<1> QED BY <1>1, <1>2, <1>3, <1>4, PayloadSteps, OrganizeStep, TurnSteps DEF Next

-----------------------------------------------------------------------------
\* Three is the next one or the last.
LEMMA UpToThree == ASSUME NEW n \in Nat, n <= 3 PROVE n \in 0 .. 3 /\ (n < 3 \/ n = 3)
  OBVIOUS

(* The record of the last three outcomes, when another one comes.          *)
LEMMA NotedShifts ==
    ASSUME NEW o \in {"ok", "failed"}, Noted(o),
           outcomes \in Seq({"ok", "failed"}), Len(outcomes) <= 3
    PROVE  /\ outcomes' \in Seq({"ok", "failed"})
           /\ Len(outcomes') = IF Len(outcomes) < 3 THEN Len(outcomes) + 1 ELSE 3
           /\ outcomes'[Len(outcomes')] = o
           /\ \A i \in 1 .. 2 : Len(outcomes) >= i =>
                 outcomes'[Len(outcomes') - i] = outcomes[Len(outcomes) - i + 1]
<1> DEFINE n == Len(outcomes)
           whole == Append(outcomes, o)
<1>1. /\ n \in 0 .. 3 /\ whole \in Seq({"ok", "failed"}) /\ Len(whole) = n + 1
      /\ whole[n + 1] = o /\ \A j \in 1 .. n : whole[j] = outcomes[j]
  <2>1. n \in Nat
    BY LenProperties
  <2>2. n \in 0 .. 3
    BY <2>1, UpToThree
  <2> QED BY <2>2, AppendProperties
<1>2. CASE n < 3
  <2>1. outcomes' = SubSeq(whole, 1, n + 1)
    <3>1. Greater(1, n - 1) = 1
      BY <1>1, <1>2 DEF Greater
    <3> QED BY <3>1 DEF Noted
  <2>2. /\ outcomes' \in Seq({"ok", "failed"}) /\ Len(outcomes') = n + 1
        /\ \A j \in 1 .. n + 1 : outcomes'[j] = whole[j]
    BY <1>1, <2>1
  <2> QED BY <1>1, <1>2, <2>2
<1>3. CASE n = 3
  <2>1. outcomes' = SubSeq(whole, 2, 4)
    BY <1>1, <1>3 DEF Noted, Greater
  <2>2. /\ outcomes' \in Seq({"ok", "failed"}) /\ Len(outcomes') = 3
        /\ \A j \in 1 .. 3 : outcomes'[j] = whole[j + 1]
    BY <1>1, <1>3, <2>1
  <2> QED BY <1>1, <1>3, <2>2
<1>4. n < 3 \/ n = 3
  BY LenProperties, UpToThree
<1> QED BY <1>2, <1>3, <1>4, Zenon

\* Initially nothing is paused and there are no outcomes.
LEMMA PauseInit == Init => PauseInv
<1> SUFFICES ASSUME Init PROVE PauseInv
  OBVIOUS
<1>1. outcomes = <<>> /\ failures = 0 /\ paused = FALSE
  BY DEF Init
<1>2. outcomes \in Seq({"ok", "failed"}) /\ Len(outcomes) = 0
  BY <1>1, EmptySeq
<1>3. FailuresInARow
  BY <1>1 DEF FailuresInARow
<1>4. paused \in BOOLEAN
  BY <1>1
<1> QED BY <1>1, <1>2, <1>3, <1>4 DEF PauseInv

(* A success clears the count.                                             *)
LEMMA AnsweredKeeps ==
    ASSUME PauseInv, NEW c \in Calls, NEW verdict, BlockAnswered(c, verdict)
    PROVE  /\ PauseInv'
           /\ outcomes'[Len(outcomes')] = "ok"
           /\ paused' => paused
<1>1. /\ Noted("ok") /\ failures' = 0
      /\ paused' \in BOOLEAN /\ (paused' => paused)
  BY DEF BlockAnswered, PauseInv
<1> QED BY <1>1, NotedShifts DEF PauseInv, FailuresInARow

(* A failure adds one to the row, whether it is counted or not.            *)
LEMMA FailedKeeps ==
    ASSUME PauseInv, NEW c \in Calls, BlockFailed(c)
    PROVE  /\ PauseInv'
           /\ paused => paused'
           /\ ~paused /\ paused' => outcomes' = <<"failed", "failed", "failed">>
<1>1. /\ Noted("failed")
      /\ failures' \in {failures, failures + 1}
      /\ paused' \in BOOLEAN /\ (paused => paused')
      /\ ~paused /\ paused' => failures' >= 3
  BY DEF BlockFailed, PauseInv, PauseAt
<1>2. /\ outcomes' \in Seq({"ok", "failed"}) /\ Len(outcomes') <= 3
      /\ Len(outcomes') = IF Len(outcomes) < 3 THEN Len(outcomes) + 1 ELSE 3
      /\ outcomes'[Len(outcomes')] = "failed"
      /\ \A i \in 1 .. 2 : Len(outcomes) >= i =>
            outcomes'[Len(outcomes') - i] = outcomes[Len(outcomes) - i + 1]
  BY <1>1, NotedShifts DEF PauseInv
<1>3. FailuresInARow'
  <2> SUFFICES ASSUME NEW i \in 1 .. 3, failures' >= i
               PROVE  Len(outcomes') >= i /\ outcomes'[Len(outcomes') - i + 1] = "failed"
    BY DEF FailuresInARow
  <2>1. CASE i = 1
    BY <1>2, <2>1 DEF PauseInv
  <2>2. CASE i \in 2 .. 3
    <3>1. i - 1 \in 1 .. 3 /\ failures >= i - 1
      BY <1>1, <2>2 DEF PauseInv
    <3>2. Len(outcomes) >= i - 1 /\ outcomes[Len(outcomes) - (i - 1) + 1] = "failed"
      BY <3>1 DEF PauseInv, FailuresInARow
    <3>3. outcomes'[Len(outcomes') - (i - 1)] = "failed"
      BY <1>2, <2>2, <3>2
    <3> QED BY <1>2, <2>2, <3>2, <3>3 DEF PauseInv
  <2> QED BY <2>1, <2>2
<1>4. PauseInv'
  BY <1>1, <1>2, <1>3 DEF PauseInv
<1>5. ASSUME failures' >= 3 PROVE outcomes' = <<"failed", "failed", "failed">>
  <2>1. \A i \in 1 .. 3 :
           Len(outcomes') >= i /\ outcomes'[Len(outcomes') - i + 1] = "failed"
    BY <1>1, <1>3, <1>5 DEF FailuresInARow, PauseInv
  <2>2. Len(outcomes') = 3
    BY <1>2, <2>1
  <2>3. outcomes'[3] = "failed" /\ outcomes'[2] = "failed" /\ outcomes'[1] = "failed"
    BY <2>1, <2>2
  <2> QED BY <1>2, <2>2, <2>3
<1> QED BY <1>1, <1>4, <1>5

(* The pause changes as the property PauseEarned says.                     *)
PauseStep ==
    /\ ~paused /\ paused' => outcomes' = <<"failed", "failed", "failed">>
    /\ paused /\ ~paused' => outcomes'[Len(outcomes')] = "ok"

\* The failure count keeps behind the failures in a row, and a pause needs three.
LEMMA PauseNext == PauseInv /\ [Next]_vars => PauseInv' /\ PauseStep
<1> SUFFICES ASSUME PauseInv, [Next]_vars PROVE PauseInv' /\ PauseStep
  OBVIOUS
<1>1. CASE UNCHANGED <<paused, failures, outcomes>>
  BY <1>1 DEF PauseInv, FailuresInARow, PauseStep
<1>2. ASSUME NEW c \in Calls, NEW a \in Answers, BlockAnswered(c, ParseVerdict(a))
      PROVE  PauseInv' /\ PauseStep
  BY <1>2, AnsweredKeeps DEF PauseStep
<1>3. ASSUME NEW c \in Calls, BlockFailed(c)
      PROVE  PauseInv' /\ PauseStep
  BY <1>3, FailedKeeps DEF PauseStep
<1>4. ASSUME NEW c \in Calls,
             \/ \E s \in Sessions : ReceiveEvent(c, s) \/ BeginTick(c, s)
             \/ AssemblePayload(c) \/ OrganizeContext(c) \/ BlockRetried(c)
             \/ TurnCompleted(c) \/ TurnInterrupted(c) \/ TickPayload(c)
             \/ TickAnswered(c)
      PROVE  UNCHANGED <<paused, failures, outcomes>>
  BY <1>4 DEF ReceiveEvent, BeginTick, AssemblePayload, OrganizeContext, BlockRetried,
              TurnCompleted, TurnInterrupted, TickPayload, TickAnswered, ghosts
<1>5. ASSUME NEW s \in Sessions, Digest(s)
      PROVE  UNCHANGED <<paused, failures, outcomes>>
  BY <1>5 DEF Digest, ghosts
<1>6. CASE UNCHANGED vars
  BY <1>1, <1>6 DEF vars, ghosts
<1> QED BY <1>1, <1>2, <1>3, <1>4, <1>5, <1>6 DEF Next

-----------------------------------------------------------------------------
(* The messages of a payload, and those that stand for rows.               *)
Messages == [kind : {"system", "memories", "chat", "user", "row", "summary"},
             from : Nat, to : Nat]
Rows == {"row", "summary"}

(* The messages out stand for the rows a + 1 .. b, but for some that are   *)
(* condensed.                                                              *)
Laid(out, a, b, condensed) ==
    /\ out \in Seq(Messages)
    /\ \A i \in 1 .. Len(out) : out[i].kind \in Rows =>
          /\ a < out[i].from /\ out[i].from <= out[i].to /\ out[i].to <= b
          /\ out[i].kind = "row" => out[i].from = out[i].to
    /\ \A i, j \in 1 .. Len(out) :
          i < j /\ out[i].kind \in Rows /\ out[j].kind \in Rows => out[i].to < out[j].from
    /\ \A r \in a + 1 .. b :
          r \in condensed \/ \E i \in 1 .. Len(out) :
                                out[i].kind \in Rows /\ r \in out[i].from .. out[i].to

(* One after the other, by position.                                       *)
LEMMA Catenation ==
    ASSUME NEW u \in Seq(Messages), NEW v \in Seq(Messages), NEW w, w = u \o v
    PROVE  /\ w \in Seq(Messages) /\ Len(u) \in Nat /\ Len(v) \in Nat
           /\ Len(w) = Len(u) + Len(v)
           /\ \A i \in 1 .. Len(u) : i \in 1 .. Len(w) /\ w[i] = u[i]
           /\ \A i \in 1 .. Len(v) : Len(u) + i \in 1 .. Len(w) /\ w[Len(u) + i] = v[i]
           /\ \A i \in 1 .. Len(w) : i > Len(u) =>
                 i - Len(u) \in 1 .. Len(v) /\ w[i] = v[i - Len(u)]
  BY ConcatProperties, LenProperties

\* Two stretches of messages that follow one another are a stretch.
LEMMA Joined ==
    ASSUME NEW a \in Nat, NEW b \in Nat, NEW d \in Nat, a <= b, b <= d,
           NEW C, NEW D, NEW out, NEW more,
           Laid(out, a, b, C), Laid(more, b, d, D)
    PROVE  Laid(out \o more, a, d, C \cup D)
<1> DEFINE all == out \o more
<1>1. /\ out \in Seq(Messages) /\ more \in Seq(Messages)
      /\ Len(out) \in Nat /\ Len(more) \in Nat
      /\ all \in Seq(Messages) /\ Len(all) = Len(out) + Len(more)
      /\ \A i \in 1 .. Len(out) : all[i] = out[i]
      /\ \A i \in 1 .. Len(more) : all[Len(out) + i] = more[i]
      /\ \A i \in 1 .. Len(all) : i \notin 1 .. Len(out) =>
            i - Len(out) \in 1 .. Len(more) /\ all[i] = more[i - Len(out)]
  BY DEF Laid
<1>2. /\ \A i \in 1 .. Len(out) : out[i] \in Messages
      /\ \A i \in 1 .. Len(more) : more[i] \in Messages
  BY <1>1
<1> HIDE DEF all
<1>3. ASSUME NEW i \in 1 .. Len(all), all[i].kind \in Rows
      PROVE  /\ a < all[i].from /\ all[i].from <= all[i].to /\ all[i].to <= d
             /\ all[i].kind = "row" => all[i].from = all[i].to
             /\ i \in 1 .. Len(out) => all[i].to <= b
             /\ i \notin 1 .. Len(out) => b < all[i].from
  <2>1. CASE i \in 1 .. Len(out)
    <3>1. all[i] = out[i] /\ out[i] \in Messages
      BY <1>1, <1>2, <2>1
    <3> QED BY <1>3, <2>1, <3>1 DEF Laid, Messages
  <2>2. CASE i \notin 1 .. Len(out)
    <3> DEFINE j == i - Len(out)
    <3>1. j \in 1 .. Len(more) /\ all[i] = more[j]
      BY <1>1, <2>2
    <3> QED BY <1>2, <1>3, <2>2, <3>1 DEF Laid, Messages
  <2> QED BY <2>1, <2>2
<1>4. ASSUME NEW i \in 1 .. Len(all), NEW j \in 1 .. Len(all), i < j,
             all[i].kind \in Rows, all[j].kind \in Rows
      PROVE  all[i].to < all[j].from
  <2>1. CASE j \in 1 .. Len(out)
    <3>1. i \in 1 .. Len(out) /\ all[i] = out[i] /\ all[j] = out[j]
      BY <1>1, <1>4, <2>1
    <3> QED BY <1>4, <2>1, <3>1 DEF Laid
  <2>2. CASE i \notin 1 .. Len(out)
    <3> DEFINE u == i - Len(out)
               v == j - Len(out)
    <3>1. j \notin 1 .. Len(out) /\ u < v
      BY <1>1, <1>4, <2>2
    <3>2. /\ u \in 1 .. Len(more) /\ all[i] = more[u]
          /\ v \in 1 .. Len(more) /\ all[j] = more[v]
      BY <1>1, <2>2, <3>1
    <3> HIDE DEF u, v
    <3> QED BY <1>4, <3>1, <3>2 DEF Laid
  <2>3. CASE i \in 1 .. Len(out) /\ j \notin 1 .. Len(out)
    <3>1. all[i] \in Messages /\ all[j] \in Messages
      BY <1>1
    <3> QED BY <1>3, <1>4, <2>3, <3>1 DEF Messages
  <2> QED BY <2>1, <2>2, <2>3, <1>1
<1>5. ASSUME NEW r \in a + 1 .. d, r \notin C \cup D
      PROVE  \E i \in 1 .. Len(all) : all[i].kind \in Rows /\ r \in all[i].from .. all[i].to
  <2>1. CASE r <= b
    <3>1. PICK i \in 1 .. Len(out) : out[i].kind \in Rows /\ r \in out[i].from .. out[i].to
      BY <1>5, <2>1 DEF Laid
    <3> QED BY <1>1, <3>1
  <2>2. CASE b < r
    <3>1. PICK i \in 1 .. Len(more) : more[i].kind \in Rows /\ r \in more[i].from .. more[i].to
      BY <1>5, <2>2 DEF Laid
    <3>2. Len(out) + i \in 1 .. Len(all)
      BY <1>1
    <3> QED BY <1>1, <3>1, <3>2
  <2> QED BY <2>1, <2>2
<1> QED BY <1>1, <1>3, <1>4, <1>5 DEF Laid, all

\* No message at all: all of a stretch is condensed.
LEMMA NothingLaid ==
    ASSUME NEW a \in Nat, NEW b \in Nat
    PROVE  Laid(<<>>, a, b, a + 1 .. b)
  BY DEF Laid

\* A message that is not a row takes no place in the history.
LEMMA OneLaid ==
    ASSUME NEW a \in Nat, NEW m \in {System, Memories, Chat, User}
    PROVE  Laid(<<m>>, a, a, {}) /\ m.kind \notin Rows
  BY DEF Laid, System, Memories, Chat, User, Message, Messages, Rows

\* A summary takes the place of the rows it was made from.
LEMMA SummaryLaid ==
    ASSUME NEW a \in Nat, NEW b \in Nat, a < b
    PROVE  Laid(<<Summary(a + 1, b)>>, a, b, {})
  BY DEF Laid, Summary, Message, Messages, Rows

\* The rows of a stretch are all of it, in order.
LEMMA RowsLaid ==
    ASSUME NEW a \in Nat, NEW b \in Nat, a <= b
    PROVE  /\ Laid(RowsOf(a, b), a, b, {})
           /\ Len(RowsOf(a, b)) = b - a
           /\ \A i \in 1 .. b - a : RowsOf(a, b)[i] = Message("row", a + i, a + i)
<1> DEFINE out == RowsOf(a, b)
<1>1. /\ out = [i \in 1 .. b - a |-> Message("row", a + i, a + i)]
      /\ b - a \in Nat
  BY DEF RowsOf, Greater
<1>2. \A i \in 1 .. b - a : Message("row", a + i, a + i) \in Messages
  BY DEF Message, Messages
<1>3. out \in Seq(Messages) /\ Len(out) = b - a
  BY <1>1, <1>2
<1>4. \A i \in 1 .. b - a : /\ out[i] = Message("row", a + i, a + i)
                            /\ out[i].kind = "row" /\ out[i].from = a + i /\ out[i].to = a + i
  BY <1>1 DEF Message
<1> HIDE DEF out
<1>5. \A r \in a + 1 .. b : r - a \in 1 .. b - a /\ r \in a + (r - a) .. a + (r - a)
  OBVIOUS
<1>6. \A r \in a + 1 .. b : \E i \in 1 .. Len(out) :
                                out[i].kind \in Rows /\ r \in out[i].from .. out[i].to
  BY <1>3, <1>4, <1>5 DEF Rows
<1>7. Laid(out, a, b, {})
  <2>1. \A i \in 1 .. Len(out) :
           /\ out[i].kind = "row" /\ out[i].from = a + i /\ out[i].to = a + i
           /\ a < a + i /\ a + i <= b
    BY <1>3, <1>4
  <2>2. \A i, j \in 1 .. Len(out) : i < j => out[i].to < out[j].from
    BY <1>3, <2>1
  <2>3. \A i \in 1 .. Len(out) : out[i].kind \in Rows =>
           /\ a < out[i].from /\ out[i].from <= out[i].to /\ out[i].to <= b
           /\ out[i].kind = "row" => out[i].from = out[i].to
    BY <1>3, <2>1
  <2>4. \A r \in a + 1 .. b :
           r \in {} \/ \E i \in 1 .. Len(out) :
                         out[i].kind \in Rows /\ r \in out[i].from .. out[i].to
    BY <1>6
  <2> QED BY <1>3, <2>2, <2>3, <2>4, Zenon DEF Laid
<1> QED BY <1>3, <1>4, <1>7 DEF out

-----------------------------------------------------------------------------
\* What is read starts in the last K rows and no later than what is digested.
LEMMA WindowBounds ==
    ASSUME NEW length \in Nat, NEW digested \in Nat
    PROVE  /\ ReadStart(length, digested) \in Nat
           /\ ReadStart(length, digested) <= digested
           /\ ReadStart(length, digested) <= Greater(0, length - K)
  BY DEF ReadStart, Lesser, Greater, K

\* The oldest rows are compacted up to the last X of them.
LEMMA FrontBounds ==
    ASSUME NEW turnCount, NEW total \in Nat
    PROVE  /\ CompactBoundary(turnCount, total) \in Nat
           /\ CompactBoundary(turnCount, total) <= Greater(0, total - X)
<1>1. Greater(0, total - X) \div Y \in Nat
  BY DEF Greater, X, Y
<1>2. BlocksToAnalyze(turnCount, total) \in Nat
  BY <1>1 DEF BlocksToAnalyze, Lesser
<1> QED BY <1>2 DEF CompactBoundary, Greater, X, Y

(* Where the zones of a call lie.                                          *)
Zoned(k) ==
    /\ k.first \in Nat /\ k.last \in Nat /\ k.boundary \in Nat
    /\ k.first <= Greater(0, k.last - K)
    /\ k.boundary <= Greater(0, k.last - k.first - X)

\* The zones follow one another within what was read.
LEMMA ZoneEnds ==
    ASSUME NEW k, Zoned(k)
    PROVE  /\ MidStart(k) \in Nat /\ MidEnd(k) \in Nat
           /\ k.first <= MidStart(k)
           /\ MidStart(k) = k.first + k.boundary
           /\ MidStart(k) <= MidEnd(k) /\ MidEnd(k) <= k.last
           /\ MidEnd(k) = Greater(k.first, k.last - X)
           /\ MidEnd(k) = Greater(0, k.last - X)
           /\ MidStart(k) < MidEnd(k) => MidEnd(k) = k.last - X
  BY DEF Zoned, MidStart, MidEnd, Greater, X, K

\* A block of the middle zone is not empty and ends within the zone.
LEMMA BlockBounds ==
    ASSUME NEW k, Zoned(k), k.block \in Nat \ {0}, BlockStart(k) < MidEnd(k)
    PROVE  /\ BlockStart(k) \in Nat /\ MidStart(k) <= BlockStart(k)
           /\ BlockEnd(k) \in Nat /\ BlockStart(k) < BlockEnd(k)
           /\ BlockEnd(k) <= MidEnd(k)
           /\ BlockEnd(k) # MidEnd(k) => BlockEnd(k) = MidStart(k) + k.block * Y
<1>1. MidStart(k) \in Nat /\ MidEnd(k) \in Nat
  BY ZoneEnds
<1>2. BlockStart(k) = MidStart(k) + (k.block - 1) * 5
  BY DEF BlockStart, Y
<1>3. k.block * 5 = (k.block - 1) * 5 + 5
  OBVIOUS
<1> QED BY <1>1, <1>2, <1>3 DEF BlockEnd, Lesser, Y

-----------------------------------------------------------------------------
(* The front of a payload that has been organised, with zone B or without. *)
ZoneBs == {<<>>, <<Memories>>}

Front(zoneB, a, b) == <<System>> \o zoneB \o RowsOf(a, b)

OnlyRows(out) == \A i \in 1 .. Len(out) : out[i].kind \in Rows

\* The messages of different kinds differ.
LEMMA KindsApart ==
    /\ System.kind = "system" /\ Memories.kind = "memories"
    /\ Chat.kind = "chat" /\ User.kind = "user"
    /\ \A kind, from, to : /\ Message(kind, from, to).kind = kind
                           /\ Message(kind, from, to).from = from
                           /\ Message(kind, from, to).to = to
  BY DEF System, Memories, Chat, User, Message

\* Zone B has a message or none, and no rows.
LEMMA ZoneBLaid ==
    ASSUME NEW zoneB \in ZoneBs, NEW a \in Nat
    PROVE  /\ Len(zoneB) \in {0, 1} /\ zoneB \in Seq(Messages)
           /\ Laid(zoneB, a, a, {})
           /\ Len(zoneB) = 1 => zoneB[1] = Memories
<1>1. Laid(<<Memories>>, a, a, {})
  BY OneLaid
<1>2. Laid(<<>>, a, a, {})
  <2>1. a + 1 .. a = {}
    OBVIOUS
  <2> QED BY <2>1, NothingLaid
<1>3. CASE zoneB = <<>>
  BY <1>2, <1>3, EmptySeq
<1>4. CASE zoneB = <<Memories>>
  BY <1>1, <1>4 DEF Laid
<1> QED BY <1>3, <1>4 DEF ZoneBs

\* The front is the system prompt, zone B and the rows up to the middle zone.
LEMMA FrontLaid ==
    ASSUME NEW zoneB \in ZoneBs, NEW a \in Nat, NEW b \in Nat, a <= b
    PROVE  /\ Laid(Front(zoneB, a, b), a, b, {})
           /\ Len(Front(zoneB, a, b)) = 1 + Len(zoneB) + (b - a)
           /\ Len(zoneB) = 1 => \E i \in 1 .. Len(Front(zoneB, a, b)) :
                                   Front(zoneB, a, b)[i] = Memories
           /\ Len(zoneB) = 0 => \A i \in 1 .. Len(Front(zoneB, a, b)) :
                                   Front(zoneB, a, b)[i] # Memories
<1> DEFINE head == <<System>> \o zoneB
           tail == RowsOf(a, b)
           front == head \o tail
<1>1. Laid(<<System>>, a, a, {})
  BY OneLaid
<1>2. /\ Laid(zoneB, a, a, {}) /\ Len(zoneB) \in {0, 1}
      /\ Len(zoneB) = 1 => zoneB[1] = Memories
  BY ZoneBLaid
<1>3. Laid(tail, a, b, {}) /\ Len(tail) = b - a
      /\ \A i \in 1 .. b - a : tail[i] = Message("row", a + i, a + i)
  BY RowsLaid
<1>4. Laid(head, a, a, {} \cup {})
  BY <1>1, <1>2, Joined
<1>5. Laid(front, a, b, ({} \cup {}) \cup {})
  BY <1>3, <1>4, Joined
<1>6. /\ Len(head) = 1 + Len(zoneB)
      /\ head[1] = System /\ (Len(zoneB) = 1 => head[2] = Memories)
  <2>1. <<System>> \in Seq(Messages) /\ zoneB \in Seq(Messages)
    BY <1>1, <1>2 DEF Laid
  <2>2. Len(<<System>>) = 1 /\ <<System>>[1] = System
    OBVIOUS
  <2> QED BY <1>2, <2>1, <2>2, ConcatProperties
<1>7. head \in Seq(Messages) /\ tail \in Seq(Messages)
  BY <1>3, <1>4 DEF Laid
<1> HIDE DEF head, tail
<1>8. /\ Len(front) = Len(head) + Len(tail)
      /\ \A i \in 1 .. Len(head) + Len(tail) :
            front[i] = IF i <= Len(head) THEN head[i] ELSE tail[i - Len(head)]
  BY <1>7, ConcatProperties
<1>9. System # Memories /\ \A i \in 1 .. b - a : tail[i] # Memories
  <2>1. \A i \in 1 .. b - a : tail[i].kind = "row"
    BY <1>3, KindsApart
  <2> QED BY <2>1, KindsApart
<1> HIDE DEF front
<1>10. ASSUME Len(zoneB) = 1 PROVE \E i \in 1 .. Len(front) : front[i] = Memories
  <2>1. 2 \in 1 .. Len(front) /\ front[2] = Memories
    BY <1>3, <1>6, <1>8, <1>10
  <2> QED BY <2>1
<1>11. ASSUME Len(zoneB) = 0, NEW i \in 1 .. Len(front) PROVE front[i] # Memories
  <2>1. CASE i = 1
    BY <1>3, <1>6, <1>8, <1>9, <1>11, <2>1
  <2>2. CASE i # 1
    <3>1. i - 1 \in 1 .. b - a /\ front[i] = tail[i - 1]
      BY <1>3, <1>6, <1>8, <1>11, <2>2
    <3> QED BY <1>9, <3>1
  <2> QED BY <2>1, <2>2
<1>12. Front(zoneB, a, b) = front
  BY DEF Front, head, tail, front
<1>13. Laid(front, a, b, {})
  BY <1>5
<1> QED BY <1>3, <1>6, <1>8, <1>10, <1>11, <1>12, <1>13

(* Zone B is in the messages of a run when it is in their front.           *)
LEMMA ZoneBFound ==
    ASSUME NEW zoneB \in ZoneBs, NEW a \in Nat, NEW b \in Nat, a <= b,
           NEW mid \in Seq(Messages), OnlyRows(mid),
           NEW out, out = Front(zoneB, a, b) \o mid
    PROVE  (Memories \in {out[i] : i \in 1 .. Len(out)}) <=> Len(zoneB) = 1
<1> DEFINE front == Front(zoneB, a, b)
<1>1. /\ front \in Seq(Messages) /\ Len(zoneB) \in {0, 1}
      /\ Len(zoneB) = 1 => \E i \in 1 .. Len(front) : front[i] = Memories
      /\ Len(zoneB) = 0 => \A i \in 1 .. Len(front) : front[i] # Memories
  BY FrontLaid, ZoneBLaid DEF Laid
<1>2. out = front \o mid
  OBVIOUS
<1> HIDE DEF front
<1>3. /\ Len(out) = Len(front) + Len(mid) /\ Len(front) \in Nat /\ Len(mid) \in Nat
      /\ \A i \in 1 .. Len(front) : out[i] = front[i]
      /\ \A i \in 1 .. Len(out) : i \notin 1 .. Len(front) =>
            i - Len(front) \in 1 .. Len(mid) /\ out[i] = mid[i - Len(front)]
  BY <1>1, <1>2
<1>4. \A i \in 1 .. Len(mid) : mid[i] # Memories
  BY KindsApart DEF OnlyRows, Rows
<1>5. CASE Len(zoneB) = 1
  <2>1. PICK i \in 1 .. Len(front) : front[i] = Memories
    BY <1>1, <1>5
  <2>2. i \in 1 .. Len(out) /\ out[i] = Memories
    BY <1>3, <2>1
  <2> QED BY <1>5, <2>2
<1>6. CASE Len(zoneB) = 0
  <2>1. \A i \in 1 .. Len(out) : out[i] # Memories
    BY <1>1, <1>3, <1>4, <1>6
  <2> QED BY <1>6, <2>1
<1> QED BY <1>1, <1>5, <1>6

(* The breakpoints of a run: z tells whether there is a zone B, the front  *)
(* has b rows, C-mid is p + 1 .. q, and n messages come before C-tail.     *)
Marked(z, b, p, q, n) ==
    <<0, IF z = 1 THEN 1 ELSE Null,
      IF z = 1 /\ b > 0 THEN 1 + b ELSE Null,
      IF z = 1 /\ b > 0 /\ q > p THEN n - 1 ELSE Null>>

\* The breakpoints rise and lie within the messages.
LEMMA BreakpointsHold ==
    ASSUME NEW z \in {0, 1}, NEW b \in Nat, NEW p \in Nat, NEW q \in Nat,
           NEW n \in Nat, n >= 1 + z + b
    PROVE  /\ BpInvariant(Marked(z, b, p, q, n))
           /\ Markers(Marked(z, b, p, q, n)) \subseteq 0 .. n - 1
           /\ Marked(z, b, p, q, n)[3] \in {Null, z + b}
           /\ Marked(z, b, p, q, n)[4] \in IF p < q THEN {Null, n - 1} ELSE {Null}
<1> DEFINE bps == Marked(z, b, p, q, n)
<1>1. /\ Len(bps) = 4 /\ bps[1] = 0
      /\ bps[2] = IF z = 1 THEN 1 ELSE -1
      /\ bps[3] = IF z = 1 /\ b > 0 THEN 1 + b ELSE -1
      /\ bps[4] = IF z = 1 /\ b > 0 /\ q > p THEN n - 1 ELSE -1
  BY DEF Null, Marked
<1> HIDE DEF bps
<1>2. 1 .. 4 = {1, 2, 3, 4}
  OBVIOUS
<1>3. BpInvariant(bps)
  BY <1>1, <1>2 DEF BpInvariant, Null
<1>4. Markers(bps) \subseteq 0 .. n - 1
  BY <1>1, <1>2 DEF Markers, Null
<1>5. bps[3] \in {Null, z + b} /\ bps[4] \in IF p < q THEN {Null, n - 1} ELSE {Null}
  BY <1>1 DEF Null
<1> QED BY <1>3, <1>4, <1>5 DEF bps

(* The whole of a payload, from its front, zone C-mid and zone C-tail.     *)
Payload(front, mid, q, l) == (front \o mid) \o RowsOf(q, l)

(* The front, m messages long, ends with row p, and zone C-mid, n messages *)
(* into the payload, with row q.                                           *)
ZonesHold(all, f, p, q, l, condensed, m, n) ==
    /\ Laid(all, f, l, condensed)
    /\ n <= Len(all) /\ Len(all) \in Nat
    /\ q + 1 .. l \subseteq Verbatim(all)
    /\ \A r \in Behind(all, m - 1) : r > p
    /\ Behind(all, n - 1) = q + 1 .. l

\* The zones put after one another are the payload, with its breakpoints.
LEMMA ZonesJoined ==
    ASSUME NEW f \in Nat, NEW p \in Nat, NEW q \in Nat, NEW l \in Nat,
           f <= p, p <= q, q <= l, NEW C,
           NEW front, Laid(front, f, p, {}), NEW mid, Laid(mid, p, q, C),
           NEW n \in Nat, n = Len(front) + Len(mid)
    PROVE  ZonesHold(Payload(front, mid, q, l), f, p, q, l, C, Len(front), n)
<1> DEFINE tail == RowsOf(q, l)
           back == mid \o tail
           out == front \o mid
           lastRows == q + 1 .. l
           all == Payload(front, mid, q, l)
<1>1. /\ Laid(tail, q, l, {}) /\ Len(tail) = l - q
      /\ \A i \in 1 .. l - q : tail[i] = Message("row", q + i, q + i)
  BY RowsLaid
<1>2. all = out \o tail
  BY DEF Payload
<1> HIDE DEF tail, all
<1>3. front \in Seq(Messages) /\ mid \in Seq(Messages) /\ tail \in Seq(Messages)
  BY <1>1 DEF Laid
<1>4. Laid(back, p, l, C)
  <2>1. Laid(back, p, l, C \cup {})
    BY <1>1, Joined
  <2>2. C \cup {} = C
    OBVIOUS
  <2> QED BY <2>1, <2>2
<1>5. all = front \o back
  <2>1. (front \o mid) \o tail = front \o (mid \o tail)
    BY <1>3, ConcatAssociative, SMTT(30)
  <2> QED BY <1>2, <2>1
<1>6. Laid(all, f, l, C)
  <2>1. p <= l
    OBVIOUS
  <2>2. Laid(front \o back, f, l, {} \cup C)
    BY <1>4, <2>1, Joined
  <2>3. {} \cup C = C
    OBVIOUS
  <2> QED BY <1>5, <2>2, <2>3
<1>7. /\ out \in Seq(Messages) /\ Len(out) = Len(front) + Len(mid)
      /\ Len(out) \in Nat /\ Len(front) \in Nat /\ Len(mid) \in Nat
  BY <1>3, Catenation, LenProperties
<1>8. /\ Len(all) = Len(out) + Len(tail) /\ Len(tail) \in Nat
      /\ \A i \in 1 .. Len(tail) :
            Len(out) + i \in 1 .. Len(all) /\ all[Len(out) + i] = tail[i]
      /\ \A i \in 1 .. Len(all) : i > Len(out) =>
            i - Len(out) \in 1 .. Len(tail) /\ all[i] = tail[i - Len(out)]
  <2>1. out \in Seq(Messages) /\ tail \in Seq(Messages) /\ all = out \o tail
    BY <1>2, <1>3, <1>7
  <2> HIDE DEF out
  <2> QED BY <2>1, Catenation
<1>9. /\ back \in Seq(Messages) /\ Len(all) = Len(front) + Len(back)
      /\ \A i \in 1 .. Len(all) : i > Len(front) =>
            i - Len(front) \in 1 .. Len(back) /\ all[i] = back[i - Len(front)]
  <2>1. front \in Seq(Messages) /\ back \in Seq(Messages) /\ all = front \o back
    BY <1>3, <1>4, <1>5 DEF Laid
  <2> HIDE DEF back
  <2> QED BY <2>1, Catenation
<1> HIDE DEF out, back
<1>10. \A i \in 1 .. Len(tail) : tail[i].kind = "row" /\ tail[i].from = q + i
  <2>1. \A i \in 1 .. Len(tail) : tail[i] = Message("row", q + i, q + i)
    BY <1>1
  <2> QED BY <2>1, KindsApart
<1>11. n \in Nat /\ n = Len(out)
  BY <1>7
<1>12. ASSUME NEW r \in lastRows
       PROVE  \E i \in 1 .. Len(all) : i > n /\ all[i].kind = "row" /\ all[i].from = r
  <2> DEFINE j == r - q
  <2>1. j \in 1 .. Len(tail) /\ r = q + j
    BY <1>1
  <2> HIDE DEF j
  <2>2. n + j \in 1 .. Len(all) /\ all[n + j] = tail[j]
    BY <1>8, <1>11, <2>1
  <2>3. n + j > n
    BY <1>8, <1>11, <2>1
  <2> QED BY <1>10, <2>1, <2>2, <2>3
<1>13. ASSUME NEW i \in 1 .. Len(all), i > n PROVE all[i].from \in lastRows
  <2> DEFINE j == i - n
  <2>1. j \in 1 .. Len(tail) /\ all[i] = tail[j]
    BY <1>8, <1>11, <1>13
  <2> HIDE DEF j
  <2>2. all[i].from = q + j
    BY <1>10, <2>1
  <2>3. q + j \in lastRows
    BY <1>1, <2>1
  <2> QED BY <2>2, <2>3
<1>14. ASSUME NEW i \in 1 .. Len(all), i > Len(front), all[i].kind \in Rows
       PROVE  all[i].from > p
  <2>1. i - Len(front) \in 1 .. Len(back) /\ all[i] = back[i - Len(front)]
    BY <1>9, <1>14
  <2>2. back[i - Len(front)] \in Messages
    BY <1>9, <2>1, ElementOfSeq
  <2> QED BY <1>4, <1>14, <2>1, <2>2 DEF Laid, Messages
<1>15. Shown(all) = {i \in 1 .. Len(all) : all[i].kind \in Rows}
  BY DEF Shown, Rows
<1>16. lastRows \subseteq Verbatim(all)
  BY <1>12 DEF Verbatim
<1>17. ASSUME NEW r \in Behind(all, Len(front) - 1) PROVE r > p
  <2>1. PICK i \in Shown(all) \cap ((Len(front) - 1) + 2 .. Len(all)) : r = all[i].from
    BY DEF Behind
  <2>2. i \in 1 .. Len(all) /\ i > Len(front) /\ all[i].kind \in Rows
    <3>1. (Len(front) - 1) + 2 = Len(front) + 1
      BY <1>7
    <3>2. Len(all) \in Nat
      BY <1>7, <1>8
    <3>3. i \in Shown(all) /\ i \in Len(front) + 1 .. Len(all)
      BY <2>1, <3>1
    <3>4. i \in 1 .. Len(all) /\ all[i].kind \in Rows
      BY <1>15, <3>3
    <3> QED BY <1>7, <3>2, <3>3, <3>4
  <2> QED BY <1>14, <2>1, <2>2
<1>18. Behind(all, n - 1) = lastRows
  <2>1. Shown(all) \cap ((n - 1) + 2 .. Len(all)) =
           {i \in 1 .. Len(all) : all[i].kind \in Rows /\ i > n}
    BY <1>7, <1>8, <1>11, <1>15
  <2>2. Behind(all, n - 1) =
           {all[i].from : i \in {i \in 1 .. Len(all) : all[i].kind \in Rows /\ i > n}}
    BY <2>1 DEF Behind
  <2>3. ASSUME NEW r \in lastRows PROVE r \in Behind(all, n - 1)
    <3>1. PICK i \in 1 .. Len(all) : i > n /\ all[i].kind = "row" /\ all[i].from = r
      BY <1>12
    <3> QED BY <2>2, <3>1 DEF Rows
  <2>4. ASSUME NEW r \in Behind(all, n - 1) PROVE r \in lastRows
    BY <1>13, <2>2, <2>4
  <2> QED BY <2>3, <2>4
<1>19. n <= Len(all) /\ Len(all) \in Nat
  BY <1>7, <1>8, <1>11
<1> QED BY <1>6, <1>16, <1>17, <1>18, <1>19 DEF all, ZonesHold

(* A run that has laid out zones A to C-mid ends with a whole payload.     *)
LEMMA OrganizedWhole ==
    ASSUME NEW k, DOMAIN k = Fields, Zoned(k),
           cursor[k.session] \in Nat, k.first <= cursor[k.session],
           NEW zoneB \in ZoneBs,
           NEW some \in Seq(Messages), OnlyRows(some),
           k.out = Front(zoneB, k.first, MidStart(k)) \o some,
           NEW mid, Laid(mid, MidStart(k), MidEnd(k), k.condensed),
           k.condensed \subseteq MidStart(k) + 1 .. MidEnd(k),
           NEW out, out = Front(zoneB, k.first, MidStart(k)) \o mid
    PROVE  Organized(k, out).pc = "think" /\ Whole(Organized(k, out))
<1> DEFINE f == k.first
           l == k.last
           p == MidStart(k)
           q == MidEnd(k)
           C == k.condensed
           digested == cursor[k.session]
           front == Front(zoneB, f, p)
           b == k.boundary
           z == Len(zoneB)
           n == Len(out)
           e == Organized(k, out)
           bps == Breakpoints(k, out)
           all == out \o RowsOf(q, l)
<1>1. /\ f \in Nat /\ l \in Nat /\ b \in Nat /\ p \in Nat /\ q \in Nat
      /\ f <= p /\ p = f + b /\ p <= q /\ q <= l
      /\ p < q => q = l - X
      /\ digested \in Nat /\ f <= digested
  BY ZoneEnds DEF Zoned
<1>2. q = Greater(f, l - X) /\ q = Greater(0, l - X)
  BY ZoneEnds
<1>3. /\ Laid(mid, p, q, C) /\ C \subseteq p + 1 .. q
      /\ k.out = front \o some /\ out = front \o mid
  OBVIOUS
<1>4. e = [k EXCEPT !.pc = IF BpInvariant(bps) THEN "think" ELSE "thrown",
                    !.out = all, !.bps = bps]
  BY <1>2 DEF Organized
<1>5. /\ e.out = all /\ e.first = f /\ e.last = l
      /\ e.boundary = b /\ e.condensed = C
      /\ e.session = k.session /\ e.bps = bps
      /\ e.pc = IF BpInvariant(bps) THEN "think" ELSE "thrown"
      /\ MidStart(e) = p
  <2> HIDE DEF all, e, bps
  <2>1. /\ e.out = all /\ e.first = f /\ e.last = l
        /\ e.boundary = b /\ e.condensed = C
        /\ e.session = k.session /\ e.bps = bps
        /\ e.pc = IF BpInvariant(bps) THEN "think" ELSE "thrown"
    BY <1>4 DEF Fields
  <2> QED BY <2>1 DEF MidStart
<1>6. LastRows(e) = q + 1 .. l
  BY <1>2, <1>5 DEF LastRows
<1>7. bps =
         LET hasB == Memories \in {k.out[i] : i \in 1 .. Len(k.out)}
             zoneBEnd == IF hasB THEN 1 ELSE 0
             bp2 == IF hasB THEN zoneBEnd ELSE Null
             bp3 == IF bp2 # Null /\ b > 0 THEN zoneBEnd + b ELSE Null
             bp4 == IF bp3 # Null /\ q > p THEN n - 1 ELSE Null
         IN  <<0, bp2, bp3, bp4>>
  BY DEF Breakpoints
<1> HIDE DEF f, l, p, q, C, e, digested, bps, b, z
<1>8. /\ Laid(front, f, p, {})
      /\ Len(front) = 1 + z + b
  <2>1. Laid(front, f, p, {}) /\ Len(front) = 1 + z + (p - f)
    BY <1>1, FrontLaid DEF z
  <2>2. p - f = b
    BY <1>1
  <2> QED BY <2>1, <2>2
<1>9. (Memories \in {k.out[i] : i \in 1 .. Len(k.out)}) <=> z = 1
  <2>1. f \in Nat /\ p \in Nat /\ f <= p /\ k.out = front \o some
    BY <1>1, <1>3
  <2>2. \A w : w = front \o some =>
           ((Memories \in {w[i] : i \in 1 .. Len(w)}) <=> z = 1)
    BY <2>1, ZoneBFound DEF z
  <2> QED BY <2>1, <2>2
<1>10. z \in {0, 1}
  BY ZoneBLaid DEF z
<1> HIDE DEF front, z
<1>11. n = Len(front) + Len(mid) /\ Len(front) \in Nat /\ Len(mid) \in Nat
  BY <1>3, <1>8, Catenation DEF Laid
<1> HIDE DEF n
<1>12. /\ Laid(all, f, l, C)
       /\ n <= Len(all) /\ Len(all) \in Nat
       /\ q + 1 .. l \subseteq Verbatim(all)
       /\ \A r \in Behind(all, Len(front) - 1) : r > p
       /\ Behind(all, n - 1) = q + 1 .. l
  <2>1. all = Payload(front, mid, q, l)
    BY <1>3 DEF Payload
  <2>2. /\ f \in Nat /\ p \in Nat /\ q \in Nat /\ l \in Nat
        /\ f <= p /\ p <= q /\ q <= l
        /\ n \in Nat /\ n = Len(front) + Len(mid)
    BY <1>1, <1>11
  <2>3. Laid(front, f, p, {}) /\ Laid(mid, p, q, C)
    BY <1>3, <1>8
  <2>4. ZonesHold(Payload(front, mid, q, l), f, p, q, l, C, Len(front), n)
    BY <2>2, <2>3, ZonesJoined
  <2> HIDE DEF all
  <2> QED BY <2>1, <2>4 DEF ZonesHold
<1> HIDE DEF all
<1>13. bps = Marked(z, b, p, q, n)
  <2> DEFINE hasB == Memories \in {k.out[i] : i \in 1 .. Len(k.out)}
  <2>1. hasB <=> z = 1
    BY <1>9
  <2>2. bps = LET zoneBEnd == IF hasB THEN 1 ELSE 0
                  bp2 == IF hasB THEN zoneBEnd ELSE Null
                  bp3 == IF bp2 # Null /\ b > 0
                         THEN zoneBEnd + b ELSE Null
                  bp4 == IF bp3 # Null /\ q > p THEN n - 1 ELSE Null
              IN  <<0, bp2, bp3, bp4>>
    BY <1>7
  <2> HIDE DEF hasB
  <2> QED BY <1>1, <2>1, <2>2 DEF Null, Marked
<1>14. /\ BpInvariant(bps) /\ Markers(bps) \subseteq 0 .. n - 1
       /\ bps[3] \in {Null, z + b}
       /\ bps[4] \in IF p < q THEN {Null, n - 1} ELSE {Null}
  <2>1. /\ z \in {0, 1} /\ b \in Nat /\ p \in Nat /\ q \in Nat
        /\ n \in Nat /\ n >= 1 + z + b
    BY <1>1, <1>8, <1>11, <1>10
  <2> DEFINE marked == Marked(z, b, p, q, n)
  <2>2. /\ BpInvariant(marked) /\ Markers(marked) \subseteq 0 .. n - 1
        /\ marked[3] \in {Null, z + b}
        /\ marked[4] \in IF p < q THEN {Null, n - 1} ELSE {Null}
    BY <2>1, BreakpointsHold
  <2> HIDE DEF marked
  <2> QED BY <1>13, <2>2 DEF marked
<1> DEFINE covered == UNION {all[i].from .. all[i].to : i \in Shown(all)}
<1>15. Shown(all) = {i \in 1 .. Len(all) : all[i].kind \in Rows}
  BY DEF Shown, Rows
<1>16. \A i, j \in Shown(all) : i < j => all[i].to < all[j].from
  BY <1>12, <1>15 DEF Laid
<1>17. ASSUME NEW r \in 1 .. l PROVE r \in covered \cup C \cup (1 .. digested)
  <2>1. CASE r <= f
    BY <1>1, <2>1
  <2>2. CASE f < r
    <3>1. r \in f + 1 .. l
      BY <1>1, <2>2
    <3>2. r \in C \/ \E i \in 1 .. Len(all) :
                         all[i].kind \in Rows /\ r \in all[i].from .. all[i].to
      BY <1>12, <3>1 DEF Laid
    <3> QED BY <1>15, <3>2
  <2> QED BY <1>1, <2>1, <2>2
<1> HIDE DEF covered
<1>18. Markers(bps) \subseteq 0 .. Len(all) - 1
  <2>1. n \in Nat /\ Len(all) \in Nat /\ n <= Len(all)
    BY <1>1, <1>12, <1>11
  <2> QED BY <1>14, <2>1
<1>19. C \subseteq p + 1 .. l - X
  BY <1>1, <1>3 DEF X
<1>20. bps[3] # Null => \A r \in Behind(all, bps[3]) : r > p
  <2>1. z + b = Len(front) - 1
    BY <1>1, <1>8, <1>10
  <2> QED BY <1>12, <1>14, <2>1
<1>21. bps[4] # Null => Behind(all, bps[4]) = q + 1 .. l
  BY <1>12, <1>11, <1>14
<1>22. Whole(e)
  <2>1. /\ UNION {e.out[i].from .. e.out[i].to : i \in Shown(e.out)} = covered
        /\ cursor[e.session] = digested
    BY <1>5 DEF covered, digested
  <2>2. 1 .. e.last \subseteq covered \cup e.condensed \cup (1 .. cursor[e.session])
    BY <1>5, <1>17, <2>1
  <2>3. LastRows(e) \subseteq Verbatim(e.out)
    BY <1>5, <1>6, <1>12
  <2> QED BY <1>5, <1>6, <1>14, <1>16, <1>18, <1>19, <1>20, <1>21, <2>1, <2>2, <2>3
          DEF Whole
<1> QED BY <1>5, <1>14, <1>22 DEF e

-----------------------------------------------------------------------------
(* The payload of an event that needs no organisation.                     *)
EventOf(k, zoneB, chat) ==
    k.out = (Front(zoneB, k.first, k.last) \o chat) \o <<User>>

\* A payload for an event has all rows that are not digested.
LEMMA EventWhole ==
    ASSUME NEW k, Zoned(k), k.boundary = 0, k.condensed = {},
           cursor[k.session] \in Nat, k.first <= cursor[k.session],
           NEW zoneB \in ZoneBs, NEW chat \in {<<>>, <<Chat>>},
           EventOf(k, zoneB, chat),
           k.bps = <<0, IF zoneB = <<Memories>> THEN 1 ELSE Null, Null, Null>>
    PROVE  Whole(k)
<1> DEFINE f == k.first
           l == k.last
           front == Front(zoneB, f, l)
           most == front \o chat
           all == most \o <<User>>
           z == Len(zoneB)
           bps == k.bps
           digested == cursor[k.session]
<1>1. /\ f \in Nat /\ l \in Nat /\ f <= l /\ f <= Greater(0, l - X)
      /\ digested \in Nat /\ f <= digested
  BY SMTT(30) DEF Zoned, Greater, K, X
<1>2. k.out = all /\ k.condensed = {} /\ MidStart(k) = f
  BY <1>1 DEF EventOf, MidStart
<1>3. z \in {0, 1} /\ (zoneB = <<Memories>> <=> z = 1)
  <2>1. zoneB = <<>> => z = 0
    OBVIOUS
  <2>2. zoneB = <<Memories>> => z = 1
    OBVIOUS
  <2>3. zoneB = <<>> \/ zoneB = <<Memories>>
    BY DEF ZoneBs
  <2>4. z = 0 => zoneB # <<Memories>>
    BY <2>2
  <2> HIDE DEF z
  <2> QED BY <2>1, <2>2, <2>3, <2>4
<1>4. bps = <<0, IF z = 1 THEN 1 ELSE -1, -1, -1>>
  BY <1>3 DEF Null
<1> HIDE DEF f, l, z, digested, bps
<1>5. /\ Laid(front, f, l, {}) /\ Len(front) = 1 + z + (l - f)
  BY <1>1, FrontLaid DEF z
<1>6. /\ Laid(chat, l, l, {}) /\ Laid(<<User>>, l, l, {})
  <2>1. Laid(<<>>, l, l, {})
    <3>1. l + 1 .. l = {}
      BY <1>1
    <3> QED BY <1>1, <3>1, NothingLaid
  <2>2. Laid(<<Chat>>, l, l, {}) /\ Laid(<<User>>, l, l, {})
    BY <1>1, OneLaid
  <2> QED BY <2>1, <2>2
<1>7. Laid(front \o chat, f, l, {} \cup {})
  BY <1>1, <1>5, <1>6, Joined
<1>8. Laid(all, f, l, ({} \cup {}) \cup {})
  BY <1>1, <1>6, <1>7, Joined
<1>9. Laid(all, f, l, {})
  <2>1. ({} \cup {}) \cup {} = {}
    OBVIOUS
  <2> QED BY <1>8, <2>1
<1>10. \A r \in f + 1 .. l :
          \E i \in 1 .. Len(front) : front[i].kind = "row" /\ front[i].from = r
  <2> DEFINE head == <<System>> \o zoneB
             tail == RowsOf(f, l)
  <2>1. /\ Len(tail) = l - f /\ tail \in Seq(Messages)
        /\ \A i \in 1 .. l - f : tail[i] = Message("row", f + i, f + i)
    BY <1>1, RowsLaid DEF Laid
  <2>2. head \in Seq(Messages)
    <3>1. <<System>> \in Seq(Messages) /\ zoneB \in Seq(Messages)
      BY OneLaid, ZoneBLaid DEF Laid
    <3> QED BY <3>1, ConcatProperties
  <2>3. front = head \o tail
    BY DEF Front
  <2> HIDE DEF head, tail, front
  <2>4. /\ Len(head) \in Nat
        /\ \A i \in 1 .. Len(tail) : /\ Len(head) + i \in 1 .. Len(front)
                                     /\ front[Len(head) + i] = tail[i]
    BY <2>1, <2>2, <2>3, Catenation
  <2> SUFFICES ASSUME NEW r \in f + 1 .. l
               PROVE  \E i \in 1 .. Len(front) : /\ front[i].kind = "row"
                                                 /\ front[i].from = r
    OBVIOUS
  <2> DEFINE j == r - f
  <2>5. j \in 1 .. l - f /\ f + j = r
    BY <1>1
  <2> HIDE DEF j
  <2>6. tail[j].kind = "row" /\ tail[j].from = r
    BY <2>1, <2>5, KindsApart
  <2> QED BY <2>1, <2>4, <2>5, <2>6
<1> HIDE DEF front
<1>11. /\ Len(all) \in Nat /\ Len(all) >= 1 + z
       /\ \A i \in 1 .. Len(front) : i \in 1 .. Len(all) /\ all[i] = front[i]
  <2>1. /\ front \in Seq(Messages) /\ chat \in Seq(Messages)
        /\ <<User>> \in Seq(Messages)
    BY <1>5, <1>6 DEF Laid
  <2>2. /\ most \in Seq(Messages) /\ Len(most) = Len(front) + Len(chat)
        /\ Len(front) \in Nat /\ Len(chat) \in Nat
        /\ \A i \in 1 .. Len(front) : i \in 1 .. Len(most) /\ most[i] = front[i]
    BY <2>1, Catenation
  <2> HIDE DEF most
  <2>3. /\ Len(all) = Len(most) + Len(<<User>>) /\ Len(<<User>>) \in Nat
        /\ \A i \in 1 .. Len(most) : i \in 1 .. Len(all) /\ all[i] = most[i]
    BY <2>1, <2>2, Catenation
  <2> HIDE DEF all
  <2>4. Len(all) \in Nat /\ Len(all) >= 1 + z
    BY <1>1, <1>3, <1>5, <2>2, <2>3
  <2> QED BY <2>2, <2>3, <2>4
<1> HIDE DEF all
<1>12. LastRows(k) \subseteq Verbatim(all)
  <2>1. LastRows(k) \subseteq f + 1 .. l
    BY <1>1 DEF LastRows, Greater, X, l
  <2>2. \A r \in f + 1 .. l :
           \E i \in 1 .. Len(all) : all[i].kind = "row" /\ all[i].from = r
    BY <1>10, <1>11
  <2> QED BY <2>1, <2>2 DEF Verbatim
<1>13. Shown(all) = {i \in 1 .. Len(all) : all[i].kind \in Rows}
  BY DEF Shown, Rows
<1>14. \A i, j \in Shown(all) : i < j => all[i].to < all[j].from
  BY <1>9, <1>13 DEF Laid
<1> DEFINE covered == UNION {all[i].from .. all[i].to : i \in Shown(all)}
<1>15. ASSUME NEW r \in 1 .. l PROVE r \in covered \cup {} \cup (1 .. digested)
  <2>1. CASE r <= f
    BY <1>1, <2>1
  <2>2. CASE f < r
    <3>1. r \in f + 1 .. l
      BY <1>1, <2>2
    <3>2. \E i \in 1 .. Len(all) : all[i].kind \in Rows /\ r \in all[i].from .. all[i].to
      BY <1>9, <3>1 DEF Laid
    <3> QED BY <1>13, <3>2
  <2> QED BY <1>1, <2>1, <2>2
<1> HIDE DEF covered
<1>16. /\ BpInvariant(bps) /\ Markers(bps) \subseteq 0 .. Len(all) - 1
       /\ bps[3] = Null /\ bps[4] = Null
  <2>1. /\ Len(bps) = 4 /\ bps[1] = 0 /\ bps[2] = IF z = 1 THEN 1 ELSE -1
        /\ bps[3] = -1 /\ bps[4] = -1
    BY <1>4
  <2>2. 1 .. 4 = {1, 2, 3, 4}
    OBVIOUS
  <2>3. BpInvariant(bps)
    BY <1>3, <2>1, <2>2 DEF BpInvariant, Null
  <2>4. Markers(bps) \subseteq 0 .. Len(all) - 1
    BY <1>3, <1>11, <2>1, <2>2 DEF Markers, Null
  <2> QED BY <2>1, <2>3, <2>4 DEF Null
<1>17. /\ UNION {k.out[i].from .. k.out[i].to : i \in Shown(k.out)} = covered
       /\ cursor[k.session] = digested /\ k.last = l /\ k.bps = bps
  BY <1>2 DEF covered, digested, l, bps
<1>18. 1 .. k.last \subseteq covered \cup k.condensed \cup (1 .. cursor[k.session])
  BY <1>2, <1>15, <1>17
<1> QED BY <1>2, <1>12, <1>14, <1>16, <1>17, <1>18 DEF Whole

-----------------------------------------------------------------------------
(* A compaction under way has laid out the front and zone C-mid up to its  *)
(* block, and all it has had condensed lies there.                         *)
Underway(k) ==
    /\ Zoned(k)
    /\ k.block \in Nat \ {0}
    /\ BlockStart(k) < MidEnd(k)
    /\ k.condensed \subseteq MidStart(k) + 1 .. BlockStart(k)
    /\ \E zoneB \in ZoneBs, mid \in Seq(Messages) :
          /\ OnlyRows(mid)
          /\ k.out = Front(zoneB, k.first, MidStart(k)) \o mid
          /\ Laid(mid, MidStart(k), BlockStart(k), k.condensed)

(* What a call holds at each of its awaits.                                *)
CallHolds(k) ==
    /\ k.pc # "thrown"
    /\ k.pc \in {"prompt", "tickPrompt"} =>
          /\ k.digested \in Nat /\ k.digested <= cursor[k.session]
          /\ k.boundary = 0 /\ k.condensed = {}
    /\ k.pc = "compact" => Underway(k) /\ k.first <= cursor[k.session]
    /\ k.pc \in {"think", "tickThink"} => Whole(k)

PayloadInv ==
    /\ rows \in [Sessions -> Nat]
    /\ cursor \in [Sessions -> Nat]
    /\ \A c \in Calls : CallHolds(call[c])

\* A call keeps what it has when rows or digests are added.
LEMMA MoreDigested ==
    ASSUME PayloadInv, CountInv,
           rows' \in [Sessions -> Nat], cursor' \in [Sessions -> Nat],
           \A s \in Sessions : cursor[s] <= cursor'[s],
           NEW c \in Calls, NEW k, call[c] = k, call'[c] = k
    PROVE  CallHolds(call[c])'
<1>1. CallHolds(k) /\ (k.pc \notin {"idle", "done"} => k.session \in Sessions)
  BY DEF PayloadInv, CountInv, Called
<1>2. CASE k.pc \in {"idle", "done"}
  BY <1>1, <1>2 DEF CallHolds
<1>3. CASE k.pc \notin {"idle", "done"}
  <2>1. /\ cursor[k.session] <= cursor'[k.session]
        /\ cursor[k.session] \in Nat /\ cursor'[k.session] \in Nat
    BY <1>1, <1>3 DEF PayloadInv
  <2>2. Whole(k) => Whole(call[c])'
    <3>1. 1 .. cursor[k.session] \subseteq 1 .. cursor'[k.session]
      BY <2>1
    <3> QED BY <3>1 DEF Whole
  <2>3. Underway(k) /\ k.first <= cursor[k.session]
           => Underway(k) /\ k.first <= cursor'[k.session]
    <3>1. Underway(k) => k.first \in Nat
      BY DEF Underway, Zoned
    <3> QED BY <2>1, <3>1
  <2>4. /\ k.pc # "thrown"
        /\ k.pc \in {"prompt", "tickPrompt"} =>
              /\ k.digested \in Nat /\ k.digested <= cursor'[k.session]
              /\ k.boundary = 0 /\ k.condensed = {}
        /\ k.pc = "compact" => Underway(k) /\ k.first <= cursor'[k.session]
        /\ k.pc \in {"think", "tickThink"} => Whole(call[c])'
    <3>1. k.digested \in Nat /\ k.digested <= cursor[k.session]
             => k.digested <= cursor'[k.session]
      BY <2>1
    <3> QED BY <1>1, <2>2, <2>3, <3>1 DEF CallHolds
  <2> QED BY <2>4 DEF CallHolds
<1> QED BY <1>2, <1>3

\* A step of one call keeps what all others have.
LEMMA OneCallHolds ==
    ASSUME PayloadInv, CountInv, NEW c \in Calls, NEW k,
           call' = [call EXCEPT ![c] = k], UNCHANGED cursor,
           rows' \in [Sessions -> Nat],
           CallHolds(k)
    PROVE  PayloadInv'
<1>1. cursor' \in [Sessions -> Nat] /\ \A s \in Sessions : cursor[s] <= cursor'[s]
  BY DEF PayloadInv
<1>2. ASSUME NEW d \in Calls, d # c PROVE CallHolds(call[d])'
  <2>1. call'[d] = call[d]
    BY <1>2 DEF CountInv, Called
  <2> QED BY <1>1, <2>1, MoreDigested
<1>3. CallHolds(call[c])'
  <2>1. call'[c] = k
    BY DEF CountInv, Called
  <2> QED BY <2>1 DEF CallHolds, Underway, Whole
<1> QED BY <1>1, <1>2, <1>3 DEF PayloadInv

\* Initially no call has a payload.
LEMMA PayloadInit == Init => PayloadInv
<1> SUFFICES ASSUME Init PROVE PayloadInv
  OBVIOUS
<1>1. PICK r \in [Sessions -> Restored] : /\ rows = [s \in Sessions |-> r[s].rows]
                                          /\ cursor = [s \in Sessions |-> r[s].cursor]
  BY DEF Init
<1>2. \A s \in Sessions : r[s].rows \in Nat /\ r[s].cursor \in Nat
  BY RestoredAssumption
<1>3. \A c \in Calls : call[c].pc = "idle"
  BY BlankFields DEF Init
<1> QED BY <1>1, <1>2, <1>3 DEF PayloadInv, CallHolds

(* A call begins.                                                          *)
LEMMA BeginHolds ==
    ASSUME PayloadInv, CountInv, NEW c \in Calls, NEW s \in Sessions,
           ReceiveEvent(c, s) \/ BeginTick(c, s)
    PROVE  PayloadInv'
<1>1. ASSUME NEW pc \in {"prompt", "tickPrompt"},
             call' = [call EXCEPT ![c] =
                        [Blank(pc) EXCEPT !.session = s, !.digested = cursor[s]]],
             UNCHANGED <<rows, cursor>>
      PROVE  PayloadInv'
  <2> DEFINE k == [Blank(pc) EXCEPT !.session = s, !.digested = cursor[s]]
  <2>1. /\ k.pc = pc /\ k.session = s /\ k.digested = cursor[s]
        /\ k.boundary = 0 /\ k.condensed = {}
    BY DEF Blank
  <2> HIDE DEF k
  <2>2. cursor[s] \in Nat
    BY DEF PayloadInv
  <2>3. k.digested \in Nat /\ k.digested <= cursor[k.session]
    BY <2>1, <2>2
  <2>4. CallHolds(k)
    BY <2>1, <2>3, Zenon DEF CallHolds
  <2>5. rows' \in [Sessions -> Nat] /\ call' = [call EXCEPT ![c] = k]
    BY <1>1 DEF PayloadInv, k
  <2> QED BY <1>1, <2>5, <2>4, OneCallHolds
<1> QED BY <1>1 DEF ReceiveEvent, BeginTick, ghosts

(* A payload that needs no organisation is assembled.                      *)
LEMMA AssembleHolds ==
    ASSUME PayloadInv, CountInv, NEW c \in Calls, TickPayload(c) \/ AssemblePayload(c)
    PROVE  PayloadInv'
<1> DEFINE j == call[c]
           s == j.session
           last == rows[s]
           first == ReadStart(last, j.digested)
           bps(hasB) == <<0, IF hasB THEN 1 ELSE Null, Null, Null>>
           zoneB(hasB) == IF hasB THEN <<Memories>> ELSE <<>>
           chat(hasChat) == IF hasChat THEN <<Chat>> ELSE <<>>
           k(pc, hasB, hasChat) ==
               [j EXCEPT !.pc = pc, !.first = first, !.last = last,
                         !.out = EventPayload(hasB, first, last, hasChat),
                         !.bps = bps(hasB)]
<1>1. \E pc \in {"think", "tickThink"}, hasB \in BOOLEAN, hasChat \in BOOLEAN :
         call' = [call EXCEPT ![c] = k(pc, hasB, hasChat)]
  <2>1. CASE TickPayload(c)
    <3>1. <<0, IF FALSE THEN 1 ELSE Null, Null, Null>> = <<0, Null, Null, Null>>
      OBVIOUS
    <3>2. call' = [call EXCEPT ![c] = k("tickThink", FALSE, FALSE)]
      BY <2>1, <3>1 DEF TickPayload
    <3> QED BY <3>2
  <2>2. CASE AssemblePayload(c)
    <3>1. \E hasB, hasChat \in BOOLEAN :
             call' = [call EXCEPT ![c] = k("think", hasB, hasChat)]
      BY <2>2 DEF AssemblePayload
    <3> QED BY <3>1
  <2> QED BY <2>1, <2>2
<1>2. PICK pc \in {"think", "tickThink"}, hasB \in BOOLEAN, hasChat \in BOOLEAN :
         call' = [call EXCEPT ![c] = k(pc, hasB, hasChat)]
  BY <1>1
<1> DEFINE e == k(pc, hasB, hasChat)
<1>3. /\ j.pc \in {"prompt", "tickPrompt"} /\ s \in Sessions /\ DOMAIN j = Fields
      /\ UNCHANGED <<rows, cursor>>
  BY DEF TickPayload, AssemblePayload, CountInv, Called
<1>4. /\ j.digested \in Nat /\ j.digested <= cursor[s] /\ cursor[s] \in Nat
      /\ last \in Nat
  BY <1>3 DEF PayloadInv, CallHolds
<1>5. j.boundary = 0 /\ j.condensed = {}
  BY <1>3 DEF PayloadInv, CallHolds
<1>6. /\ first \in Nat /\ first <= cursor[s] /\ first <= Greater(0, last - K)
  <2> DEFINE d == j.digested
             n == cursor[s]
  <2> HIDE DEF d, n, last
  <2>1. d \in Nat /\ d <= n /\ n \in Nat /\ last \in Nat
    BY <1>4 DEF d, n
  <2>2. /\ ReadStart(last, d) \in Nat /\ ReadStart(last, d) <= d
        /\ ReadStart(last, d) <= Greater(0, last - K)
    BY <2>1, WindowBounds
  <2>3. ReadStart(last, d) <= n
    BY <2>1, <2>2
  <2> QED BY <2>2, <2>3 DEF d, n
<1> DEFINE out == EventPayload(hasB, first, last, hasChat)
<1>7. /\ e.pc = pc /\ e.session = s /\ e.first = first /\ e.last = last
      /\ e.boundary = 0 /\ e.condensed = {}
      /\ e.out = out /\ e.bps = bps(hasB)
  <2> DEFINE messages == out
             points == bps(hasB)
  <2> HIDE DEF first, last, messages, points, s
  <2>1. e = [j EXCEPT !.pc = pc, !.first = first, !.last = last,
                      !.out = messages, !.bps = points]
    BY DEF messages, points
  <2> HIDE DEF e
  <2>2. /\ e.pc = pc /\ e.session = j.session /\ e.first = first /\ e.last = last
        /\ e.boundary = j.boundary /\ e.condensed = j.condensed
        /\ e.out = messages /\ e.bps = points
    BY <1>3, <2>1 DEF Fields
  <2> QED BY <1>5, <2>2 DEF messages, points, s
<1>8. /\ out = (Front(zoneB(hasB), first, last) \o chat(hasChat)) \o <<User>>
      /\ zoneB(hasB) \in ZoneBs /\ chat(hasChat) \in {<<>>, <<Chat>>}
  BY DEF EventPayload, Front, ZoneBs
<1>9. bps(hasB) = <<0, IF zoneB(hasB) = <<Memories>> THEN 1 ELSE Null, Null, Null>>
  <2>1. (zoneB(hasB) = <<Memories>>) <=> hasB
    <3>1. Len(<<>>) = 0 /\ Len(<<Memories>>) = 1
      OBVIOUS
    <3> QED BY <3>1
  <2> QED BY <2>1
<1> HIDE DEF e, first, last, s, out, bps, zoneB, chat
<1>10. Zoned(e)
  <2>1. first \in Nat /\ last \in Nat /\ first <= Greater(0, last - K)
    BY <1>4, <1>6
  <2>2. 0 <= Greater(0, last - first - X)
    BY <2>1 DEF Greater, X
  <2> QED BY <1>7, <2>1, <2>2 DEF Zoned
<1>11. Whole(e)
  <2>1. cursor[e.session] \in Nat /\ e.first <= cursor[e.session]
    BY <1>4, <1>6, <1>7
  <2>2. EventOf(e, zoneB(hasB), chat(hasChat))
    BY <1>7, <1>8 DEF EventOf
  <2>3. e.bps = <<0, IF zoneB(hasB) = <<Memories>> THEN 1 ELSE Null, Null, Null>>
    BY <1>7, <1>9
  <2>4. e.boundary = 0 /\ e.condensed = {}
    BY <1>7
  <2> QED BY <1>8, <1>10, <2>1, <2>2, <2>3, <2>4, EventWhole
<1>12. CallHolds(e)
  BY <1>7, <1>11 DEF CallHolds
<1>13. call' = [call EXCEPT ![c] = e] /\ rows' \in [Sessions -> Nat] /\ UNCHANGED cursor
  BY <1>2, <1>3 DEF e, PayloadInv
<1> QED BY <1>12, <1>13, OneCallHolds

(* The end of an organisation: zone C-mid is laid out.                     *)
LEMMA RunEnds ==
    ASSUME PayloadInv, CountInv, NEW c \in Calls, NEW k, NEW out,
           call' = [call EXCEPT ![c] = Organized(k, out)],
           UNCHANGED <<rows, cursor>>,
           DOMAIN k = Fields, k.session \in Sessions,
           Zoned(k), k.first <= cursor[k.session],
           NEW zoneB \in ZoneBs, NEW some \in Seq(Messages), OnlyRows(some),
           k.out = Front(zoneB, k.first, MidStart(k)) \o some,
           NEW mid, Laid(mid, MidStart(k), MidEnd(k), k.condensed),
           k.condensed \subseteq MidStart(k) + 1 .. MidEnd(k),
           out = Front(zoneB, k.first, MidStart(k)) \o mid
    PROVE  PayloadInv'
<1> DEFINE e == Organized(k, out)
<1>1. cursor[k.session] \in Nat
  BY DEF PayloadInv
<1>2. e.pc = "think" /\ Whole(e)
  BY <1>1, OrganizedWhole
<1> HIDE DEF e
<1>3. CallHolds(e)
  BY <1>2 DEF CallHolds
<1>4. call' = [call EXCEPT ![c] = e] /\ rows' \in [Sessions -> Nat] /\ UNCHANGED cursor
  BY DEF e, PayloadInv
<1> QED BY <1>3, <1>4, OneCallHolds

(* An organisation begins.                                                 *)
LEMMA OrganizeHolds ==
    ASSUME PayloadInv, CountInv, NEW c \in Calls, OrganizeContext(c)
    PROVE  PayloadInv'
<1> DEFINE j == call[c]
           s == j.session
           last == rows[s]
           first == ReadStart(last, cursor[s])
           boundary == CompactBoundary(turns[s], last - first)
           zoneB(hasB) == IF hasB THEN <<Memories>> ELSE <<>>
           front(hasB) == <<System>> \o zoneB(hasB) \o RowsOf(first, first + boundary)
           run(hasB) == [j EXCEPT !.pc = "compact", !.turnCount = turns[s],
                           !.first = first, !.last = last,
                           !.boundary = boundary, !.block = 1,
                           !.probe = paused, !.out = front(hasB)]
<1>1. PICK hasB \in BOOLEAN :
         call' = [call EXCEPT ![c] =
                    IF MidEnd(run(hasB)) > MidStart(run(hasB)) THEN run(hasB)
                    ELSE Organized(run(hasB), front(hasB))]
  BY DEF OrganizeContext
<1>2. /\ j.pc = "prompt" /\ s \in Sessions /\ DOMAIN j = Fields
      /\ UNCHANGED <<rows, cursor>>
  BY DEF OrganizeContext, CountInv, Called
<1>3. last \in Nat /\ cursor[s] \in Nat
  BY <1>2 DEF PayloadInv
<1>4. j.condensed = {}
  BY <1>2 DEF PayloadInv, CallHolds
<1>5. first \in Nat /\ first <= cursor[s] /\ first <= Greater(0, last - K)
  BY <1>3, WindowBounds
<1> HIDE DEF first, s, last
<1>6. last - first \in Nat
  BY <1>3, <1>5 DEF Greater, K
<1>7. boundary \in Nat /\ boundary <= Greater(0, last - first - X)
  BY <1>6, FrontBounds
<1> DEFINE B == zoneB(hasB)
           k == run(hasB)
           out == front(hasB)
<1>8. B \in ZoneBs
  BY DEF ZoneBs
<1>9. out = Front(B, first, first + boundary)
  BY DEF Front
<1> HIDE DEF boundary, B, out
<1>10. /\ k.pc = "compact" /\ k.session = s /\ k.first = first /\ k.last = last
       /\ k.boundary = boundary /\ k.block = 1 /\ k.condensed = {} /\ k.out = out
       /\ DOMAIN k = Fields
  <2>1. k = [j EXCEPT !.pc = "compact", !.turnCount = turns[s],
                      !.first = first, !.last = last,
                      !.boundary = boundary, !.block = 1,
                      !.probe = paused, !.out = out]
    BY DEF out, boundary, s
  <2> HIDE DEF k
  <2>2. /\ k.pc = "compact" /\ k.session = j.session /\ k.first = first /\ k.last = last
        /\ k.boundary = boundary /\ k.block = 1 /\ k.condensed = j.condensed
        /\ k.out = out /\ DOMAIN k = Fields
    BY <1>2, <2>1 DEF Fields
  <2> QED BY <1>4, <2>2 DEF s
<1> HIDE DEF k
<1>11. Zoned(k) /\ MidStart(k) = first + boundary
  BY <1>3, <1>5, <1>7, <1>10 DEF Zoned, MidStart
<1>12. /\ MidStart(k) \in Nat /\ MidEnd(k) \in Nat /\ MidStart(k) <= MidEnd(k)
  BY <1>11, ZoneEnds
<1>13. /\ out = Front(B, k.first, MidStart(k))
  BY <1>9, <1>10, <1>11
<1>14. out \in Seq(Messages) /\ out = out \o <<>>
  <2>1. k.first \in Nat /\ k.first <= MidStart(k)
    BY <1>11, ZoneEnds DEF Zoned
  <2>2. out \in Seq(Messages)
    BY <1>8, <1>12, <1>13, <2>1, FrontLaid DEF Laid
  <2> QED BY <2>2, ConcatEmptySeq
<1>15. <<>> \in Seq(Messages) /\ OnlyRows(<<>>)
  BY DEF OnlyRows
<1>16. Laid(<<>>, MidStart(k), MidStart(k), {})
  <2>1. MidStart(k) + 1 .. MidStart(k) = {}
    BY <1>12
  <2> QED BY <1>12, <2>1, NothingLaid
<1>17. CASE call' = [call EXCEPT ![c] = Organized(k, out)] /\ ~(MidEnd(k) > MidStart(k))
  <2>1. MidEnd(k) = MidStart(k)
    BY <1>12, <1>17
  <2>2. Laid(<<>>, MidStart(k), MidEnd(k), k.condensed)
    BY <1>10, <1>16, <2>1
  <2>3. k.condensed \subseteq MidStart(k) + 1 .. MidEnd(k)
    BY <1>10
  <2>4. /\ k.out = Front(B, k.first, MidStart(k)) \o <<>>
        /\ out = Front(B, k.first, MidStart(k)) \o <<>>
    BY <1>10, <1>13, <1>14
  <2>5. k.session \in Sessions /\ k.first <= cursor[k.session]
    BY <1>2, <1>5, <1>10
  <2> QED BY <1>2, <1>8, <1>10, <1>11, <1>15, <1>17, <2>2, <2>3, <2>4, <2>5, RunEnds
<1>18. CASE call' = [call EXCEPT ![c] = k] /\ MidEnd(k) > MidStart(k)
  <2>1. BlockStart(k) = MidStart(k)
    BY <1>10, <1>12 DEF BlockStart, Y
  <2>2. \E b \in ZoneBs, mid \in Seq(Messages) :
           /\ OnlyRows(mid)
           /\ k.out = Front(b, k.first, MidStart(k)) \o mid
           /\ Laid(mid, MidStart(k), BlockStart(k), k.condensed)
    BY <1>8, <1>10, <1>13, <1>14, <1>15, <1>16, <2>1
  <2>3. Underway(k)
    <3>1. k.block \in Nat \ {0} /\ BlockStart(k) < MidEnd(k)
      BY <1>10, <1>12, <1>18, <2>1
    <3>2. k.condensed \subseteq MidStart(k) + 1 .. BlockStart(k)
      BY <1>10
    <3> QED BY <1>11, <2>2, <3>1, <3>2, Zenon DEF Underway
  <2>4. CallHolds(k)
    BY <1>5, <1>10, <2>3 DEF CallHolds
  <2>5. rows' \in [Sessions -> Nat]
    BY <1>2 DEF PayloadInv
  <2> QED BY <1>2, <1>18, <2>4, <2>5, OneCallHolds
<1> QED BY <1>1, <1>17, <1>18 DEF k, out

(* A block ends: put takes its place, and the rows that put leaves out are *)
(* condensed.                                                              *)
LEMMA GoOnHolds ==
    ASSUME PayloadInv, CountInv, NEW c \in Calls, NEW put, NEW gone, NEW stop,
           call[c].pc = "compact",
           Laid(put, BlockStart(call[c]), BlockEnd(call[c]), gone), OnlyRows(put),
           gone \subseteq BlockStart(call[c]) + 1 .. BlockEnd(call[c]),
           GoOn(c, call[c].out \o put, call[c].condensed \cup gone, stop),
           UNCHANGED <<rows, cursor>>
    PROVE  PayloadInv'
<1> DEFINE k == call[c]
           condensed == k.condensed \cup gone
           here == [k EXCEPT !.condensed = condensed]
           p == MidStart(k)
           q == MidEnd(k)
           from == BlockStart(k)
           to == BlockEnd(k)
           next == [here EXCEPT !.block = @ + 1, !.attempt = 0,
                                !.probe = FALSE, !.out = k.out \o put]
           rest == RowsOf(to, q)
<1>1. /\ DOMAIN k = Fields /\ k.session \in Sessions
      /\ Underway(k) /\ k.first <= cursor[k.session]
  BY DEF CountInv, Called, PayloadInv, CallHolds
<1>2. Zoned(k) /\ k.block \in Nat \ {0} /\ from < q /\ k.condensed \subseteq p + 1 .. from
  BY <1>1 DEF Underway
<1>3. PICK zoneB \in ZoneBs, old \in Seq(Messages) :
         /\ OnlyRows(old)
         /\ k.out = Front(zoneB, k.first, p) \o old
         /\ Laid(old, p, from, k.condensed)
  BY <1>1 DEF Underway
<1>4. /\ p \in Nat /\ q \in Nat /\ k.first \in Nat /\ k.first <= p
      /\ from \in Nat /\ p <= from /\ to \in Nat /\ from < to /\ to <= q
      /\ to # q => to = p + k.block * Y
  BY <1>2, ZoneEnds, BlockBounds DEF Zoned
<1> DEFINE front == Front(zoneB, k.first, p)
<1>5. front \in Seq(Messages)
  BY <1>4, FrontLaid DEF Laid
<1>6. Laid(put, from, to, gone) /\ gone \subseteq from + 1 .. to
  OBVIOUS
<1>7. /\ DOMAIN here = Fields /\ here.session = k.session /\ here.out = k.out
      /\ here.first = k.first /\ here.last = k.last /\ here.boundary = k.boundary
      /\ here.block = k.block /\ here.condensed = condensed /\ here.pc = "compact"
  <2> HIDE DEF condensed
  <2> QED BY <1>1 DEF Fields
<1>8. \/ /\ call' = [call EXCEPT ![c] = Organized(here, (k.out \o put) \o rest)]
      \/ /\ call' = [call EXCEPT ![c] = next]
         /\ to # q
  BY DEF GoOn
<1> HIDE DEF here
<1>9. Zoned(here) /\ MidStart(here) = p /\ MidEnd(here) = q
  BY <1>2, <1>7 DEF Zoned, MidStart, MidEnd
<1> HIDE DEF p, q, from, to, condensed, front
<1>10. /\ Laid(old \o put, p, to, condensed)
       /\ old \o put \in Seq(Messages)
       /\ put \in Seq(Messages)
  <2>1. Laid(old, p, from, k.condensed) /\ Laid(put, from, to, gone)
    BY <1>3, <1>6
  <2>2. /\ p \in Nat /\ from \in Nat /\ to \in Nat /\ p <= from /\ from <= to
    BY <1>4
  <2>3. Laid(old \o put, p, to, k.condensed \cup gone)
    BY <2>1, <2>2, Joined
  <2> QED BY <2>1, <2>3 DEF Laid, condensed
<1>11. condensed \subseteq p + 1 .. to /\ condensed \subseteq p + 1 .. q
  <2>1. /\ p + 1 .. from \subseteq p + 1 .. to /\ from + 1 .. to \subseteq p + 1 .. to
        /\ p + 1 .. to \subseteq p + 1 .. q
    BY <1>4
  <2> QED BY <1>2, <1>6, <2>1 DEF condensed
<1>12. k.out \o put = front \o (old \o put)
  BY <1>3, <1>5, <1>10, ConcatAssociative DEF front
<1>13. OnlyRows(old \o put)
  <2>1. /\ Len(old) \in Nat /\ Len(put) \in Nat
        /\ \A i \in 1 .. Len(old) : (old \o put)[i] = old[i]
        /\ \A i \in 1 .. Len(old \o put) : i > Len(old) =>
              i - Len(old) \in 1 .. Len(put) /\ (old \o put)[i] = put[i - Len(old)]
    BY <1>10, Catenation
  <2>2. ASSUME NEW i \in 1 .. Len(old \o put) PROVE (old \o put)[i].kind \in Rows
    <3>1. CASE i <= Len(old)
      BY <1>3, <2>1, <3>1 DEF OnlyRows
    <3>2. CASE i > Len(old)
      BY <2>1, <3>2 DEF OnlyRows
    <3> QED BY <2>1, <3>1, <3>2
  <2> QED BY <2>2 DEF OnlyRows
<1>14. CASE call' = [call EXCEPT ![c] = Organized(here, (k.out \o put) \o rest)]
  <2> DEFINE mid == (old \o put) \o rest
  <2>1. Laid(rest, to, q, {})
    BY <1>4, RowsLaid
  <2>2. Laid(mid, p, q, condensed)
    <3>1. Laid(mid, p, q, condensed \cup {})
      <4>1. p <= to
        BY <1>4
      <4> QED BY <1>4, <1>10, <2>1, <4>1, Joined
    <3>2. condensed \cup {} = condensed
      OBVIOUS
    <3> QED BY <3>1, <3>2
  <2>3. (k.out \o put) \o rest = front \o mid
    <3>1. rest \in Seq(Messages)
      BY <2>1 DEF Laid
    <3> HIDE DEF rest
    <3>2. (front \o (old \o put)) \o rest = front \o ((old \o put) \o rest)
      <4> DEFINE middle == old \o put
      <4>1. middle \in Seq(Messages)
        BY <1>10
      <4> HIDE DEF middle
      <4>2. (front \o middle) \o rest = front \o (middle \o rest)
        BY <1>5, <3>1, <4>1, ConcatAssociative, SMTT(30)
      <4> QED BY <4>2 DEF middle
    <3> QED BY <1>12, <3>2
  <2> DEFINE out == (k.out \o put) \o rest
  <2> HIDE DEF mid, out
  <2>4. /\ Laid(mid, MidStart(here), MidEnd(here), here.condensed)
        /\ here.condensed \subseteq MidStart(here) + 1 .. MidEnd(here)
    BY <1>7, <1>9, <1>11, <2>2
  <2>5. /\ out = Front(zoneB, here.first, MidStart(here)) \o mid
        /\ here.out = Front(zoneB, here.first, MidStart(here)) \o old
    BY <1>3, <1>7, <1>9, <2>3 DEF front, out
  <2>6. here.session \in Sessions /\ here.first <= cursor[here.session]
    BY <1>1, <1>7
  <2>7. call' = [call EXCEPT ![c] = Organized(here, out)]
    BY <1>14 DEF out
  <2> QED BY <1>3, <1>7, <1>9, <2>4, <2>5, <2>6, <2>7, RunEnds
<1>15. CASE call' = [call EXCEPT ![c] = next] /\ to # q
  <2> DEFINE out == k.out \o put
  <2> HIDE DEF out
  <2>1. /\ next.pc = "compact" /\ next.session = k.session /\ next.first = k.first
        /\ next.last = k.last /\ next.boundary = k.boundary
        /\ next.block = k.block + 1 /\ next.condensed = condensed
        /\ next.out = out
    BY <1>7 DEF Fields, out
  <2> HIDE DEF next
  <2>2. Zoned(next) /\ MidStart(next) = p /\ MidEnd(next) = q
    BY <1>2, <2>1 DEF Zoned, MidStart, MidEnd, p, q
  <2>3. BlockStart(next) = to
    <3>1. (k.block + 1) - 1 = k.block
      BY <1>2
    <3> QED BY <1>4, <1>15, <2>1, <2>2, <3>1 DEF BlockStart
  <2>4. next.block \in Nat \ {0} /\ BlockStart(next) < MidEnd(next)
    BY <1>2, <1>4, <1>15, <2>1, <2>2, <2>3
  <2>5. next.condensed \subseteq MidStart(next) + 1 .. BlockStart(next)
    BY <1>11, <2>1, <2>2, <2>3
  <2>6. /\ OnlyRows(old \o put)
        /\ next.out = Front(zoneB, next.first, MidStart(next)) \o (old \o put)
        /\ Laid(old \o put, MidStart(next), BlockStart(next), next.condensed)
    BY <1>10, <1>12, <1>13, <2>1, <2>2, <2>3 DEF front, out
  <2>7. Underway(next)
    BY <1>10, <2>2, <2>4, <2>5, <2>6, Zenon DEF Underway
  <2>8. next.first <= cursor[next.session]
    BY <1>1, <2>1
  <2>9. CallHolds(next)
    BY <2>1, <2>7, <2>8 DEF CallHolds
  <2>10. rows' \in [Sessions -> Nat]
    BY DEF PayloadInv
  <2> QED BY <1>15, <2>9, <2>10, OneCallHolds
<1> QED BY <1>8, <1>14, <1>15

(* The model answers about a block, or has failed twice.                   *)
LEMMA BlockHolds ==
    ASSUME PayloadInv, CountInv, NEW c \in Calls,
           (\E a \in Answers : BlockAnswered(c, ParseVerdict(a))) \/ BlockFailed(c)
    PROVE  PayloadInv'
<1> DEFINE k == call[c]
           from == BlockStart(k)
           to == BlockEnd(k)
<1>1. k.pc = "compact" /\ UNCHANGED <<rows, cursor>>
  BY DEF BlockAnswered, BlockFailed
<1>2. from \in Nat /\ to \in Nat /\ from < to
  <2>1. Underway(k)
    BY <1>1 DEF PayloadInv, CallHolds
  <2> QED BY <2>1, BlockBounds DEF Underway
<1> HIDE DEF from, to
<1>3. /\ Laid(RowsOf(from, to), from, to, {}) /\ OnlyRows(RowsOf(from, to))
  <2>1. /\ Laid(RowsOf(from, to), from, to, {}) /\ Len(RowsOf(from, to)) = to - from
        /\ \A i \in 1 .. to - from : RowsOf(from, to)[i] = Message("row", from + i, from + i)
    BY <1>2, RowsLaid
  <2> QED BY <2>1, KindsApart DEF OnlyRows, Rows
<1>4. Laid(<<>>, from, to, from + 1 .. to) /\ OnlyRows(<<>>)
  BY <1>2, NothingLaid DEF OnlyRows
<1>5. /\ Laid(<<Summary(from + 1, to)>>, from, to, {})
      /\ OnlyRows(<<Summary(from + 1, to)>>)
  <2>1. Summary(from + 1, to).kind = "summary"
    BY DEF Summary, Message
  <2> QED BY <1>2, <2>1, SummaryLaid DEF OnlyRows, Rows
<1>6. Laid(<<Summary(from + 1, to)>>, from, to, from + 1 .. to)
  BY <1>5 DEF Laid
<1>7. ASSUME NEW put, NEW gone, NEW stop,
             Laid(put, from, to, gone), OnlyRows(put), gone \subseteq from + 1 .. to,
             GoOn(c, k.out \o put, k.condensed \cup gone, stop)
      PROVE  PayloadInv'
  BY <1>1, <1>7, GoOnHolds DEF from, to
<1>8. k.condensed \cup {} = k.condensed /\ {} \subseteq from + 1 .. to
  OBVIOUS
<1>9. ASSUME NEW a \in Answers, BlockAnswered(c, ParseVerdict(a)) PROVE PayloadInv'
  <2> DEFINE verdict == ParseVerdict(a)
             put == CASE verdict = "keep" -> RowsOf(from, to)
                      [] verdict = "delete" -> <<>>
                      [] verdict = "compact" -> <<Summary(from + 1, to)>>
  <2>1. verdict \in {"keep", "delete", "compact"}
    BY DEF ParseVerdict
  <2>2. GoOn(c, k.out \o put,
             IF verdict = "keep" THEN k.condensed ELSE k.condensed \cup (from + 1 .. to),
             paused')
    BY <1>9 DEF BlockAnswered, from, to
  <2> HIDE DEF verdict
  <2>3. CASE verdict = "keep"
    <3>1. GoOn(c, k.out \o RowsOf(from, to), k.condensed, paused')
      BY <2>2, <2>3
    <3>2. GoOn(c, k.out \o RowsOf(from, to), k.condensed \cup {}, paused')
      BY <1>8, <3>1
    <3> QED BY <1>3, <1>7, <1>8, <3>2
  <2>4. CASE verdict = "delete"
    <3>1. GoOn(c, k.out \o <<>>, k.condensed \cup (from + 1 .. to), paused')
      BY <2>2, <2>4
    <3> QED BY <1>4, <1>7, <3>1
  <2>5. CASE verdict = "compact"
    <3>1. GoOn(c, k.out \o <<Summary(from + 1, to)>>,
               k.condensed \cup (from + 1 .. to), paused')
      BY <2>2, <2>5
    <3> QED BY <1>5, <1>6, <1>7, <3>1
  <2> QED BY <2>1, <2>3, <2>4, <2>5
<1>10. CASE BlockFailed(c)
  <2>1. GoOn(c, k.out \o RowsOf(from, to), k.condensed, paused' \/ k.probe)
    BY <1>10 DEF BlockFailed, from, to
  <2>2. GoOn(c, k.out \o RowsOf(from, to), k.condensed \cup {}, paused' \/ k.probe)
    BY <1>8, <2>1
  <2> QED BY <1>3, <1>7, <1>8, <2>2
<1> QED BY <1>9, <1>10

(* The same block again, the end of a call, and a pass of layer 1.         *)
LEMMA OtherHolds ==
    ASSUME PayloadInv, CountInv,
           \/ \E c \in Calls : \/ BlockRetried(c) \/ TurnCompleted(c)
                               \/ TurnInterrupted(c) \/ TickAnswered(c)
           \/ \E s \in Sessions : Digest(s)
           \/ UNCHANGED vars
    PROVE  PayloadInv'
<1>1. ASSUME NEW c \in Calls, BlockRetried(c) PROVE PayloadInv'
  <2> DEFINE j == call[c]
             k == [j EXCEPT !.attempt = 1]
  <2>1. /\ DOMAIN j = Fields /\ Underway(j) /\ j.first <= cursor[j.session]
        /\ j.pc = "compact" /\ UNCHANGED <<rows, cursor>>
    BY <1>1 DEF BlockRetried, CountInv, Called, PayloadInv, CallHolds
  <2>2. /\ k.pc = "compact" /\ k.session = j.session /\ k.first = j.first
        /\ k.last = j.last /\ k.boundary = j.boundary /\ k.block = j.block
        /\ k.condensed = j.condensed /\ k.out = j.out
    BY <2>1 DEF Fields
  <2>3. call' = [call EXCEPT ![c] = k]
    BY <1>1 DEF BlockRetried
  <2> HIDE DEF k
  <2>4. Underway(k)
    BY <2>1, <2>2 DEF Underway, Zoned, MidStart, MidEnd, BlockStart
  <2>5. CallHolds(k)
    BY <2>1, <2>2, <2>4 DEF CallHolds
  <2>6. rows' \in [Sessions -> Nat]
    BY <2>1 DEF PayloadInv
  <2> QED BY <2>1, <2>3, <2>5, <2>6, OneCallHolds
<1>2. ASSUME NEW c \in Calls,
             TurnCompleted(c) \/ TurnInterrupted(c) \/ TickAnswered(c)
      PROVE  PayloadInv'
  <2>1. /\ call' = [call EXCEPT ![c] = Blank("done")] /\ UNCHANGED cursor
    BY <1>2 DEF TurnCompleted, TurnInterrupted, TickAnswered
  <2>2. rows' \in [Sessions -> Nat]
    <3>1. \E n \in {0, 1, 2} : rows' = [rows EXCEPT ![call[c].session] = @ + n]
      BY <1>2 DEF TurnCompleted, TurnInterrupted, TickAnswered
    <3>2. call[c].session \in Sessions
      BY <1>2 DEF TurnCompleted, TurnInterrupted, TickAnswered, CountInv, Called
    <3> DEFINE t == call[c].session
    <3>3. PICK n \in {0, 1, 2} : rows' = [rows EXCEPT ![t] = @ + n]
      BY <3>1
    <3> HIDE DEF t
    <3> QED BY <3>2, <3>3 DEF PayloadInv, t
  <2>3. CallHolds(Blank("done"))
    BY BlankFields DEF CallHolds
  <2> QED BY <2>1, <2>2, <2>3, OneCallHolds
<1>3. ASSUME NEW s \in Sessions, Digest(s) PROVE PayloadInv'
  <2>1. /\ rows' \in [Sessions -> Nat] /\ cursor' \in [Sessions -> Nat]
        /\ \A t \in Sessions : cursor[t] <= cursor'[t]
        /\ call' = call
    BY <1>3 DEF Digest, PayloadInv
  <2>2. \A c \in Calls : CallHolds(call[c])'
    BY <2>1, MoreDigested
  <2> QED BY <2>1, <2>2 DEF PayloadInv
<1>4. CASE UNCHANGED vars
  <2>1. /\ rows' \in [Sessions -> Nat] /\ cursor' \in [Sessions -> Nat]
        /\ \A t \in Sessions : cursor[t] <= cursor'[t]
        /\ call' = call
    BY <1>4 DEF vars, PayloadInv
  <2>2. \A c \in Calls : CallHolds(call[c])'
    BY <2>1, MoreDigested
  <2> QED BY <2>1, <2>2 DEF PayloadInv
<1> QED BY <1>1, <1>2, <1>3, <1>4

\* No step leaves a call with a gap in its payload.
LEMMA PayloadNext == PayloadInv /\ CountInv /\ [Next]_vars => PayloadInv'
<1> SUFFICES ASSUME PayloadInv, CountInv, [Next]_vars PROVE PayloadInv'
  OBVIOUS
<1> QED BY BeginHolds, AssembleHolds, OrganizeHolds, BlockHolds, OtherHolds DEF Next

-----------------------------------------------------------------------------
(* The counts in the table, and those that the compactions under way hold, *)
(* in every reachable state.                                               *)
THEOREM CountInvariance == Spec => []CountInv
  BY CountInit, CountNext, PTL DEF Spec

(* turn_count never exceeds the successful inferences and lags behind them *)
(* by those that overtook a compaction at most, however many overlap       *)
(* (stage2OrganizeContext() and recordTurnAfterBrain()).                   *)
THEOREM TurnsCountedAlways == Spec => []TurnsCounted
<1>1. CountInv => TurnsCounted
  BY DEF CountInv
<1> QED BY <1>1, CountInvariance, PTL

(* The compaction pauses after three failures in a row and resumes after a *)
(* success, however many calls of _compactZoneCMid() share its count.      *)
THEOREM PauseEarnedAlways == Spec => PauseEarned
<1>1. PauseInv /\ [Next]_vars =>
         [/\ ~paused /\ paused' => outcomes' = <<"failed", "failed", "failed">>
          /\ paused /\ ~paused' => outcomes'[Len(outcomes')] = "ok"]_vars
  BY PauseNext DEF PauseStep
<1>2. PauseInv /\ [Next]_vars => PauseInv'
  BY PauseNext
<1> QED BY <1>1, <1>2, PauseInit, PTL DEF Spec, PauseEarned

(* Every payload that reaches the Brain is whole: its rows come in order   *)
(* and once, the last five word for word, and what it lacks layer 1 has    *)
(* read or the model has had condensed in zone C-mid.  Its breakpoints     *)
(* keep their invariant, so stage 2 never throws, and stand at the ends of *)
(* their zones (assemblePayloadForEvent() and stage2OrganizeContext()).    *)
THEOREM PayloadWholeAlways == Spec => []PayloadWhole
<1>1. PayloadInv => PayloadWhole
  BY DEF PayloadInv, CallHolds, PayloadWhole
<1> QED BY <1>1, PayloadInit, PayloadNext, CountInvariance, PTL DEF Spec

=============================================================================
