--------------------------- MODULE ToolLoopProofs ---------------------------
(***************************************************************************)
(* Proofs about ToolLoop.                                                  *)
(***************************************************************************)
EXTENDS ToolLoop, TLAPS

\* An envelope is a reply.
LEMMA EnvelopeType ==
  ASSUME NEW kind \in {"none", "rejected", "completed", "failed", "approval_pending"},
         NEW c \in Calls \cup {Null}, NEW s \in Suspensions \cup {Null}
  PROVE  Envelope(kind, c, s) \in Reply
BY DEF Envelope, Reply

\* So are no reply and a rejection.
LEMMA RepliesTyped == NoReply \in Reply /\ Rejection \in Reply
BY EnvelopeType DEF NoReply, Rejection

\* A call and a row that are not there are well typed.
LEMMA BlankTyped == Idle \in Call /\ Absent \in Row
BY RepliesTyped DEF Idle, Absent, Call, Row

\* A call that ends keeps what it was asked to resume and gets a reply.
LEMMA OverType ==
  ASSUME TypeOK, NEW c \in Calls, NEW reply \in Reply
  PROVE  Over(c, reply) \in Call
BY BlankTyped DEF TypeOK, Over, Idle, Call

\* No step leaves the types of the calls.
LEMMA CallTypeNext ==
  ASSUME LoopInv, Next
  PROVE  call' \in [Calls -> Call]
<1> USE DEF LoopInv, TypeOK
<1>1. ASSUME NEW c \in Calls, NEW reply \in Reply, Ended(c, reply)
      PROVE  call' \in [Calls -> Call]
  BY <1>1, OverType DEF Ended
<1>2. ASSUME NEW c \in Calls, Start(c)
      PROVE  call' \in [Calls -> Call]
  <2>1. CASE StartLoop(c)
    <3>1. PICK rounds \in 1 .. HardCap :
            call' = [call EXCEPT ![c] = [@ EXCEPT
              !.pc = "asking", !.budget = rounds, !.round = 1, !.grant = rounds]]
      BY <2>1 DEF StartLoop
    <3>2. rounds \in Nat
      BY CapAssumption
    <3> QED  BY <3>1, <3>2, ZenonT(40) DEF Call
  <2>2. ASSUME NEW s \in Suspensions, NEW a \in Approvals, StartResume(c, s, a)
        PROVE  call' \in [Calls -> Call]
    <3>1. rows[s].open - 1 \in Nat /\ rows[s].remaining \in Nat /\ rows[s].used \in Nat
          /\ rows[s].grant \in Nat
      BY <2>2 DEF StartResume, Resumable, Row
    <3> QED  BY <2>2, <3>1, ZenonT(40) DEF StartResume, RoundsLeft, Call
  <2>3. ASSUME NEW s \in Suspensions, NEW a \in Approvals, NEW reply \in Reply,
               Answer(c, s, a, reply)
        PROVE  call' \in [Calls -> Call]
    BY <2>3, ZenonT(40) DEF Answer, Call
  <2>4. ASSUME NEW s \in Suspensions PROVE rows[s].final \in Reply
    BY DEF Row
  <2> QED
    BY <1>2, <2>1, <2>2, <2>3, <2>4, RepliesTyped, EnvelopeType
    DEF Start, ResumeWithoutRounds, ReplayResume, RejectResume
<1>3. ASSUME NEW c \in Calls, Round(c)
      PROVE  call' \in [Calls -> Call]
  <2>1. CASE ProviderCallsTools(c)
    <3>1. PICK n \in 1 .. MaxToolCalls :
            call' = [call EXCEPT ![c] = [@ EXCEPT
              !.pc = "dispatching", !.queue = n, !.used = call[c].used + 1, !.open = call[c].open + n]]
      BY <2>1 DEF ProviderCallsTools
    <3>2. n \in Nat /\ call[c].used + 1 \in Nat /\ call[c].open + n \in Nat
      BY CapAssumption DEF Call
    <3> QED  BY <3>1, <3>2, ZenonT(40) DEF Call
  <2>2. CASE ToolAnswers(c)
    <3>1. call[c].queue - 1 \in Nat /\ call[c].open - 1 \in Nat
      BY <2>2 DEF ToolAnswers, Call
    <3> QED  BY <2>2, <3>1, ZenonT(40) DEF ToolAnswers, Call
  <2>3. CASE NextRound(c)
    <3>1. call[c].round + 1 \in Nat /\ call[c].open - 1 \in Nat
      BY <2>3 DEF NextRound, Call
    <3> QED  BY <2>3, <3>1, ZenonT(40) DEF NextRound, Call
  <2> QED  BY <1>3, <2>1, <2>2, <2>3 DEF Round
<1>4. ASSUME NEW c \in Calls, End(c)
      PROVE  call' \in [Calls -> Call]
  BY <1>1, <1>4, RepliesTyped, EnvelopeType
  DEF End, ProviderCompletes, RoundsExceeded, ToolWantsApproval, CallRejects,
      ChainRejects, Pointer
<1>5. CASE CrashAndRestart
  BY <1>5, OverType, RepliesTyped DEF CrashAndRestart
<1>6. ASSUME NEW s \in Suspensions, Revoke(s)
      PROVE  call' \in [Calls -> Call]
  BY <1>6 DEF Revoke
<1> QED  BY <1>2, <1>3, <1>4, <1>5, <1>6 DEF Next

-----------------------------------------------------------------------------
(***************************************************************************)
(* What a step does to the table, and to the calls, as a whole.            *)
(***************************************************************************)
NewRow(c, s, a) == MayWantApproval(c) /\ rows[s].status = "absent"
MayClose(s) ==
  /\ rows[s].status # "absent"
  /\ rows[s].status = "pending" \/ \E c \in Calls : InFlight(c) /\ call[c].from = s

\* What a step does to the rows: one is closed, or one is inserted.
LEMMA RowSteps ==
  ASSUME LoopInv, Next
  PROVE  \/ UNCHANGED rows
         \/ \E s \in Suspensions, a \in NewApproval, e \in Reply :
              /\ IsEnvelope(e) /\ e.next = Null /\ MayClose(s)
              /\ rows' = MarkResumed(rows, s, a, e)
         \/ \E c \in Calls, s \in Suspensions, a \in NewApproval :
              NewRow(c, s, a) /\ rows' = Suspended(c, s, a)
         \/ \E c \in Calls, s \in Suspensions, a \in NewApproval :
              /\ NewRow(c, s, a) /\ call[c].from \in Suspensions
              /\ rows' = MarkResumed(Suspended(c, s, a), call[c].from, call[c].key,
                                     Envelope("approval_pending", c, s))
         \/ \E s \in Suspensions : Revoke(s)
<1> USE DEF LoopInv, TypeOK
<1>1. ASSUME NEW c \in Calls, InFlight(c), NEW e \in Reply, IsEnvelope(e), e.next = Null,
             rows' = Closed(rows, c, e)
      PROVE  \/ UNCHANGED rows
             \/ \E s \in Suspensions, a \in NewApproval, f \in Reply :
                  /\ IsEnvelope(f) /\ f.next = Null /\ MayClose(s)
                  /\ rows' = MarkResumed(rows, s, a, f)
  <2>1. call[c].from \in Suspensions \cup {Null} /\ call[c].key \in NewApproval
    BY DEF Call, NewApproval
  <2> QED  BY <1>1, <2>1 DEF Closed, Accounted, MayClose
<1>2. ASSUME NEW c \in Calls, Completes(c) \/ Fails(c)
      PROVE  \/ UNCHANGED rows
             \/ \E s \in Suspensions, a \in NewApproval, f \in Reply :
                  /\ IsEnvelope(f) /\ f.next = Null /\ MayClose(s)
                  /\ rows' = MarkResumed(rows, s, a, f)
  BY <1>1, <1>2, EnvelopeType
  DEF Completes, Fails, Exhausted, InFlight, IsEnvelope, Envelope
<1>3. ASSUME NEW c \in Calls, NEW s \in Suspensions, NEW a \in NewApproval,
             Suspends(c, s, a)
      PROVE  \/ NewRow(c, s, a) /\ rows' = Suspended(c, s, a)
             \/ /\ NewRow(c, s, a) /\ call[c].from \in Suspensions
                /\ rows' = MarkResumed(Suspended(c, s, a), call[c].from, call[c].key,
                                       Envelope("approval_pending", c, s))
  <2>1. call[c].from \in Suspensions \cup {Null}
    BY DEF Call
  <2> QED  BY <1>3, <2>1 DEF Suspends, NewRow, Closed, Pointer
<1>4. ASSUME NEW c \in Calls, NEW s \in Suspensions, NEW a \in NewApproval,
             Inserts(c, s, a)
      PROVE  NewRow(c, s, a) /\ rows' = Suspended(c, s, a)
  BY <1>4 DEF Inserts, NewRow
<1>5. ASSUME NEW c \in Calls, Start(c)
      PROVE  \/ UNCHANGED rows
             \/ \E s \in Suspensions, a \in NewApproval, f \in Reply :
                  /\ IsEnvelope(f) /\ f.next = Null /\ MayClose(s)
                  /\ rows' = MarkResumed(rows, s, a, f)
  <2>1. ASSUME NEW s \in Suspensions, NEW a \in Approvals, ResumeWithoutRounds(c, s, a)
        PROVE  /\ Envelope("failed", c, Null) \in Reply
               /\ IsEnvelope(Envelope("failed", c, Null))
               /\ Envelope("failed", c, Null).next = Null /\ MayClose(s)
               /\ a \in NewApproval
               /\ rows' = MarkResumed(rows, s, a, Envelope("failed", c, Null))
    BY <2>1, EnvelopeType
    DEF ResumeWithoutRounds, Resumable, IsEnvelope, Envelope, NewApproval, MayClose
  <2> QED
    BY <1>5, <2>1 DEF Start, StartLoop, StartResume, ReplayResume, RejectResume
<1>6. CASE CrashAndRestart
  BY <1>2, <1>3, <1>4, <1>6 DEF CrashAndRestart, Commits
<1>7. ASSUME NEW c \in Calls, End(c)
      PROVE  \/ Completes(c) \/ Fails(c)
             \/ \E s \in Suspensions, a \in NewApproval :
                  Suspends(c, s, a) \/ Inserts(c, s, a)
             \/ UNCHANGED rows
  BY <1>7 DEF End, ProviderCompletes, RoundsExceeded, ToolWantsApproval, CallRejects,
              ChainRejects
<1>8. ASSUME NEW c \in Calls, Round(c)
      PROVE  UNCHANGED rows
  BY <1>8 DEF Round, ProviderCallsTools, ToolAnswers, NextRound
<1> QED  BY <1>2, <1>3, <1>4, <1>5, <1>6, <1>7, <1>8 DEF Next

\* A row is typed however it came about.
LEMMA RowTypeNext ==
  ASSUME LoopInv, Next
  PROVE  rows' \in [Suspensions -> Row]
<1> USE DEF LoopInv, TypeOK
<1>1. ASSUME NEW rw \in [Suspensions -> Row], NEW s \in Suspensions,
             NEW a \in NewApproval, NEW e \in Reply
      PROVE  MarkResumed(rw, s, a, e) \in [Suspensions -> Row]
  BY ZenonT(40) DEF MarkResumed, Row, NewApproval
<1>2. ASSUME NEW c \in Calls, NEW s \in Suspensions, NEW a \in NewApproval,
             NewRow(c, s, a)
      PROVE  Suspended(c, s, a) \in [Suspensions -> Row]
  <2>1. RoundsAfter(c) \in Nat
    BY <1>2 DEF NewRow, MayWantApproval, BudgetKept, InFlight, RoundsAfter, Call
  <2>2. /\ call[c].used \in Nat /\ call[c].open \in Nat /\ call[c].grant \in Nat
        /\ call[c].from \in Suspensions \cup {Null}
    BY DEF Call
  <2> QED  BY <2>1, <2>2, RepliesTyped DEF Suspended, Row, NewApproval
<1>3. ASSUME NEW c \in Calls PROVE call[c].key \in NewApproval
  BY DEF Call, NewApproval
<1>4. ASSUME NEW s \in Suspensions, Revoke(s)
      PROVE  rows' \in [Suspensions -> Row]
  BY <1>4 DEF Revoke, Row
<1>5. ASSUME NEW c \in Calls, NEW s \in Suspensions, NEW a \in NewApproval,
             NewRow(c, s, a), call[c].from \in Suspensions,
             rows' = MarkResumed(Suspended(c, s, a), call[c].from, call[c].key,
                                 Envelope("approval_pending", c, s))
      PROVE  rows' \in [Suspensions -> Row]
  <2>1. Envelope("approval_pending", c, s) \in Reply
    BY EnvelopeType
  <2> QED  BY <1>1, <1>2, <1>3, <1>5, <2>1
<1>6. CASE UNCHANGED rows
  BY <1>6
<1> QED  BY <1>1, <1>2, <1>4, <1>5, <1>6, RowSteps

\* One row: it stays, it is marked, or a call makes it.
Marked(t) ==
  /\ rows[t].status # "absent"
  /\ rows'[t].status \in {"resumed", "cancelled", "expired"}
  /\ rows'[t].remaining = rows[t].remaining /\ rows'[t].used = rows[t].used
  /\ rows'[t].open = rows[t].open /\ rows'[t].grant = rows[t].grant
  /\ rows'[t].parent = rows[t].parent
  /\ IF rows'[t].status = "resumed" THEN IsEnvelope(rows'[t].final)
                                   ELSE rows'[t].final = rows[t].final

Born(t, c) ==
  /\ rows[t].status = "absent" /\ rows'[t].status = "pending"
  /\ MayWantApproval(c)
  /\ rows'[t].remaining = call[c].budget - call[c].round
  /\ rows'[t].used = call[c].used /\ rows'[t].open = call[c].open
  /\ rows'[t].grant = call[c].grant /\ rows'[t].parent = call[c].from
  /\ rows'[t].final = NoReply

\* What a step does to one row.
LEMMA RowMoves ==
  ASSUME LoopInv, Next, NEW t \in Suspensions
  PROVE  rows'[t] = rows[t] \/ Marked(t) \/ \E c \in Calls : Born(t, c)
<1> USE DEF LoopInv, TypeOK
<1>1. ASSUME NEW s \in Suspensions, NEW a \in NewApproval, NEW e \in Reply,
             IsEnvelope(e), MayClose(s), rows' = MarkResumed(rows, s, a, e)
      PROVE  rows'[t] = rows[t] \/ Marked(t)
  BY <1>1 DEF MarkResumed, Marked, Row, MayClose
<1>2. ASSUME NEW c \in Calls, NEW s \in Suspensions, NEW a \in NewApproval,
             NewRow(c, s, a), rows' = Suspended(c, s, a)
      PROVE  rows'[t] = rows[t] \/ Born(t, c)
  BY <1>2 DEF Suspended, Born, NewRow, RoundsAfter
<1>3. ASSUME NEW c \in Calls, NEW s \in Suspensions, NEW a \in NewApproval,
             NewRow(c, s, a), call[c].from \in Suspensions,
             rows' = MarkResumed(Suspended(c, s, a), call[c].from, call[c].key,
                                 Envelope("approval_pending", c, s))
      PROVE  rows'[t] = rows[t] \/ Marked(t) \/ Born(t, c)
  <2>1. call[c].from # Null /\ InFlight(c)
    BY <1>3, NullAssumption DEF NewRow, MayWantApproval, InFlight
  <2>2. rows[call[c].from].status # "absent"
    BY <2>1 DEF Accounted
  <2>3. call[c].from # s
    BY <1>3, <2>2 DEF NewRow
  <2>4. CASE t = s
    BY <1>3, <2>3, <2>4 DEF MarkResumed, Suspended, Born, NewRow, RoundsAfter
  <2>5. CASE t = call[c].from
    BY <1>3, <2>2, <2>3, <2>5 DEF MarkResumed, Suspended, Marked, IsEnvelope, Envelope, Row
  <2>6. CASE t # s /\ t # call[c].from
    BY <1>3, <2>6 DEF MarkResumed, Suspended
  <2> QED  BY <2>4, <2>5, <2>6
<1>4. ASSUME NEW s \in Suspensions, Revoke(s)
      PROVE  rows'[t] = rows[t] \/ Marked(t)
  BY <1>4 DEF Revoke, Marked, Row
<1> QED  BY <1>1, <1>2, <1>3, <1>4, RowSteps

\* One call: it stays, it ends, it starts or it goes on.
LEMMA CallMoves ==
  ASSUME LoopInv, Next, NEW c \in Calls
  PROVE  \/ call'[c] = call[c]
         \/ call'[c].pc = "ended"
         \/ StartLoop(c)
         \/ \E s \in Suspensions, a \in Approvals : StartResume(c, s, a)
         \/ Round(c)
<1> USE DEF LoopInv, TypeOK
<1>1. ASSUME NEW d \in Calls, NEW r, Ended(d, r)
      PROVE  call'[c] = call[c] \/ call'[c].pc = "ended"
  BY <1>1 DEF Ended, Over, Idle
<1>2. ASSUME NEW d \in Calls, End(d)
      PROVE  call'[c] = call[c] \/ call'[c].pc = "ended"
  BY <1>1, <1>2 DEF End, ProviderCompletes, RoundsExceeded, ToolWantsApproval, CallRejects,
                    ChainRejects
<1>3. ASSUME NEW d \in Calls, NEW s, NEW a, NEW r, Answer(d, s, a, r)
      PROVE  call'[c] = call[c] \/ call'[c].pc = "ended"
  BY <1>3 DEF Answer, Call
<1>4. ASSUME NEW d \in Calls, Start(d)
      PROVE  \/ call'[c] = call[c]
             \/ call'[c].pc = "ended"
             \/ StartLoop(c)
             \/ \E s \in Suspensions, a \in Approvals : StartResume(c, s, a)
  <2>1. CASE d = c
    BY <1>3, <1>4, <2>1 DEF Start, ResumeWithoutRounds, ReplayResume, RejectResume
  <2>2. CASE d # c
    BY <1>3, <1>4, <2>2
    DEF Start, StartLoop, StartResume, ResumeWithoutRounds, ReplayResume, RejectResume
  <2> QED  BY <2>1, <2>2
<1>5. ASSUME NEW d \in Calls, Round(d)
      PROVE  call'[c] = call[c] \/ Round(c)
  BY <1>5 DEF Round, ProviderCallsTools, ToolAnswers, NextRound
<1>6. CASE CrashAndRestart
  BY <1>6 DEF CrashAndRestart, Over, Idle
<1>7. ASSUME NEW s \in Suspensions, Revoke(s)
      PROVE  call'[c] = call[c]
  BY <1>7 DEF Revoke
<1> QED  BY <1>2, <1>4, <1>5, <1>6, <1>7 DEF Next

-----------------------------------------------------------------------------
(***************************************************************************)
(* The parts of the invariant.                                             *)
(***************************************************************************)
LEMMA TypeNext ==
  ASSUME LoopInv, Next
  PROVE  TypeOK'
<1> USE DEF LoopInv, TypeOK
<1>1. faults' \in Nat
  <2>1. ASSUME NEW c \in Calls, Start(c) \/ Round(c) PROVE faults' = faults
    BY <2>1 DEF Start, StartLoop, StartResume, ResumeWithoutRounds, ReplayResume,
                RejectResume, Round, ProviderCallsTools, ToolAnswers, NextRound
  <2>2. ASSUME NEW c \in Calls, End(c) PROVE faults' = faults \/ faults' = faults + 1
    BY <2>2 DEF End, ProviderCompletes, RoundsExceeded, ToolWantsApproval, CallRejects,
                ChainRejects
  <2>3. CrashAndRestart => faults' = faults + 1
    BY DEF CrashAndRestart
  <2>4. ASSUME NEW s \in Suspensions, Revoke(s) PROVE faults' = faults
    BY <2>4 DEF Revoke
  <2> QED  BY <2>1, <2>2, <2>3, <2>4 DEF Next
<1>2. ASSUME NEW t \in Suspensions, rows'[t].status # "absent"
      PROVE  rows'[t].open > 0
  <2>1. ASSUME NEW c \in Calls, Born(t, c)
        PROVE  rows'[t].open > 0
    BY <2>1 DEF Born, MayWantApproval, Call
  <2> QED  BY <1>2, <2>1, RowMoves DEF Marked
<1>3. ASSUME NEW c \in Calls, call'[c].pc = "dispatching"
      PROVE  0 < call'[c].queue /\ call'[c].queue <= call'[c].open
  <2>1. CASE ProviderCallsTools(c)
    <3>1. PICK n \in 1 .. MaxToolCalls :
            call' = [call EXCEPT ![c] = [@ EXCEPT
              !.pc = "dispatching", !.queue = n, !.used = call[c].used + 1,
              !.open = call[c].open + n]]
      BY <2>1 DEF ProviderCallsTools
    <3>2. call'[c].queue = n /\ call'[c].open = call[c].open + n
      BY <3>1 DEF Call
    <3>3. call[c].open \in Nat
      BY DEF Call
    <3> QED  BY <3>2, <3>3, CapAssumption
  <2>2. CASE ToolAnswers(c)
    <3>1. /\ call'[c].queue = call[c].queue - 1 /\ call'[c].open = call[c].open - 1
          /\ call[c].queue > 1 /\ call[c].queue <= call[c].open
      BY <2>2 DEF ToolAnswers, Call
    <3>2. call[c].queue \in Nat /\ call[c].open \in Nat
      BY DEF Call
    <3> QED  BY <3>1, <3>2
  <2>3. CASE NextRound(c)
    BY <1>3, <2>3 DEF NextRound, Call
  <2>4. CASE StartLoop(c)
    BY <1>3, <2>4 DEF StartLoop, Call
  <2>5. ASSUME NEW s \in Suspensions, NEW a \in Approvals, StartResume(c, s, a)
        PROVE  FALSE
    BY <1>3, <2>5 DEF StartResume, Call
  <2>6. CASE call'[c] = call[c]
    BY <1>3, <2>6
  <2> QED  BY <1>3, <2>1, <2>2, <2>3, <2>4, <2>5, <2>6, CallMoves DEF Round
<1> QED  BY <1>1, <1>2, <1>3, CallTypeNext, RowTypeNext

\* A row that is not there has nothing in it.
LEMMA BlankNext ==
  ASSUME LoopInv, Next
  PROVE  Blank'
<1> SUFFICES ASSUME NEW c \in Calls, call'[c].pc = "idle" PROVE call'[c] = Idle
  BY DEF Blank
<1>1. call \in [Calls -> Call]
  BY DEF LoopInv, TypeOK
<1>2. ~StartLoop(c)
  BY <1>1 DEF StartLoop, Call
<1>3. ASSUME NEW s \in Suspensions, NEW a \in Approvals PROVE ~StartResume(c, s, a)
  BY <1>1, ZenonT(40) DEF StartResume, Call
<1>4. ~Round(c)
  BY <1>1, ZenonT(40) DEF Round, ProviderCallsTools, ToolAnswers, NextRound, Call
<1> QED  BY <1>2, <1>3, <1>4, CallMoves DEF LoopInv, Blank

\* The snapshot of a row never changes once the row exists, and rows stay.
LEMMA RowsStay ==
  ASSUME LoopInv, Next, NEW t \in Suspensions, rows[t].status # "absent"
  PROVE  /\ rows'[t].status # "absent"
         /\ rows'[t].remaining = rows[t].remaining /\ rows'[t].used = rows[t].used
         /\ rows'[t].open = rows[t].open /\ rows'[t].grant = rows[t].grant
         /\ rows'[t].parent = rows[t].parent
BY RowMoves DEF Marked, Born

\* A row that is closed has the answer of its resume.
LEMMA AnswersCachedNext ==
  ASSUME LoopInv, Next
  PROVE  AnswersCached'
BY RowMoves DEF LoopInv, AnswersCached, Marked, Born

\* The row that a row continues is there.
LEMMA ParentsExistNext ==
  ASSUME LoopInv, Next
  PROVE  ParentsExist'
<1> SUFFICES ASSUME NEW s \in Suspensions, rows'[s].status # "absent", rows'[s].parent # Null
             PROVE  rows'[rows'[s].parent].status # "absent"
  BY DEF ParentsExist
<1>1. rows \in [Suspensions -> Row] /\ call \in [Calls -> Call]
  BY DEF LoopInv, TypeOK
<1>2. CASE rows[s].status # "absent"
  <2>1. rows'[s].parent = rows[s].parent
    BY <1>2, RowsStay
  <2>2. rows[s].parent \in Suspensions
    BY <1>1, <2>1 DEF Row
  <2> QED  BY <1>2, <2>1, <2>2, RowsStay DEF LoopInv, ParentsExist
<1>3. CASE rows[s].status = "absent"
  <2>1. PICK c \in Calls : Born(s, c)
    BY <1>3, RowMoves DEF Marked
  <2>2. rows'[s].parent = call[c].from /\ call[c].from \in Suspensions
    BY <1>1, <2>1 DEF Born, Call
  <2>3. rows[call[c].from].status # "absent"
    BY <2>1, <2>2 DEF Born, MayWantApproval, InFlight, LoopInv, Accounted
  <2> QED  BY <2>2, <2>3, RowsStay
<1> QED  BY <1>2, <1>3

\* A step inside the rounds of a call.
LEMMA RoundEffect ==
  ASSUME call \in [Calls -> Call], NEW c \in Calls, Round(c)
  PROVE  /\ call'[c].grant = call[c].grant /\ call'[c].budget = call[c].budget
         /\ call'[c].from = call[c].from
         /\ \/ /\ call[c].pc = "asking" /\ call'[c].pc = "dispatching"
               /\ call'[c].used = call[c].used + 1 /\ call'[c].round = call[c].round
            \/ /\ call[c].pc = "dispatching" /\ call'[c].pc = "dispatching"
               /\ call'[c].used = call[c].used /\ call'[c].round = call[c].round
            \/ /\ call[c].pc = "dispatching" /\ call'[c].pc = "asking"
               /\ call'[c].used = call[c].used /\ call'[c].round = call[c].round + 1
               /\ call[c].round < call[c].budget
<1>1. CASE ProviderCallsTools(c)
  <2>1. PICK n \in 1 .. MaxToolCalls :
          call' = [call EXCEPT ![c] = [@ EXCEPT
            !.pc = "dispatching", !.queue = n, !.used = call[c].used + 1,
            !.open = call[c].open + n]]
    BY <1>1 DEF ProviderCallsTools
  <2> QED  BY <1>1, <2>1 DEF ProviderCallsTools, Call
<1>2. CASE ToolAnswers(c)
  BY <1>2 DEF ToolAnswers, Call
<1>3. CASE NextRound(c)
  BY <1>3 DEF NextRound, Call
<1> QED  BY <1>1, <1>2, <1>3 DEF Round

\* What a call in flight says of its counters, one step on: the part that
\* BudgetKept and Accounted share.
LEMMA InFlightNext ==
  ASSUME LoopInv, Next, NEW c \in Calls, InFlight(c)'
  PROVE  /\ call'[c].grant <= HardCap
         /\ 0 < call'[c].round /\ call'[c].round <= call'[c].budget
         /\ IF call'[c].pc = "asking"
            THEN call'[c].used + call'[c].budget + 1 = call'[c].grant + call'[c].round
            ELSE call'[c].used + call'[c].budget = call'[c].grant + call'[c].round
         /\ call'[c].used <= call'[c].grant
<1> USE DEF LoopInv, TypeOK, InFlight
<1>1. call[c] \in Call /\ HardCap \in Nat
  BY CapAssumption
<1>2. CASE StartLoop(c)
  <2>1. PICK rounds \in 1 .. HardCap :
          call' = [call EXCEPT ![c] = [@ EXCEPT
            !.pc = "asking", !.budget = rounds, !.round = 1, !.grant = rounds]]
    BY <1>2 DEF StartLoop
  <2>2. call[c].used = 0
    BY <1>2 DEF StartLoop, Blank, Idle
  <2>3. /\ call'[c].pc = "asking" /\ call'[c].budget = rounds /\ call'[c].round = 1
        /\ call'[c].grant = rounds /\ call'[c].used = call[c].used
    BY <2>1 DEF Call
  <2> QED  BY <1>1, <2>2, <2>3
<1>3. ASSUME NEW s \in Suspensions, NEW a \in Approvals, StartResume(c, s, a)
      PROVE  /\ call'[c].grant <= HardCap
             /\ call'[c].pc = "asking"
             /\ 0 < call'[c].round /\ call'[c].round <= call'[c].budget
             /\ call'[c].used + call'[c].budget + 1 = call'[c].grant + call'[c].round
             /\ call'[c].used <= call'[c].grant
  <2>1. /\ call'[c].pc = "asking" /\ call'[c].budget = rows[s].remaining
        /\ call'[c].round = 1 /\ call'[c].used = rows[s].used
        /\ call'[c].grant = rows[s].grant /\ rows[s].remaining > 0
        /\ rows[s].status # "absent"
    BY <1>3 DEF StartResume, RoundsLeft, Resumable, Call
  <2>2. /\ rows[s].remaining \in Nat /\ rows[s].used \in Nat /\ rows[s].grant \in Nat
    BY DEF Row
  <2>3. rows[s].used + rows[s].remaining = rows[s].grant /\ rows[s].grant <= HardCap
    BY <2>1 DEF BudgetKept
  <2> QED  BY <1>1, <2>1, <2>2, <2>3
<1>4. CASE Round(c)
  <2>2. /\ call[c].used \in Nat /\ call[c].budget \in Nat /\ call[c].grant \in Nat
        /\ call[c].round \in Nat
    BY <1>1 DEF Call
  <2>3. /\ call[c].grant <= HardCap
        /\ 0 < call[c].round /\ call[c].round <= call[c].budget
        /\ IF call[c].pc = "asking"
           THEN call[c].used + call[c].budget + 1 = call[c].grant + call[c].round
           ELSE call[c].used + call[c].budget = call[c].grant + call[c].round
        /\ call[c].used <= call[c].grant
    BY <1>4, RoundEffect DEF BudgetKept
  <2> QED  BY <1>1, <1>4, RoundEffect, <2>2, <2>3
<1>5. CASE call'[c] = call[c]
  BY <1>5 DEF BudgetKept
<1> QED  BY <1>2, <1>3, <1>4, <1>5, CallMoves

\* No step lets a loop have more rounds than its budget.
LEMMA BudgetNext ==
  ASSUME LoopInv, Next
  PROVE  BudgetKept'
<1>1. rows \in [Suspensions -> Row] /\ call \in [Calls -> Call]
  BY DEF LoopInv, TypeOK
<1>2. ASSUME NEW s \in Suspensions, rows'[s].status # "absent"
      PROVE  /\ rows'[s].used + rows'[s].remaining = rows'[s].grant
             /\ rows'[s].grant <= HardCap
             /\ rows'[s].parent # Null =>
                  /\ rows'[rows'[s].parent].used < rows'[s].used
                  /\ rows'[rows'[s].parent].grant = rows'[s].grant
  <2>1. CASE rows[s].status # "absent"
    <3>1. /\ rows'[s].remaining = rows[s].remaining /\ rows'[s].used = rows[s].used
          /\ rows'[s].grant = rows[s].grant /\ rows'[s].parent = rows[s].parent
      BY <2>1, RowsStay
    <3>2. ASSUME rows[s].parent # Null
          PROVE  /\ rows'[rows[s].parent].used = rows[rows[s].parent].used
                 /\ rows'[rows[s].parent].grant = rows[rows[s].parent].grant
      <4>1. rows[s].parent \in Suspensions
        BY <1>1, <3>2 DEF Row
      <4> QED  BY <2>1, <3>2, <4>1, RowsStay DEF LoopInv, ParentsExist
    <3> QED  BY <2>1, <3>1, <3>2 DEF LoopInv, BudgetKept
  <2>2. CASE rows[s].status = "absent"
    <3>1. PICK c \in Calls : Born(s, c)
      BY <1>2, <2>2, RowMoves DEF Marked
    <3>2. /\ rows'[s].remaining = call[c].budget - call[c].round
          /\ rows'[s].used = call[c].used /\ rows'[s].grant = call[c].grant
          /\ rows'[s].parent = call[c].from
      BY <3>1 DEF Born
    <3>3. /\ call[c].grant <= HardCap
          /\ 0 < call[c].round
          /\ call[c].used + call[c].budget = call[c].grant + call[c].round
      BY <3>1 DEF Born, MayWantApproval, InFlight, LoopInv, BudgetKept
    <3>4. /\ call[c].used \in Nat /\ call[c].budget \in Nat /\ call[c].grant \in Nat
          /\ call[c].round \in Nat
      BY <1>1 DEF Call
    <3>5. ASSUME call[c].from # Null
          PROVE  /\ rows'[call[c].from].used < call[c].used
                 /\ rows'[call[c].from].grant = call[c].grant
      <4>1. call[c].from \in Suspensions
        BY <1>1, <3>5 DEF Call
      <4>2. /\ rows[call[c].from].status # "absent"
            /\ rows[call[c].from].grant = call[c].grant
            /\ rows[call[c].from].used + call[c].round = call[c].used
        BY <3>1, <3>5 DEF Born, MayWantApproval, InFlight, LoopInv, Accounted
      <4>3. rows[call[c].from].used \in Nat
        BY <1>1, <4>1 DEF Row
      <4>4. /\ rows'[call[c].from].used = rows[call[c].from].used
            /\ rows'[call[c].from].grant = rows[call[c].from].grant
        BY <4>1, <4>2, RowsStay
      <4> QED  BY <3>3, <3>4, <4>2, <4>3, <4>4
    <3> QED  BY <3>2, <3>3, <3>4, <3>5
  <2> QED  BY <2>1, <2>2
<1> QED  BY <1>2, InFlightNext DEF BudgetKept

\* What a resumed row and the rounds since say is what a call has used.
LEMMA AccountedNext ==
  ASSUME LoopInv, Next
  PROVE  Accounted'
<1> SUFFICES ASSUME NEW c \in Calls, InFlight(c)', call'[c].from # Null
             PROVE  /\ rows'[call'[c].from].status # "absent"
                    /\ rows'[call'[c].from].grant = call'[c].grant
                    /\ rows'[call'[c].from].used + call'[c].round =
                         IF call'[c].pc = "asking" THEN call'[c].used + 1
                                                   ELSE call'[c].used
  BY DEF Accounted
<1>1. rows \in [Suspensions -> Row] /\ call \in [Calls -> Call]
  BY DEF LoopInv, TypeOK
<1>2. CASE StartLoop(c)
  BY <1>1, <1>2 DEF StartLoop, LoopInv, Blank, Idle
<1>3. ASSUME NEW s \in Suspensions, NEW a \in Approvals, StartResume(c, s, a)
      PROVE  /\ rows'[call'[c].from].status # "absent"
             /\ rows'[call'[c].from].grant = call'[c].grant
             /\ call'[c].pc = "asking"
             /\ rows'[call'[c].from].used + call'[c].round = call'[c].used + 1
  BY <1>1, <1>3 DEF StartResume, Resumable, Call
<1>4. CASE call[c].from = call'[c].from /\ InFlight(c)
  <2>1. call[c].from \in Suspensions
    BY <1>1, <1>4 DEF Call
  <2>2. /\ rows[call[c].from].status # "absent"
        /\ rows[call[c].from].grant = call[c].grant
        /\ rows[call[c].from].used + call[c].round =
             IF call[c].pc = "asking" THEN call[c].used + 1 ELSE call[c].used
    BY <1>4 DEF LoopInv, Accounted
  <2>3. /\ rows'[call[c].from].status # "absent"
        /\ rows'[call[c].from].grant = rows[call[c].from].grant
        /\ rows'[call[c].from].used = rows[call[c].from].used
    BY <2>1, <2>2, RowsStay
  <2>4. CASE Round(c)
    <3>2. /\ call[c].used \in Nat /\ call[c].round \in Nat
          /\ rows[call[c].from].used \in Nat
      BY <1>1, <2>1 DEF Call, Row
    <3> QED  BY <1>1, <1>4, <2>2, <2>3, <2>4, <3>2, RoundEffect
  <2>5. CASE call'[c] = call[c]
    BY <1>4, <2>2, <2>3, <2>5
  <2>6. ~StartLoop(c) /\ \A s \in Suspensions, a \in Approvals : ~StartResume(c, s, a)
    BY <1>4 DEF InFlight, StartLoop, StartResume
  <2> QED  BY <2>4, <2>5, <2>6, CallMoves DEF InFlight
<1>5. Round(c) => InFlight(c) /\ call'[c].from = call[c].from
  BY <1>1, RoundEffect DEF InFlight
<1> QED  BY <1>2, <1>3, <1>4, <1>5, CallMoves DEF InFlight

\* The invariant of the loops holds initially.
LEMMA LoopInvInit == Init => LoopInv
<1> SUFFICES ASSUME Init PROVE LoopInv
  OBVIOUS
<1>1. TypeOK
  BY BlankTyped DEF Init, TypeOK, Absent, Idle
<1>2. Blank /\ BudgetKept /\ Accounted /\ ParentsExist /\ AnswersCached
  BY DEF Init, Blank, BudgetKept, Accounted, ParentsExist, AnswersCached, InFlight, Absent,
         Idle
<1> QED  BY <1>1, <1>2 DEF LoopInv

\* The invariant of the loops is inductive.
LEMMA LoopInvNext == LoopInv /\ [Next]_vars => LoopInv'
<1> SUFFICES ASSUME LoopInv, [Next]_vars PROVE LoopInv'
  OBVIOUS
<1>1. CASE Next
  BY <1>1, TypeNext, BlankNext, BudgetNext, AccountedNext, ParentsExistNext,
     AnswersCachedNext DEF LoopInv
<1>2. CASE UNCHANGED vars
  BY <1>2 DEF vars, LoopInv, TypeOK, Blank, BudgetKept, Accounted, ParentsExist,
              AnswersCached, InFlight
<1> QED  BY <1>1, <1>2

\* The counters and the table agree, with overlapping resumptions or without.
THEOREM LoopInvariance == Spec => []LoopInv
BY LoopInvInit, LoopInvNext, PTL DEF Spec

\* Type correctness.
THEOREM LoopTypeCorrect == Spec => []TypeOK
<1>1. LoopInv => TypeOK
  BY DEF LoopInv
<1> QED  BY <1>1, LoopInvariance, PTL

\* No chain of suspensions outruns the maxToolRounds of its first call.
THEOREM BudgetAlwaysKept == Spec => []BudgetKept
<1>1. LoopInv => BudgetKept
  BY DEF LoopInv
<1> QED  BY <1>1, LoopInvariance, PTL

-----------------------------------------------------------------------------
(***************************************************************************)
(* Resumptions of one suspension, one at a time.                           *)
(***************************************************************************)
\* Whoever changes a row that exists is a call that came from it and ends, or
\* may touch it.
LEMMA Touchers ==
  ASSUME LoopInv, Next, NEW t \in Suspensions, rows[t].status # "absent",
         rows'[t] # rows[t]
  PROVE  \/ /\ MayTouch(t)
            /\ \/ rows[t].status = "pending"
               \/ rows'[t].final = rows[t].final /\ rows'[t].approval = rows[t].approval
         \/ \E c \in Calls :
              InFlight(c) /\ call[c].from = t /\ call'[c].pc = "ended"
<1>1. rows \in [Suspensions -> Row] /\ call \in [Calls -> Call]
  BY DEF LoopInv, TypeOK
<1>2. ASSUME NEW c \in Calls, NEW rw, rw[t] = rows[t], DOMAIN rw = Suspensions, NEW e,
             rows' = Closed(rw, c, e)
      PROVE  call[c].from = t
  BY <1>2 DEF Closed, MarkResumed
<1>3. ASSUME NEW c \in Calls, NEW s \in Suspensions, NEW a, rows[s].status = "absent"
      PROVE  Suspended(c, s, a)[t] = rows[t]
  BY <1>1, <1>3 DEF Suspended
<1>4. ASSUME NEW c \in Calls, Commits(c)
      PROVE  InFlight(c) /\ call[c].from = t
  <2>1. CASE Completes(c)
    BY <1>1, <1>2, <2>1 DEF Completes, InFlight
  <2>2. CASE Fails(c)
    BY <1>1, <1>2, <2>2 DEF Fails, Exhausted, InFlight
  <2>3. ASSUME NEW s \in Suspensions, NEW a \in NewApproval, Inserts(c, s, a)
        PROVE  FALSE
    BY <1>3, <2>3 DEF Inserts
  <2>4. ASSUME NEW s \in Suspensions, NEW a \in NewApproval, Suspends(c, s, a)
        PROVE  InFlight(c) /\ call[c].from = t
    <3>1. Suspended(c, s, a)[t] = rows[t] /\ DOMAIN Suspended(c, s, a) = Suspensions
      BY <1>1, <1>3, <2>4 DEF Suspends, Suspended
    <3> QED  BY <1>2, <2>4, <3>1 DEF Suspends, MayWantApproval, InFlight
  <2> QED  BY <1>4, <2>1, <2>2, <2>3, <2>4 DEF Commits
<1>5. ASSUME NEW c \in Calls, End(c)
      PROVE  Commits(c) /\ call'[c].pc = "ended"
  <2>1. ASSUME NEW r, Ended(c, r) PROVE call'[c].pc = "ended"
    BY <1>1, <2>1 DEF Ended, Over, Idle
  <2> QED  BY <1>5, <2>1 DEF End, ProviderCompletes, RoundsExceeded, ToolWantsApproval,
                             CallRejects, ChainRejects, Commits
<1>6. CASE CrashAndRestart
  <2>1. PICK c \in Calls : Commits(c)
    BY <1>6 DEF CrashAndRestart
  <2>2. call'[c].pc = "ended"
    BY <1>4, <1>6, <2>1 DEF CrashAndRestart, Over, Idle
  <2> QED  BY <1>4, <2>1, <2>2
<1>7. ASSUME NEW c \in Calls, Start(c)
      PROVE  MayTouch(t) /\ rows[t].status = "pending"
  <2>1. PICK s \in Suspensions, a \in Approvals : ResumeWithoutRounds(c, s, a)
    BY <1>7 DEF Start, StartLoop, StartResume, ReplayResume, RejectResume
  <2> QED  BY <1>1, <2>1 DEF ResumeWithoutRounds, MarkResumed, Resumable
<1>8. ASSUME NEW s \in Suspensions, Revoke(s)
      PROVE  /\ MayTouch(t)
             /\ rows'[t].final = rows[t].final /\ rows'[t].approval = rows[t].approval
  BY <1>1, <1>8 DEF Revoke, Row
<1>9. ASSUME NEW c \in Calls PROVE ~Round(c)
  BY DEF Round, ProviderCallsTools, ToolAnswers, NextRound
<1> QED  BY <1>4, <1>5, <1>6, <1>7, <1>8, <1>9 DEF Next

\* A call that ended does nothing more.
LEMMA EndedStays ==
  ASSUME LoopInv, Next, NEW c \in Calls, call[c].pc = "ended"
  PROVE  call'[c] = call[c]
<1>1. call \in [Calls -> Call]
  BY DEF LoopInv, TypeOK
<1>2. ASSUME NEW d \in Calls, NEW r, call[d].pc # "ended", Ended(d, r)
      PROVE  call'[c] = call[c]
  BY <1>1, <1>2 DEF Ended
<1>3. ASSUME NEW d \in Calls, End(d)
      PROVE  call'[c] = call[c]
  BY <1>2, <1>3 DEF End, ProviderCompletes, Completes, RoundsExceeded, Fails, Exhausted,
                    ToolWantsApproval, Suspends, CallRejects, ChainRejects, Inserts,
                    MayWantApproval
<1>4. ASSUME NEW d \in Calls, Start(d) \/ Round(d)
      PROVE  call'[c] = call[c]
  BY <1>1, <1>4 DEF Start, StartLoop, StartResume, ResumeWithoutRounds, ReplayResume,
                    RejectResume, Answer, Round, ProviderCallsTools, ToolAnswers, NextRound
<1>5. CrashAndRestart => call'[c] = call[c]
  BY DEF CrashAndRestart, InFlight
<1>6. ASSUME NEW s \in Suspensions, Revoke(s) PROVE call'[c] = call[c]
  BY <1>6 DEF Revoke
<1> QED  BY <1>3, <1>4, <1>5, <1>6 DEF Next

\* Without overlaps a row is resumed by one call at a time.
LEMMA ResumesAloneNext ==
  ASSUME ~Overlaps, LoopInv, ResumesAlone, Next
  PROVE  ResumesAlone'
<1>1. rows \in [Suspensions -> Row] /\ call \in [Calls -> Call]
  BY DEF LoopInv, TypeOK
\* A call in flight started with this step, or was in flight for the same row.
<1>2. ASSUME NEW c \in Calls, InFlight(c)', call'[c].from # Null
      PROVE  \/ \E a \in Approvals : StartResume(c, call'[c].from, a)
             \/ InFlight(c) /\ call[c].from = call'[c].from
  <2>1. ASSUME StartLoop(c) PROVE FALSE
    <3>1. call[c].from = Null
      BY <2>1 DEF StartLoop, LoopInv, Blank, Idle
    <3>2. call'[c].from = call[c].from
      BY <1>1, <2>1 DEF StartLoop, Call
    <3> QED  BY <1>2, <3>1, <3>2
  <2>2. ASSUME NEW s \in Suspensions, NEW a \in Approvals, StartResume(c, s, a)
        PROVE  s = call'[c].from
    BY <1>1, <2>2 DEF StartResume, Call
  <2>3. Round(c) => InFlight(c) /\ call[c].from = call'[c].from
    BY <1>1, RoundEffect DEF InFlight
  <2> QED  BY <1>2, <2>1, <2>2, <2>3, CallMoves DEF InFlight
<1> SUFFICES ASSUME NEW c \in Calls, InFlight(c)', call'[c].from # Null
             PROVE  /\ rows'[call'[c].from].status = "pending"
                    /\ \A d \in Calls : InFlight(d)' /\ call'[d].from = call'[c].from => d = c
  BY DEF ResumesAlone
<1> DEFINE t == call'[c].from
<1>3. t \in Suspensions
  BY CallTypeNext DEF Call
<1>4. CASE \E a \in Approvals : StartResume(c, t, a)
  <2>1. rows' = rows /\ rows[t].status = "pending" /\ MayTouch(t)
    BY <1>4 DEF StartResume, Resumable
  <2>2. ASSUME NEW d \in Calls, InFlight(d)', call'[d].from = t, d # c
        PROVE  FALSE
    <3>1. call'[d] = call[d]
      BY <1>1, <1>4, <2>2 DEF StartResume
    <3> QED  BY <2>1, <2>2, <3>1 DEF MayTouch, InFlight
  <2> QED  BY <2>1, <2>2
<1>5. CASE InFlight(c) /\ call[c].from = t
  <2>1. rows[t].status = "pending" /\ ~MayTouch(t)
    BY <1>5 DEF ResumesAlone, MayTouch
  <2>2. rows'[t] = rows[t]
    BY <1>3, <1>5, <2>1, Touchers DEF ResumesAlone, InFlight
  <2>3. ASSUME NEW d \in Calls, InFlight(d)', call'[d].from = t
        PROVE  d = c
    BY <1>2, <1>5, <2>1, <2>3 DEF ResumesAlone, StartResume
  <2> QED  BY <2>1, <2>2, <2>3
<1> QED  BY <1>2, <1>4, <1>5

\* With one resume at a time the answer in a row is the one given.
LEMMA AnswersKeptNext ==
  ASSUME LoopInv, ResumesAlone, AnswersKept, Next
  PROVE  AnswersKept'
<1>1. rows \in [Suspensions -> Row] /\ call \in [Calls -> Call]
  BY DEF LoopInv, TypeOK
<1> SUFFICES ASSUME NEW c \in Calls, Answered(c)', call'[c].from # Null
             PROVE  /\ rows'[call'[c].from].status \notin {"absent", "pending"}
                    /\ rows'[call'[c].from].final = call'[c].reply
                    /\ rows'[call'[c].from].approval = call'[c].key
  BY DEF AnswersKept
<1> DEFINE t == call'[c].from
<1>2. t \in Suspensions
  BY CallTypeNext DEF Call
<1>3. ~IsEnvelope(NoReply) /\ ~IsEnvelope(Rejection)
  BY DEF IsEnvelope, NoReply, Rejection, Envelope
\* An older answer: nobody in flight may close the row again.
<1>4. CASE call[c].pc = "ended"
  <2>1. call'[c] = call[c]
    BY <1>4, EndedStays
  <2>2. /\ rows[t].status \notin {"absent", "pending"}
        /\ rows[t].final = call[c].reply /\ rows[t].approval = call[c].key
    BY <2>1 DEF AnswersKept, Answered
  <2>3. CASE rows'[t] # rows[t]
    <3>1. ASSUME NEW d \in Calls, InFlight(d), call[d].from = t
          PROVE  FALSE
      BY <2>1, <2>2, <3>1 DEF ResumesAlone
    <3>2. rows'[t].final = rows[t].final /\ rows'[t].approval = rows[t].approval
      BY <1>2, <2>2, <2>3, <3>1, Touchers
    <3>3. rows'[t].status \notin {"absent", "pending"}
      BY <1>2, <2>2, <2>3, RowMoves DEF Marked, Born
    <3> QED  BY <2>1, <2>2, <3>2, <3>3
  <2> QED  BY <2>1, <2>2, <2>3
\* A new one: the call wrote it to the row, or read it there.
<1>5. CASE call[c].pc # "ended"
  <2>1. ASSUME NEW rw \in [Suspensions -> Row], NEW e,
               Ended(c, e), rows' = Closed(rw, c, e)
        PROVE  /\ rows'[t].status = "resumed" /\ rows'[t].final = call'[c].reply
               /\ rows'[t].approval = call'[c].key
    <3>1. call'[c].from = call[c].from /\ call'[c].key = call[c].key /\ call'[c].reply = e
      BY <1>1, <2>1 DEF Ended, Over, Idle
    <3> QED  BY <1>2, <2>1, <3>1 DEF Closed, MarkResumed, Row
  <2>2. CASE ProviderCompletes(c)
    BY <1>1, <2>1, <2>2 DEF ProviderCompletes, Completes
  <2>3. CASE RoundsExceeded(c)
    BY <1>1, <2>1, <2>3 DEF RoundsExceeded, Fails
  <2>4. ASSUME NEW s \in Suspensions, NEW a \in NewApproval, Suspends(c, s, a),
               Ended(c, Pointer(c, s))
        PROVE  /\ rows'[t].status = "resumed" /\ rows'[t].final = call'[c].reply
               /\ rows'[t].approval = call'[c].key
    <3>1. /\ call'[c].from = call[c].from /\ call'[c].key = call[c].key
          /\ call'[c].reply = Pointer(c, s)
      BY <1>1, <2>4 DEF Ended, Over, Idle
    <3> QED
      BY <1>1, <1>2, <2>4, <3>1 DEF Suspends, Suspended, Closed, MarkResumed, Row
  <2>5. ASSUME NEW s \in Suspensions, NEW a \in Approvals, ResumeWithoutRounds(c, s, a)
        PROVE  /\ rows'[t].status = "resumed" /\ rows'[t].final = call'[c].reply
               /\ rows'[t].approval = call'[c].key
    BY <1>1, <2>5 DEF ResumeWithoutRounds, Answer, MarkResumed, Row, Call
  <2>6. ASSUME NEW s \in Suspensions, NEW a \in Approvals, ReplayResume(c, s, a)
        PROVE  /\ rows'[t].status = "resumed" /\ rows'[t].final = call'[c].reply
               /\ rows'[t].approval = call'[c].key
    BY <1>1, <2>6 DEF ReplayResume, Answer, Call
  \* All other steps leave the call unanswered.
  <2>7. ASSUME NEW r, r \in {NoReply, Rejection}, call'[c].reply = r
        PROVE  FALSE
    BY <1>3, <2>7 DEF Answered
  <2>8. ASSUME NEW s \in Suspensions, NEW a \in Approvals, RejectResume(c, s, a)
        PROVE  FALSE
    BY <1>1, <2>7, <2>8 DEF RejectResume, Answer, Call
  <2>9. ASSUME Ended(c, Rejection) PROVE FALSE
    BY <1>1, <2>7, <2>9 DEF Ended, Over, Idle
  <2>10. CrashAndRestart => FALSE
    BY <1>1, <1>5, <2>7 DEF CrashAndRestart, Over, Idle, Answered
  <2>11. ASSUME call'[c].pc # "ended" PROVE FALSE
    BY <2>11 DEF Answered
  <2>12. StartLoop(c) \/ Round(c) => call'[c].pc # "ended"
    <3>1. CASE StartLoop(c)
      BY <1>1, <3>1 DEF StartLoop, Call
    <3>2. CASE Round(c)
      BY <1>1, <3>2, RoundEffect
    <3> QED  BY <3>1, <3>2
  <2>13. ASSUME NEW s \in Suspensions, NEW a \in Approvals, StartResume(c, s, a)
         PROVE  call'[c].pc # "ended"
    BY <1>1, <2>13 DEF StartResume, Call
  <2>14. ASSUME call'[c] = call[c] PROVE FALSE
    BY <1>5, <2>14 DEF Answered
  <2>15. ASSUME NEW d \in Calls, d # c, Start(d) \/ Round(d) \/ End(d)
         PROVE  call'[c] = call[c]
    BY <1>1, <2>15 DEF Start, StartLoop, StartResume, ResumeWithoutRounds, ReplayResume,
                      RejectResume, Answer, Round, ProviderCallsTools, ToolAnswers, NextRound,
                      End, ProviderCompletes, RoundsExceeded, ToolWantsApproval, CallRejects,
                      ChainRejects, Ended
  <2>16. ASSUME NEW s \in Suspensions, Revoke(s) PROVE call'[c] = call[c]
    BY <2>16 DEF Revoke
  <2>17. CASE Start(c)
    BY <2>5, <2>6, <2>8, <2>11, <2>12, <2>13, <2>17 DEF Start
  <2>18. CASE End(c)
    BY <2>2, <2>3, <2>4, <2>9, <2>18 DEF End, ToolWantsApproval, CallRejects, ChainRejects
  <2> QED
    BY <2>10, <2>11, <2>12, <2>14, <2>15, <2>16, <2>17, <2>18 DEF Next
<1> QED  BY <1>4, <1>5

\* The invariant of resumes that do not overlap is inductive.
LEMMA AloneInvNext ==
  ASSUME ~Overlaps
  PROVE  LoopInv /\ AloneInv /\ [Next]_vars => AloneInv'
<1> SUFFICES ASSUME LoopInv, AloneInv, [Next]_vars PROVE AloneInv'
  OBVIOUS
<1>1. CASE Next
  BY <1>1, ResumesAloneNext, AnswersKeptNext DEF AloneInv
<1>2. CASE UNCHANGED vars
  BY <1>2 DEF vars, AloneInv, ResumesAlone, AnswersKept, Answered, InFlight
<1> QED  BY <1>1, <1>2

\* It holds always.
THEOREM AloneInvariance ==
  ASSUME ~Overlaps
  PROVE  Spec => []AloneInv
<1>1. Init => AloneInv
  BY DEF Init, AloneInv, ResumesAlone, AnswersKept, Answered, InFlight, Idle
<1> QED  BY <1>1, LoopInvariance, AloneInvNext, PTL DEF Spec

\* When the host resumes one suspension one call at a time, all answers to its
\* resumptions are one and the same, under one approval: through replays,
\* retries, cancellations and crashes.
THEOREM OneOutcomeOnly ==
  ASSUME ~Overlaps
  PROVE  Spec => []OneOutcome
<1>1. AloneInv => OneOutcome
  BY DEF AloneInv, AnswersKept, OneOutcome
<1> QED  BY <1>1, AloneInvariance, PTL

\* ... in particular the answers to one (suspensionId, approvalId).
THEOREM ResumeIdempotent ==
  ASSUME ~Overlaps
  PROVE  Spec => []IdempotentPerApproval
<1>1. AloneInv => IdempotentPerApproval
  BY DEF AloneInv, AnswersKept, IdempotentPerApproval
<1> QED  BY <1>1, AloneInvariance, PTL

-----------------------------------------------------------------------------
(***************************************************************************)
(* The table implements the ledger.                                        *)
(***************************************************************************)
LEMMA LedgerInit == Init => Ledger!Init
BY DEF Init, Ledger!Init, Absent, NoReply, Envelope, EntryOf

\* A step of the loops is a step of the ledger or leaves it alone.
LEMMA LedgerNext ==
  ASSUME LoopInv, ResumesAlone, [Next]_vars
  PROVE  [Ledger!Next]_(Ledger!ledger)
<1> USE DEF LoopInv, TypeOK
<1>1. CASE UNCHANGED rows
  BY <1>1 DEF Ledger!ledger
<1>2. ASSUME NEW s \in Suspensions, NEW a \in NewApproval, NEW e \in Reply,
             IsEnvelope(e), e.next = Null, MayClose(s), rows' = MarkResumed(rows, s, a, e)
      PROVE  Ledger!Settle(s)
  <2>1. rows[s].status = "pending" /\ rows[s].final = NoReply
    BY <1>2, NullAssumption DEF MayClose, ResumesAlone, AnswersCached
  <2>2. /\ rows'[s].status = "resumed" /\ rows'[s].final = e
        /\ \A t \in Suspensions \ {s} : rows'[t] = rows[t]
    BY <1>2 DEF MarkResumed, Row
  <2>3. NoReply.next = Null
    BY DEF NoReply, Envelope
  <2> QED  BY <1>2, <2>1, <2>2, <2>3 DEF Ledger!Settle, EntryOf
<1>3. ASSUME NEW c \in Calls, NEW s \in Suspensions, NEW a \in NewApproval,
             NewRow(c, s, a), rows' = Suspended(c, s, a)
      PROVE  Ledger!Open(s)
  <2>1. rows[s].status = "absent" /\ rows[s].final = NoReply
    BY <1>3 DEF NewRow, AnswersCached
  <2>2. /\ rows'[s].status = "pending" /\ rows'[s].final = NoReply
        /\ \A t \in Suspensions \ {s} : rows'[t] = rows[t]
    BY <1>3 DEF Suspended
  <2> QED  BY <2>1, <2>2 DEF Ledger!Open, EntryOf
<1>4. ASSUME NEW c \in Calls, NEW s \in Suspensions, NEW a \in NewApproval,
             NewRow(c, s, a), call[c].from \in Suspensions,
             rows' = MarkResumed(Suspended(c, s, a), call[c].from, call[c].key,
                                 Envelope("approval_pending", c, s))
      PROVE  Ledger!Continue(call[c].from, s)
  <2> DEFINE f == call[c].from
             e == Envelope("approval_pending", c, s)
  <2>1. rows[f].status = "pending" /\ rows[s].status = "absent"
    BY <1>4, NullAssumption DEF NewRow, MayWantApproval, InFlight, ResumesAlone
  <2>2. f # s /\ rows[f].final = NoReply /\ rows[s].final = NoReply
    BY <1>4, <2>1 DEF AnswersCached
  <2>3. /\ rows'[f].status = "resumed" /\ rows'[f].final = e
        /\ rows'[s].status = "pending" /\ rows'[s].final = NoReply
        /\ \A t \in Suspensions \ {s, f} : rows'[t] = rows[t]
    BY <1>4, <2>2 DEF MarkResumed, Suspended, Row
  <2>4. e \in Reply /\ IsEnvelope(e) /\ e.next = s /\ NoReply.next = Null
    BY EnvelopeType DEF IsEnvelope, Envelope, NoReply
  <2> HIDE DEF f, e
  <2>5. f \in Suspensions
    BY <1>4 DEF f
  <2>6. [t \in Suspensions |-> EntryOf(rows'[t].status)] =
          [[t \in Suspensions |-> EntryOf(rows[t].status)]
             EXCEPT ![f] = "settled", ![s] = "open"]
    BY <2>2, <2>3, <2>5 DEF EntryOf
  <2>7. [t \in Suspensions |-> rows'[t].final] =
          [[t \in Suspensions |-> rows[t].final] EXCEPT ![f] = e]
    BY <2>2, <2>3, <2>5
  <2>8. [t \in Suspensions |-> rows'[t].final.next] =
          [[t \in Suspensions |-> rows[t].final.next] EXCEPT ![f] = s]
    BY <2>2, <2>3, <2>4, <2>5
  <2>9. EntryOf(rows[f].status) = "open" /\ EntryOf(rows[s].status) = "free"
    BY <2>1 DEF EntryOf
  <2>10. Ledger!Continue(f, s)
    BY <2>4, <2>5, <2>6, <2>7, <2>8, <2>9 DEF Ledger!Continue
  <2> QED  BY <2>10 DEF f
<1>5. ASSUME NEW s \in Suspensions, Revoke(s)
      PROVE  Ledger!Void(s)
  <2>1. /\ rows[s].status # "absent" /\ rows'[s].status \in {"cancelled", "expired"}
        /\ rows'[s].final = rows[s].final
        /\ \A t \in Suspensions \ {s} : rows'[t] = rows[t]
    BY <1>5 DEF Revoke, Row
  <2>2. rows[s].status \in {"pending", "resumed", "cancelled", "expired"}
    BY <2>1 DEF Row
  <2> QED  BY <2>1, <2>2 DEF Ledger!Void, EntryOf
<1>6. CASE UNCHANGED vars
  BY <1>1, <1>6 DEF vars
<1>7. CASE Next
  BY <1>1, <1>2, <1>3, <1>4, <1>5, <1>7, RowSteps DEF Ledger!Next
<1> QED  BY <1>6, <1>7

\* Each suspension is opened once and settled once, with an answer nobody
\* replaces: every step of the daemon is a step of SuspensionLedger or none.
THEOREM LedgerRefinement ==
  ASSUME ~Overlaps
  PROVE  Spec => ImplementsLedger
<1>1. AloneInv => ResumesAlone
  BY DEF AloneInv
<1>2. LoopInv /\ AloneInv /\ [Next]_vars => [Ledger!Next]_(Ledger!ledger)
  BY <1>1, LedgerNext
<1> QED
  BY <1>2, LedgerInit, LoopInvariance, AloneInvariance, PTL
  DEF Spec, ImplementsLedger, Ledger!Spec
=============================================================================
