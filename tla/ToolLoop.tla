------------------------------ MODULE ToolLoop ------------------------------
(***************************************************************************)
(* The daemon's multi-round tool loop (brain.toolLoop, brain.chatToolStream *)
(* and brain.toolLoop.resume) over the table tool_loop_suspensions.        *)
(*                                                                         *)
(* A call asks the provider for an assistant message, dispatches the tool  *)
(* calls of that message one after the other, and asks again, for at most  *)
(* maxToolRounds rounds.  A tool that wants an approval ends the call: its *)
(* conversation is written to a new row, and a later call of               *)
(* brain.toolLoop.resume goes on from there.  Calls interleave at every    *)
(* provider request and every tool.                                        *)
(*                                                                         *)
(* Of a conversation the model keeps two numbers: how many assistant       *)
(* messages the loop added and how many of their tool calls no tool        *)
(* message answers.  An envelope is told apart by the call that made it.   *)
(*                                                                         *)
(* A definition named Op_Suffix is Op with a plausible mistake in it; it   *)
(* is used by no action and shows that some property would notice.         *)
(***************************************************************************)
EXTENDS Naturals, FiniteSets

CONSTANTS
  Calls,         \* invocations of the three handlers
  Suspensions,   \* random UUIDs for rows, each used once
  Approvals,     \* approval ids
  Null,
  HardCap,       \* HARD_CAP_MAX_TOOL_ROUNDS
  MaxToolCalls,  \* bound: tool calls in one assistant message
  MaxFaults,     \* bound: crashes and failed writes that leave half a chain
  Overlaps       \* may a suspension be resumed while it is being resumed?

ASSUME NullAssumption == Null \notin Calls \cup Suspensions \cup Approvals
ASSUME CapAssumption ==
  HardCap \in Nat \ {0} /\ MaxToolCalls \in Nat \ {0} /\ MaxFaults \in Nat
ASSUME OverlapsAssumption == Overlaps \in BOOLEAN

VARIABLES
  rows,   \* tool_loop_suspensions
  call,   \* the local variables of each call, and its reply
  faults  \* faults so far

vars == <<rows, call, faults>>

\* A reply: the kind of envelope or "rejected", the call whose rounds made it,
\* and the suspensionId it carries.
Envelope(kind, c, s) == [kind |-> kind, by |-> c, next |-> s]
NoReply == Envelope("none", Null, Null)
Rejection == Envelope("rejected", Null, Null)

\* grant and parent are no columns: the maxToolRounds of the first call of a
\* chain of suspensions, and the suspension whose resumption made the row.
Absent ==
  [status |-> "absent", approval |-> Null, remaining |-> 0, used |-> 0, open |-> 0,
   final |-> NoReply, grant |-> 0, parent |-> Null]

Idle ==
  [pc |-> "idle", from |-> Null, key |-> Null, budget |-> 0, round |-> 0,
   used |-> 0, open |-> 0, queue |-> 0, grant |-> 0, reply |-> NoReply]

Init ==
  /\ rows = [s \in Suspensions |-> Absent]
  /\ call = [c \in Calls |-> Idle]
  /\ faults = 0

InFlight(c) == call[c].pc \in {"asking", "dispatching"}

\* The host waits for the answer to a resumption before it resumes, or gives
\* up, the same suspension again.
MayTouch(s) == Overlaps \/ \A c \in Calls : InFlight(c) => call[c].from # s

\* markResumed: an unconditional update of the row in the table rw.
MarkResumed_StatusKept(rw, s, a, e) ==
  [rw EXCEPT ![s] = [@ EXCEPT !.approval = a, !.final = e]]
MarkResumed(rw, s, a, e) ==
  [rw EXCEPT ![s] = [@ EXCEPT !.status = "resumed", !.approval = a, !.final = e]]

\* A call that ended: its reply, and what it was asked to resume.
Over(c, reply) ==
  [Idle EXCEPT !.pc = "ended", !.from = call[c].from, !.key = call[c].key,
               !.reply = reply]
Ended(c, reply) == call' = [call EXCEPT ![c] = Over(c, reply)]

-----------------------------------------------------------------------------
(***************************************************************************)
(* A call starts.                                                          *)
(***************************************************************************)
\* brain.toolLoop or brain.chatToolStream; the contract refuses more than
\* HardCap rounds.
StartLoop(c) ==
  /\ call[c].pc = "idle"
  /\ \E rounds \in 1 .. HardCap :
       call' = [call EXCEPT ![c] = [@ EXCEPT
         !.pc = "asking", !.budget = rounds, !.round = 1, !.grant = rounds]]
  /\ UNCHANGED <<rows, faults>>

Resumable_AlsoResumed(s) == rows[s].status \in {"pending", "resumed"}
Resumable(s) == rows[s].status = "pending"

\* The persisted remainder, literally: a resumption gets no round for free.
RoundsLeft_AtLeastOne(s) == IF rows[s].remaining = 0 THEN 1 ELSE rows[s].remaining
RoundsLeft(s) == rows[s].remaining

\* brain.toolLoop.resume of a pending row with rounds left: the caller's result
\* answers the suspended tool call.  The approval id is not compared with the
\* row's.
StartResume(c, s, a) ==
  /\ call[c].pc = "idle"
  /\ Resumable(s) /\ RoundsLeft(s) > 0
  /\ MayTouch(s)
  /\ call' = [call EXCEPT ![c] = [@ EXCEPT
       !.pc = "asking", !.from = s, !.key = a, !.budget = RoundsLeft(s), !.round = 1,
       !.used = rows[s].used, !.open = rows[s].open - 1, !.grant = rows[s].grant]]
  /\ UNCHANGED <<rows, faults>>

Answer(c, s, a, reply) ==
  /\ call[c].pc = "idle"
  /\ call' = [call EXCEPT ![c] = [@ EXCEPT
       !.pc = "ended", !.from = s, !.key = a, !.reply = reply]]

\* Without rounds left the resumption fails at once, and that is its outcome.
ResumeWithoutRounds(c, s, a) ==
  /\ Resumable(s) /\ RoundsLeft(s) = 0
  /\ MayTouch(s)
  /\ rows' = MarkResumed(rows, s, a, Envelope("failed", c, Null))
  /\ Answer(c, s, a, Envelope("failed", c, Null))
  /\ UNCHANGED faults

\* A resumed row replies with its cached envelope.
ReplayResume(c, s, a) ==
  /\ rows[s].status = "resumed" /\ rows[s].approval = a
  /\ Answer(c, s, a, rows[s].final)
  /\ UNCHANGED <<rows, faults>>

\* Not found, not resumable, resumed under another approval, or no
\* configuration for a pending row.
RejectResume(c, s, a) ==
  /\ rows[s].status = "resumed" => rows[s].approval # a
  /\ Answer(c, s, a, Rejection)
  /\ UNCHANGED <<rows, faults>>

-----------------------------------------------------------------------------
(***************************************************************************)
(* runToolLoopRounds.                                                      *)
(***************************************************************************)
\* The provider's message calls tools.
ProviderCallsTools(c) ==
  /\ call[c].pc = "asking"
  /\ \E n \in 1 .. MaxToolCalls :
       call' = [call EXCEPT ![c] = [@ EXCEPT
         !.pc = "dispatching", !.queue = n, !.used = call[c].used + 1,
         !.open = call[c].open + n]]
  /\ UNCHANGED <<rows, faults>>

\* The next tool of the message answers: with a result, with an error, by
\* throwing, or not at all because nobody knows it.
ToolAnswers(c) ==
  /\ call[c].pc = "dispatching"
  /\ call[c].queue > 1
  /\ call' = [call EXCEPT ![c] = [@ EXCEPT
       !.queue = call[c].queue - 1, !.open = call[c].open - 1]]
  /\ UNCHANGED <<rows, faults>>

\* The last one answers and there are rounds left.
NextRound(c) ==
  /\ call[c].pc = "dispatching"
  /\ call[c].queue = 1
  /\ call[c].round < call[c].budget
  /\ call' = [call EXCEPT ![c] = [@ EXCEPT
       !.pc = "asking", !.queue = 0, !.open = call[c].open - 1,
       !.round = call[c].round + 1]]
  /\ UNCHANGED <<rows, faults>>

\* The last one answers and the rounds are used up.
Exhausted(c) ==
  call[c].pc = "dispatching" /\ call[c].queue = 1 /\ call[c].round = call[c].budget

\* A tool the call was given (a resumption is seldom given any) may want an
\* approval instead.
MayWantApproval(c) == call[c].pc = "dispatching"

-----------------------------------------------------------------------------
(***************************************************************************)
(* What a call writes at its end: a resumption closes the row it came      *)
(* from, whatever that row says by now; a tool that wants an approval      *)
(* makes a new row first.                                                  *)
(***************************************************************************)
Closed_NotChained(rw, c, e) ==
  IF call[c].from = Null \/ e.kind = "approval_pending" THEN rw
  ELSE MarkResumed(rw, call[c].from, call[c].key, e)
Closed(rw, c, e) ==
  IF call[c].from = Null THEN rw ELSE MarkResumed(rw, call[c].from, call[c].key, e)

RoundsAfter_OneLess(c) == call[c].budget - (call[c].round + 1)
RoundsAfter(c) == call[c].budget - call[c].round

Suspended(c, s, a) ==
  [rows EXCEPT ![s] =
    [status |-> "pending", approval |-> a, remaining |-> RoundsAfter(c),
     used |-> call[c].used, open |-> call[c].open, final |-> NoReply,
     grant |-> call[c].grant, parent |-> call[c].from]]

Pointer_ToItself(c, s) == Envelope("approval_pending", c, call[c].from)
Pointer(c, s) == Envelope("approval_pending", c, s)

\* The rows after each way to end.
Completes(c) ==
  /\ call[c].pc = "asking"
  /\ rows' = Closed(rows, c, Envelope("completed", c, Null))
Fails(c) ==
  /\ Exhausted(c)
  /\ rows' = Closed(rows, c, Envelope("failed", c, Null))
Inserts(c, s, a) ==
  /\ MayWantApproval(c)
  /\ rows[s].status = "absent"
  /\ rows' = Suspended(c, s, a)
Suspends(c, s, a) ==
  /\ MayWantApproval(c)
  /\ rows[s].status = "absent"
  /\ rows' = Closed(Suspended(c, s, a), c, Pointer(c, s))

NewApproval == Approvals \cup {Null}

\* The provider's message calls no tool.
ProviderCompletes(c) ==
  /\ Completes(c)
  /\ Ended(c, Envelope("completed", c, Null))
  /\ UNCHANGED faults

\* The rounds are used up.
RoundsExceeded(c) ==
  /\ Fails(c)
  /\ Ended(c, Envelope("failed", c, Null))
  /\ UNCHANGED faults

\* A tool replies APPROVAL_PENDING; the calls queued behind it are dropped.
ToolWantsApproval(c) ==
  /\ \E s \in Suspensions, a \in NewApproval :
       Suspends(c, s, a) /\ Ended(c, Pointer(c, s))
  /\ UNCHANGED faults

\* There is no configuration, the provider fails, insertPending throws or, in a
\* resumption, markResumed throws: the call rejects and has written nothing.
CallRejects(c) ==
  /\ call[c].pc # "ended"
  /\ Ended(c, Rejection)
  /\ UNCHANGED <<rows, faults>>

\* markResumed throws after insertPending: the new row stays.
ChainRejects(c) ==
  /\ faults < MaxFaults
  /\ call[c].from # Null
  /\ \E s \in Suspensions, a \in NewApproval : Inserts(c, s, a)
  /\ Ended(c, Rejection)
  /\ faults' = faults + 1

-----------------------------------------------------------------------------
\* markCancelled and markExpired of the store, whatever the row's status.
Revoke(s) ==
  /\ rows[s].status # "absent"
  /\ MayTouch(s)
  /\ \E void \in {"cancelled", "expired"} : rows' = [rows EXCEPT ![s].status = void]
  /\ UNCHANGED <<call, faults>>

\* What one call may have committed when the process dies before its reply is
\* sent.
Commits(c) ==
  \/ Completes(c)
  \/ Fails(c)
  \/ \E s \in Suspensions, a \in NewApproval : Inserts(c, s, a) \/ Suspends(c, s, a)

\* The process dies; the rows survive, the calls in flight get no reply.
CrashAndRestart ==
  /\ faults < MaxFaults
  /\ faults' = faults + 1
  /\ call' = [c \in Calls |->
       IF InFlight(c) THEN Over(c, NoReply) ELSE call[c]]
  /\ UNCHANGED rows \/ \E c \in Calls : Commits(c)

-----------------------------------------------------------------------------
Start(c) ==
  \/ StartLoop(c)
  \/ \E s \in Suspensions, a \in Approvals :
       \/ StartResume(c, s, a)
       \/ ResumeWithoutRounds(c, s, a)
       \/ ReplayResume(c, s, a)
       \/ RejectResume(c, s, a)

Round(c) == ProviderCallsTools(c) \/ ToolAnswers(c) \/ NextRound(c)

End(c) ==
  \/ ProviderCompletes(c)
  \/ RoundsExceeded(c)
  \/ ToolWantsApproval(c)
  \/ CallRejects(c)
  \/ ChainRejects(c)

Next ==
  \/ \E c \in Calls : Start(c) \/ Round(c) \/ End(c)
  \/ \E s \in Suspensions : Revoke(s)
  \/ CrashAndRestart

Spec == Init /\ [][Next]_vars

-----------------------------------------------------------------------------
(***************************************************************************)
(* Properties.                                                             *)
(***************************************************************************)
Reply ==
  [kind : {"none", "rejected", "completed", "failed", "approval_pending"},
   by : Calls \cup {Null}, next : Suspensions \cup {Null}]

Row ==
  [status : {"absent", "pending", "resumed", "cancelled", "expired"},
   approval : Approvals \cup {Null}, remaining : Nat, used : Nat, open : Nat,
   final : Reply, grant : Nat, parent : Suspensions \cup {Null}]

Call ==
  [pc : {"idle", "asking", "dispatching", "ended"}, from : Suspensions \cup {Null},
   key : Approvals \cup {Null}, budget : Nat, round : Nat, used : Nat,
   open : Nat, queue : Nat, grant : Nat, reply : Reply]

\* Every variable holds values of its kind; a row that can be resumed has an
\* unanswered tool call, and a call that dispatches has as many unanswered
\* tool calls as it has in its queue, or more.
TypeOK ==
  /\ rows \in [Suspensions -> Row]
  /\ call \in [Calls -> Call]
  /\ faults \in Nat
  /\ \A s \in Suspensions : rows[s].status # "absent" => rows[s].open > 0
  /\ \A c \in Calls :
       call[c].pc = "dispatching" => 0 < call[c].queue /\ call[c].queue <= call[c].open

\* Along a chain of suspensions and resumptions the conversation never holds
\* more assistant messages than the maxToolRounds of the first call: what a row
\* has used and what it has left make up the grant, a call in flight has
\* used what its rounds so far account for, and every link of the chain has
\* used at least one round more than the one before it.
BudgetKept ==
  /\ \A s \in Suspensions : rows[s].status # "absent" =>
       /\ rows[s].used + rows[s].remaining = rows[s].grant
       /\ rows[s].grant <= HardCap
       /\ rows[s].parent # Null =>
            /\ rows[rows[s].parent].used < rows[s].used
            /\ rows[rows[s].parent].grant = rows[s].grant
  /\ \A c \in Calls : InFlight(c) =>
       /\ call[c].grant <= HardCap
       /\ 0 < call[c].round /\ call[c].round <= call[c].budget
       /\ IF call[c].pc = "asking"
          THEN call[c].used + call[c].budget + 1 = call[c].grant + call[c].round
          ELSE call[c].used + call[c].budget = call[c].grant + call[c].round
       /\ call[c].used <= call[c].grant

IsEnvelope(reply) == reply.kind \in {"completed", "failed", "approval_pending"}
Answered(c) == call[c].pc = "ended" /\ IsEnvelope(call[c].reply)

\* A suspension has one outcome: all resumptions of it that are answered at all
\* are answered under one approval with one and the same envelope, although
\* calls fail, are retried, are revoked and are cut off by crashes.  (Without
\* overlapping resumptions.)
OneOutcome ==
  \A c, d \in Calls :
    Answered(c) /\ Answered(d) /\ call[c].from = call[d].from /\ call[c].from # Null
      => call[c].key = call[d].key /\ call[c].reply = call[d].reply

\* The host can reach a pending suspension when a reply told it the id or a
\* resumption of the parent would.
Reachable(s) ==
  \/ \E c \in Calls : call[c].reply.next = s
  \/ /\ rows[s].parent # Null
     /\ rows[rows[s].parent].status = "resumed"
     /\ rows[rows[s].parent].final.next = s

\* No work is lost silently: every pending suspension is reachable, except one
\* for every fault.
OrphansCounted ==
  Cardinality({s \in Suspensions : rows[s].status = "pending" /\ ~Reachable(s)})
    <= faults

\* A conversation does not fork: a suspension is continued by one new
\* suspension at most, except one more for every fault.  (Without overlapping
\* resumptions.)
HeirsCounted ==
  \A s \in Suspensions :
    Cardinality({t \in Suspensions : rows[t].status # "absent" /\ rows[t].parent = s})
      <= 1 + faults

\* The table, seen as a ledger: each suspension is opened once, settled once,
\* with an answer that is never replaced and names the suspension that goes on,
\* if one does, and nothing follows a cancellation.  (Without overlapping
\* resumptions.)
EntryOf(status) ==
  CASE status = "absent" -> "free"
    [] status = "pending" -> "open"
    [] status = "resumed" -> "settled"
    [] OTHER -> "void"

Ledger == INSTANCE SuspensionLedger WITH
  Entries <- Suspensions,
  Answers <- {e \in Reply : IsEnvelope(e)},
  NoAnswer <- NoReply,
  NoEntry <- Null,
  entry <- [s \in Suspensions |-> EntryOf(rows[s].status)],
  answer <- [s \in Suspensions |-> rows[s].final],
  heir <- [s \in Suspensions |-> rows[s].final.next]

ImplementsLedger == Ledger!Spec

\* The inductive invariant: what these properties need beyond themselves (see
\* ToolLoopProofs).  A call that did not start has no locals; a call in flight
\* comes from a row that exists and that its own counters account for; so does
\* a row that has a parent; a row has an answer once it is resumed, not before.
Blank == \A c \in Calls : call[c].pc = "idle" => call[c] = Idle

Accounted ==
  \A c \in Calls : InFlight(c) /\ call[c].from # Null =>
    LET r == rows[call[c].from] IN
    /\ r.status # "absent"
    /\ r.grant = call[c].grant
    /\ r.used + call[c].round = IF call[c].pc = "asking" THEN call[c].used + 1
                                                        ELSE call[c].used

ParentsExist ==
  \A s \in Suspensions : rows[s].status # "absent" /\ rows[s].parent # Null =>
    rows[rows[s].parent].status # "absent"

AnswersCached ==
  \A s \in Suspensions :
    /\ rows[s].status \in {"absent", "pending"} => rows[s].final = NoReply
    /\ rows[s].status = "resumed" => IsEnvelope(rows[s].final)

\* Without overlapping resumptions: a call in flight has its row pending and
\* for itself, and an answered one left its answer there.
ResumesAlone ==
  \A c \in Calls : InFlight(c) /\ call[c].from # Null =>
    /\ rows[call[c].from].status = "pending"
    /\ \A d \in Calls : InFlight(d) /\ call[d].from = call[c].from => d = c

AnswersKept ==
  \A c \in Calls : Answered(c) /\ call[c].from # Null =>
    LET r == rows[call[c].from] IN
    /\ r.status \notin {"absent", "pending"}
    /\ r.final = call[c].reply
    /\ r.approval = call[c].key

LoopInv ==
  /\ TypeOK /\ Blank /\ BudgetKept /\ Accounted /\ ParentsExist /\ AnswersCached
AloneInv == ResumesAlone /\ AnswersKept

\* brain.toolLoop.resume is "idempotent per (suspensionId, approvalId)"
\* (docs/ipc-contracts.md): two answers to the same pair are the same.
IdempotentPerApproval ==
  \A c, d \in Calls :
    /\ Answered(c) /\ Answered(d)
    /\ call[c].from = call[d].from /\ call[c].from # Null
    /\ call[c].key = call[d].key
    => call[c].reply = call[d].reply

\* Tool calls are dispatched in order and their results appended before the next
\* provider round: no request to the provider has an unanswered tool call.
NoDanglingToolCalls == \A c \in Calls : call[c].pc = "asking" => call[c].open = 0
=============================================================================
