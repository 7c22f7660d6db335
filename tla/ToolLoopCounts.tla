--------------------------- MODULE ToolLoopCounts ---------------------------
(***************************************************************************)
(* Proofs about ToolLoop: what a crash, or a failed write at the end of a  *)
(* resumption, can cost.                                                   *)
(***************************************************************************)
EXTENDS ToolLoopProofs, FiniteSetTheorems

\* The host has been told the id of a suspension.
Told(s) == \E c \in Calls : call[c].reply.next = s

\* The suspensions nobody was told about.  Revoking a suspension makes another
\* one unreachable only if it is one of them.
Untold == {s \in Suspensions : rows[s].status # "absent" /\ ~Told(s)}

\* A call in flight has not replied.
Silent == \A c \in Calls : InFlight(c) => call[c].reply = NoReply

UntoldInv ==
  /\ Silent
  /\ IsFiniteSet(Untold) /\ Cardinality(Untold) <= faults

\* The suspensions that continue another one.
Heirs(s) == {t \in Suspensions : rows[t].status # "absent" /\ rows[t].parent = s}

\* While a suspension is pending no more than the faults have given it heirs.
HeirInv ==
  \A s \in Suspensions :
    /\ IsFiniteSet(Heirs(s))
    /\ Cardinality(Heirs(s)) <= faults + 1
    /\ rows[s].status = "pending" => Cardinality(Heirs(s)) <= faults

-----------------------------------------------------------------------------
\* A set and at most one more.
LEMMA OneMore ==
  ASSUME NEW S, IsFiniteSet(S), NEW x
  PROVE  /\ IsFiniteSet(S \cup {x})
         /\ Cardinality(S) \in Nat
         /\ Cardinality(S \cup {x}) \in Nat
         /\ Cardinality(S \cup {x}) <= Cardinality(S) + 1
<1>1. IsFiniteSet(S \cup {x}) /\ Cardinality(S) \in Nat
  BY FS_AddElement, FS_CardinalityType
<1>2. Cardinality(S \cup {x}) \in Nat
  BY <1>1, FS_CardinalityType
<1>3. CASE x \in S
  <2>1. Cardinality(S \cup {x}) = Cardinality(S)
    BY <1>3, FS_AddElement
  <2> QED  BY <1>1, <1>2, <2>1
<1>4. CASE x \notin S
  <2>1. Cardinality(S \cup {x}) = Cardinality(S) + 1
    BY <1>4, FS_AddElement
  <2> QED  BY <1>1, <1>2, <2>1
<1> QED  BY <1>3, <1>4

\* A call in flight has not been answered.
LEMMA SilentNext ==
  ASSUME LoopInv, Silent, Next
  PROVE  Silent'
<1> SUFFICES ASSUME NEW c \in Calls, InFlight(c)' PROVE call'[c].reply = NoReply
  BY DEF Silent
<1>1. call \in [Calls -> Call]
  BY DEF LoopInv, TypeOK
<1>2. CASE call'[c] = call[c]
  BY <1>2 DEF Silent, InFlight
<1>3. CASE call'[c].pc = "ended"
  BY <1>3 DEF InFlight
<1>4. CASE StartLoop(c)
  BY <1>1, <1>4 DEF StartLoop, LoopInv, Blank, Idle, Call
<1>5. ASSUME NEW s \in Suspensions, NEW a \in Approvals, StartResume(c, s, a)
      PROVE  call'[c].reply = NoReply
  BY <1>1, <1>5 DEF StartResume, LoopInv, Blank, Idle, Call
<1>6. CASE Round(c)
  BY <1>1, <1>6 DEF Round, ProviderCallsTools, ToolAnswers, NextRound, Silent, InFlight, Call
<1> QED  BY <1>2, <1>3, <1>4, <1>5, <1>6, CallMoves

\* What the host was told it knows for good.
LEMMA ToldStays ==
  ASSUME LoopInv, Silent, Next, NEW s \in Suspensions, Told(s)
  PROVE  Told(s)'
<1>1. PICK c \in Calls : call[c].reply.next = s
  BY DEF Told
<1>2. s # Null /\ NoReply.next = Null
  BY NullAssumption DEF NoReply, Envelope
<1>3. call[c].pc = "ended"
  BY <1>1, <1>2 DEF Silent, InFlight, LoopInv, Blank, Idle, TypeOK, Call
<1> QED  BY <1>1, <1>3, EndedStays DEF Told

\* The row s comes into being from the call c and no other does; either that is
\* a fault, or the reply names it and the row it continues is closed.
NewFrom(c, s) ==
  /\ InFlight(c)
  /\ rows'[s].parent = call[c].from
  /\ rows[s].status = "absent"
  /\ \A t \in Suspensions \ {s} : rows[t].status = "absent" => rows'[t].status = "absent"
  /\ \/ faults' = faults + 1
     \/ /\ faults' = faults
        /\ call'[c].reply.next = s
        /\ call[c].from # Null => rows'[call[c].from].status = "resumed"

NoneNew ==
  /\ \A t \in Suspensions : rows[t].status = "absent" => rows'[t].status = "absent"
  /\ faults' \in {faults, faults + 1}

\* A row is inserted by a call in flight, below the row the call resumes.
LEMMA Inserted ==
  ASSUME LoopInv, NEW c \in Calls, NEW s \in Suspensions, NEW a \in NewApproval,
         Inserts(c, s, a) \/ Suspends(c, s, a)
  PROVE  /\ InFlight(c)
         /\ rows'[s].parent = call[c].from
         /\ rows[s].status = "absent"
         /\ \A t \in Suspensions \ {s} :
              rows[t].status = "absent" => rows'[t].status = "absent"
         /\ Suspends(c, s, a) /\ call[c].from # Null =>
              rows'[call[c].from].status = "resumed"
<1>1. /\ rows \in [Suspensions -> Row]
      /\ call[c].from \in Suspensions \cup {Null}
  BY DEF LoopInv, TypeOK, Call
<1>2. InFlight(c) /\ rows[s].status = "absent"
  BY DEF Inserts, Suspends, MayWantApproval, InFlight
<1>3. call[c].from # Null => call[c].from # s /\ rows[call[c].from].status # "absent"
  BY <1>2 DEF LoopInv, Accounted
<1>4. CASE ~Suspends(c, s, a)
  BY <1>1, <1>2, <1>4 DEF Inserts, Suspended
<1>5. CASE Suspends(c, s, a)
  <2>1. CASE call[c].from = Null
    BY <1>1, <1>2, <1>5, <2>1 DEF Suspends, Suspended, Closed
  <2>2. CASE call[c].from # Null
    BY <1>1, <1>2, <1>3, <1>5, <2>2 DEF Suspends, Suspended, Closed, MarkResumed
  <2> QED  BY <2>1, <2>2
<1> QED  BY <1>4, <1>5

\* A step makes no new row, or one.
LEMMA Births ==
  ASSUME LoopInv, Next
  PROVE  NoneNew \/ \E c \in Calls, s \in Suspensions : NewFrom(c, s)
<1> USE DEF LoopInv
<1>1. rows \in [Suspensions -> Row] /\ call \in [Calls -> Call] /\ faults \in Nat
  BY DEF TypeOK
<1>2. ASSUME NEW rw, rw = rows, NEW s \in Suspensions, rows[s].status # "absent", NEW a, NEW e,
             rows' = MarkResumed(rw, s, a, e)
      PROVE  \A t \in Suspensions : rows[t].status = "absent" => rows'[t].status = "absent"
  BY <1>1, <1>2 DEF MarkResumed
<1>3. ASSUME NEW c \in Calls, InFlight(c), NEW e, rows' = Closed(rows, c, e)
      PROVE  \A t \in Suspensions : rows[t].status = "absent" => rows'[t].status = "absent"
  <2>1. CASE call[c].from = Null
    BY <1>3, <2>1 DEF Closed
  <2>2. CASE call[c].from # Null
    <3>1. call[c].from \in Suspensions /\ rows[call[c].from].status # "absent"
      BY <1>1, <1>3, <2>2 DEF Accounted, Call
    <3> QED  BY <1>2, <1>3, <2>2, <3>1 DEF Closed
  <2> QED  BY <2>1, <2>2
<1>4. ASSUME NEW c \in Calls, Completes(c) \/ Fails(c)
      PROVE  \A t \in Suspensions : rows[t].status = "absent" => rows'[t].status = "absent"
  BY <1>3, <1>4 DEF Completes, Fails, Exhausted, InFlight
<1>5. ASSUME NEW c \in Calls, Start(c)
      PROVE  NoneNew
  BY <1>1, <1>2, <1>5 DEF Start, StartLoop, StartResume, ResumeWithoutRounds, Resumable,
                          ReplayResume, RejectResume, NoneNew
<1>6. ASSUME NEW c \in Calls, Round(c)
      PROVE  NoneNew
  BY <1>6, <1>1 DEF Round, ProviderCallsTools, ToolAnswers, NextRound, NoneNew
<1>7. ASSUME NEW c \in Calls, ProviderCompletes(c) \/ RoundsExceeded(c) \/ CallRejects(c)
      PROVE  NoneNew
  BY <1>1, <1>4, <1>7 DEF ProviderCompletes, RoundsExceeded, CallRejects, NoneNew
<1>8. ASSUME NEW c \in Calls, ToolWantsApproval(c)
      PROVE  \E s \in Suspensions : NewFrom(c, s)
  <2>1. PICK s \in Suspensions, a \in NewApproval :
           Suspends(c, s, a) /\ Ended(c, Pointer(c, s))
    BY <1>8 DEF ToolWantsApproval
  <2>2. call'[c].reply.next = s /\ faults' = faults
    BY <1>1, <1>8, <2>1 DEF ToolWantsApproval, Ended, Over, Idle, Pointer, Envelope
  <2> QED  BY <2>1, <2>2, Inserted DEF NewFrom
<1>9. ASSUME NEW c \in Calls, ChainRejects(c)
      PROVE  \E s \in Suspensions : NewFrom(c, s)
  BY <1>9, Inserted DEF ChainRejects, NewFrom
<1>10. CASE CrashAndRestart
  <2>1. ASSUME NEW c \in Calls, Commits(c), faults' = faults + 1
        PROVE  NoneNew \/ \E s \in Suspensions : NewFrom(c, s)
    <3>1. CASE Completes(c) \/ Fails(c)
      BY <1>4, <2>1, <3>1 DEF NoneNew
    <3>2. ASSUME NEW s \in Suspensions, NEW a \in NewApproval,
                 Inserts(c, s, a) \/ Suspends(c, s, a)
          PROVE  NewFrom(c, s)
      BY <2>1, <3>2, Inserted DEF NewFrom
    <3> QED  BY <2>1, <3>1, <3>2 DEF Commits
  <2> QED  BY <1>10, <2>1 DEF CrashAndRestart, NoneNew
<1>11. ASSUME NEW s \in Suspensions, Revoke(s)
       PROVE  NoneNew
  BY <1>1, <1>11 DEF Revoke, NoneNew
<1> QED  BY <1>5, <1>6, <1>7, <1>8, <1>9, <1>10, <1>11 DEF Next, End

-----------------------------------------------------------------------------
\* A row whose id nobody was told comes with a fault.
LEMMA UntoldNext ==
  ASSUME LoopInv, UntoldInv, Next
  PROVE  UntoldInv'
<1>1. faults \in Nat
  BY DEF LoopInv, TypeOK
<1>2. \A s \in Suspensions : Told(s) => Told(s)'
  BY ToldStays DEF UntoldInv
<1>3. CASE NoneNew
  <2>1. Untold' \subseteq Untold /\ faults' >= faults /\ faults' \in Nat
    BY <1>1, <1>2, <1>3 DEF NoneNew, Untold
  <2>2. IsFiniteSet(Untold') /\ Cardinality(Untold') <= Cardinality(Untold)
    BY <2>1, FS_Subset DEF UntoldInv
  <2>3. Cardinality(Untold) \in Nat /\ Cardinality(Untold') \in Nat
    BY <2>2, FS_CardinalityType DEF UntoldInv
  <2> QED  BY <1>1, <2>1, <2>2, <2>3, SilentNext DEF UntoldInv
<1>4. ASSUME NEW c \in Calls, NEW s \in Suspensions, NewFrom(c, s)
      PROVE  UntoldInv'
  <2>1. /\ IsFiniteSet(Untold \cup {s})
        /\ Cardinality(Untold) \in Nat
        /\ Cardinality(Untold \cup {s}) \in Nat
        /\ Cardinality(Untold \cup {s}) <= Cardinality(Untold) + 1
    BY OneMore DEF UntoldInv
  <2>2. CASE faults' = faults + 1
    <3>1. Untold' \subseteq Untold \cup {s}
      BY <1>2, <1>4 DEF NewFrom, Untold
    <3>2. IsFiniteSet(Untold') /\ Cardinality(Untold') <= Cardinality(Untold \cup {s})
      BY <2>1, <3>1, FS_Subset
    <3>3. Cardinality(Untold') \in Nat
      BY <3>2, FS_CardinalityType
    <3> QED  BY <1>1, <2>1, <2>2, <3>2, <3>3, SilentNext DEF UntoldInv
  <2>3. CASE faults' = faults /\ call'[c].reply.next = s
    <3>1. Untold' \subseteq Untold
      BY <1>2, <1>4, <2>3 DEF NewFrom, Untold, Told
    <3>2. IsFiniteSet(Untold') /\ Cardinality(Untold') <= Cardinality(Untold)
      BY <3>1, FS_Subset DEF UntoldInv
    <3>3. Cardinality(Untold') \in Nat
      BY <3>2, FS_CardinalityType
    <3> QED  BY <1>1, <2>1, <2>3, <3>2, <3>3, SilentNext DEF UntoldInv
  <2> QED  BY <1>4, <2>2, <2>3 DEF NewFrom
<1> QED  BY <1>3, <1>4, Births

\* The rows that continue a suspension when no row or the row t comes to be.
LEMMA HeirsKept ==
  ASSUME LoopInv, Next, NEW s \in Suspensions, NoneNew
  PROVE  Heirs(s)' = Heirs(s)
BY RowsStay DEF Heirs, NoneNew

\* A row gets a heir only with a new row of a call that resumes it.
LEMMA HeirsAdded ==
  ASSUME LoopInv, Next, NEW s \in Suspensions,
         NEW c \in Calls, NEW t \in Suspensions, NewFrom(c, t)
  PROVE  /\ Heirs(s)' \subseteq Heirs(s) \cup {t}
         /\ call[c].from # s => Heirs(s)' = Heirs(s)
<1>1. \A u \in Suspensions \ {t} : u \in Heirs(s)' <=> u \in Heirs(s)
  BY RowsStay DEF Heirs, NewFrom
<1>2. t \notin Heirs(s) /\ (t \in Heirs(s)' => call[c].from = s)
  BY DEF Heirs, NewFrom
<1>3. Heirs(s) \subseteq Suspensions /\ Heirs(s)' \subseteq Suspensions
  BY DEF Heirs
<1> QED  BY <1>1, <1>2, <1>3

\* A pending row has no more heirs than there were faults.
LEMMA HeirNext ==
  ASSUME ~Overlaps, LoopInv, ResumesAlone, HeirInv, Next
  PROVE  HeirInv'
<1>1. faults \in Nat /\ \A c \in Calls : call[c].from \in Suspensions \cup {Null}
  BY DEF LoopInv, TypeOK, Call
<1> SUFFICES ASSUME NEW s \in Suspensions
             PROVE  /\ IsFiniteSet(Heirs(s)')
                    /\ Cardinality(Heirs(s)') <= faults' + 1
                    /\ rows'[s].status = "pending" => Cardinality(Heirs(s)') <= faults'
  BY DEF HeirInv
<1> DEFINE H == Heirs(s)
<1>2. /\ IsFiniteSet(H) /\ Cardinality(H) \in Nat
      /\ Cardinality(H) <= faults + 1
      /\ rows[s].status = "pending" => Cardinality(H) <= faults
  BY FS_CardinalityType DEF HeirInv
<1>3. rows'[s].status = "pending" => rows[s].status = "pending" \/ H = {}
  <2>1. rows[s].status = "absent" => H = {}
    BY NullAssumption DEF Heirs, LoopInv, ParentsExist
  <2> QED  BY <2>1, RowMoves DEF Marked, Born
<1>4. CASE H' = H /\ faults' \in {faults, faults + 1}
  <2>1. rows'[s].status = "pending" => Cardinality(H) <= faults
    BY <1>1, <1>2, <1>3, FS_EmptySet
  <2> HIDE DEF H
  <2>2. IsFiniteSet(H') /\ Cardinality(H') = Cardinality(H)
    BY <1>2, <1>4
  <2>3. /\ Cardinality(H') <= faults' + 1
        /\ rows'[s].status = "pending" => Cardinality(H') <= faults'
    BY <1>1, <1>2, <1>4, <2>1, <2>2
  <2> QED  BY <2>2, <2>3 DEF H
<1>5. ASSUME NEW c \in Calls, NEW t \in Suspensions, NewFrom(c, t), call[c].from = s
      PROVE  /\ IsFiniteSet(H')
             /\ Cardinality(H') <= faults' + 1
             /\ rows'[s].status = "pending" => Cardinality(H') <= faults'
  <2>1. s # Null /\ rows[s].status = "pending"
    BY <1>5, NullAssumption DEF NewFrom, ResumesAlone
  <2>2. H' \subseteq H \cup {t}
    BY <1>5, HeirsAdded
  <2> HIDE DEF H
  <2>3. /\ IsFiniteSet(H \cup {t}) /\ Cardinality(H \cup {t}) \in Nat
        /\ Cardinality(H \cup {t}) <= Cardinality(H) + 1
    BY <1>2, OneMore
  <2>4. IsFiniteSet(H') /\ Cardinality(H') <= Cardinality(H \cup {t})
    BY <2>2, <2>3, FS_Subset
  <2>5. Cardinality(H') \in Nat
    BY <2>4, FS_CardinalityType
  <2>6. Cardinality(H') <= faults + 1
    BY <1>1, <1>2, <2>1, <2>3, <2>4, <2>5
  <2>7. CASE faults' = faults + 1
    BY <1>1, <2>4, <2>5, <2>6, <2>7
  <2>8. CASE faults' = faults /\ rows'[s].status = "resumed"
    BY <1>1, <2>4, <2>5, <2>6, <2>8
  <2> QED  BY <1>5, <2>1, <2>7, <2>8 DEF NewFrom
<1>6. CASE NoneNew
  BY <1>4, <1>6, HeirsKept DEF NoneNew
<1>7. ASSUME NEW c \in Calls, NEW t \in Suspensions, NewFrom(c, t), call[c].from # s
      PROVE  H' = H /\ faults' \in {faults, faults + 1}
  BY <1>7, HeirsAdded DEF NewFrom
<1> QED  BY <1>4, <1>5, <1>6, <1>7, Births

-----------------------------------------------------------------------------
\* Initially there are no rows.
LEMMA UntoldInit == Init => UntoldInv
<1> SUFFICES ASSUME Init PROVE UntoldInv
  OBVIOUS
<1>1. Untold = {} /\ faults = 0 /\ Silent
  BY DEF Init, Untold, Absent, Silent, InFlight, Idle
<1> QED  BY <1>1, FS_EmptySet DEF UntoldInv

\* There are no more rows whose id nobody was told than faults.
THEOREM UntoldInvariance == Spec => []UntoldInv
<1>1. LoopInv /\ UntoldInv /\ [Next]_vars => UntoldInv'
  <2> SUFFICES ASSUME LoopInv, UntoldInv, UNCHANGED vars PROVE UntoldInv'
    BY UntoldNext
  <2>1. Untold' = Untold /\ faults' = faults
    BY DEF vars, Untold, Told
  <2> QED  BY <2>1 DEF vars, UntoldInv, Silent, InFlight
<1> QED  BY <1>1, UntoldInit, LoopInvariance, PTL DEF Spec

\* A crash between the writes of a suspension and its reply, or a write that
\* fails there, leaves one pending suspension at most that nobody can reach, and
\* nothing else does: not a revocation, not resumptions that overlap.
THEOREM OrphansAlwaysCounted == Spec => []OrphansCounted
<1>1. LoopInv /\ UntoldInv => OrphansCounted
  <2> SUFFICES ASSUME LoopInv, UntoldInv PROVE OrphansCounted
    OBVIOUS
  <2> DEFINE O == {s \in Suspensions : rows[s].status = "pending" /\ ~Reachable(s)}
  <2>1. O \subseteq Untold
    BY DEF Untold, Told, Reachable
  <2>2. Cardinality(O) <= Cardinality(Untold) /\ IsFiniteSet(O)
    BY <2>1, FS_Subset DEF UntoldInv
  <2>3. Cardinality(O) \in Nat /\ Cardinality(Untold) \in Nat /\ faults \in Nat
    BY <2>2, FS_CardinalityType DEF UntoldInv, LoopInv, TypeOK
  <2>4. Cardinality(O) <= faults
    BY <2>2, <2>3 DEF UntoldInv
  <2> QED  BY <2>4 DEF OrphansCounted
<1> QED  BY <1>1, UntoldInvariance, LoopInvariance, PTL

\* When a suspension is resumed one call at a time it is continued by one new
\* suspension at most, and by one more for every fault.
THEOREM HeirsAlwaysCounted ==
  ASSUME ~Overlaps
  PROVE  Spec => []HeirsCounted
<1>1. Init => HeirInv
  <2> SUFFICES ASSUME Init PROVE HeirInv
    OBVIOUS
  <2>1. faults = 0 /\ \A s \in Suspensions : Heirs(s) = {}
    BY DEF Init, Heirs, Absent
  <2> QED  BY <2>1, FS_EmptySet DEF HeirInv
<1>2. AloneInv => ResumesAlone
  BY DEF AloneInv
<1>3. LoopInv /\ AloneInv /\ HeirInv /\ [Next]_vars => HeirInv'
  <2> SUFFICES ASSUME HeirInv, UNCHANGED vars PROVE HeirInv'
    BY <1>2, HeirNext
  <2>1. rows' = rows /\ faults' = faults /\ \A s \in Suspensions : Heirs(s)' = Heirs(s)
    BY DEF vars, Heirs
  <2> QED  BY <2>1 DEF HeirInv
<1>4. LoopInv /\ HeirInv => HeirsCounted
  <2> SUFFICES ASSUME LoopInv, HeirInv, NEW s \in Suspensions
               PROVE  Cardinality(Heirs(s)) <= 1 + faults
    BY DEF HeirsCounted, Heirs
  <2>1. faults \in Nat
    BY DEF LoopInv, TypeOK
  <2>2. Cardinality(Heirs(s)) \in Nat /\ Cardinality(Heirs(s)) <= faults + 1
    BY FS_CardinalityType DEF HeirInv
  <2> QED  BY <2>1, <2>2
<1> QED  BY <1>1, <1>3, <1>4, LoopInvariance, AloneInvariance, PTL DEF Spec

=============================================================================
