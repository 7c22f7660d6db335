-------------------------- MODULE MemoryStoreProofs --------------------------
(***************************************************************************)
(* The memory store, for any number of memories, tags, faults and rounds   *)
(* of housekeeping: its edges, its audit trail, its promotions, and what   *)
(* merged memories inherit.                                                *)
(***************************************************************************)
EXTENDS MemoryStore, FiniteSetTheorems, TLAPS

(* What open() is about to do fits the version, and a copy that is about   *)
(* to take the place of the audit table has its rows.                      *)
StageInv ==
    /\ stage \in {"create", "fill", "drop", "rename"} => version \in {1, 3}
    /\ stage = "schema" => version = 0
    /\ stage = "summaries" => version = 2
    /\ stage = "stamp" => version \in 0 .. 3
    /\ stage \in {"drop", "rename"} =>
          rows["memory_audit"] \subseteq rows["memory_audit_new"]

(* A question belongs to a step that asks one, only promotions fall back,  *)
(* and a tag without its edges gets none until its row is gone.            *)
ModeInv ==
    /\ mode = "falling" => step \in {"promote", "promote_skill"}
    /\ mode \in {"asking", "deciding"} => step \in DOMAIN After
    /\ cut # {} => step = "cleanup" /\ mode = "deciding"
    /\ \A t \in cut : /\ \A e \in tagged : e[2] # t
                      /\ \A e \in tree : e[1] # t /\ e[2] # t

(* The memory a contradiction removes is there.                            *)
LeftLives == step = "contradict" => left \subseteq Living

(* The candidates for a promotion have been used often enough.             *)
CandidatesEarned ==
    step \in {"promote", "promote_skill"} => \A m \in left : used[m] >= Threshold

MInv ==
    /\ TypeOK /\ StageInv /\ ModeInv /\ CandidatesEarned /\ LeftLives
    /\ NoDanglingEdges /\ AuditTrail

-----------------------------------------------------------------------------
(* An audit row once a set of memories is deleted.                         *)
Cleared(r, gone) == IF r.id \in gone THEN [r EXCEPT !.id = 0] ELSE r

\* The trail after a transaction: the rows there were and the new ones, without
\* the pointers to the memories it deletes.
LEMMA RecordTrail ==
    ASSUME TypeOK, NEW new \in SUBSET Row, NEW gone \in SUBSET Ids, Record(new, gone)
    PROVE  /\ rows' \in [Audits -> SUBSET Row]
           /\ Trail' = {Cleared(r, gone) : r \in Trail \cup new}
<1>1. \A r \in Row : Cleared(r, gone) \in Row
  BY DEF Cleared, Row
<1>2. rows \in [Audits -> SUBSET Row]
  BY DEF TypeOK, SchemaTypeOK
<1>3. rows' = [t \in Audits |->
                {Cleared(r, gone) : r \in rows[t] \cup (IF t = "memory_audit" THEN new ELSE {})}]
  BY DEF Record, Orphaned, Cleared
<1>4. rows' \in [Audits -> SUBSET Row]
  BY <1>1, <1>2, <1>3 DEF Audits
<1>5. /\ rows'["memory_audit"] = {Cleared(r, gone) : r \in rows["memory_audit"] \cup new}
      /\ rows'["memory_audit_new"] = {Cleared(r, gone) : r \in rows["memory_audit_new"]}
  BY <1>3 DEF Audits
<1>6. Trail' = {Cleared(r, gone) : r \in Trail \cup new}
  BY <1>5 DEF Trail
<1> QED BY <1>4, <1>6

\* A transaction that deletes the memories of a set, with a row for each, and
\* creates others, with a row for each, keeps the audit trail.
LEMMA AuditKept ==
    ASSUME TypeOK, AuditTrail, NEW new \in SUBSET Row, NEW gone \in SUBSET Living,
           Record(new, gone),
           \A m \in gone : /\ layer'[m] = "gone"
                           /\ \E r \in new : r.op \in {"delete", "prune", "merge"} /\ r.of = m,
           \A m \in Ids \ gone :
              /\ layer'[m] = "gone" => layer[m] = "gone"
              /\ layer[m] \in Layers => layer'[m] \in Layers
              /\ layer'[m] \in Layers /\ layer[m] \notin Layers =>
                    [op |-> "create", id |-> m, of |-> m] \in new,
           \A r \in new : r.id \in Ids \ gone => layer'[r.id] \in Layers
    PROVE  /\ AuditTrail'
           /\ \A r \in Trail : r \in Trail' \/ [r EXCEPT !.id = 0] \in Trail'
<1>1. gone \in SUBSET Ids /\ 0 \notin gone
  BY DEF Living, Ids
<1>2. Trail' = {Cleared(r, gone) : r \in Trail \cup new}
  BY <1>1, RecordTrail
<1>3. Trail \subseteq Row
  BY DEF Trail, TypeOK, SchemaTypeOK, Audits
<1>4. \A r \in Row : /\ r.id \in gone => Cleared(r, gone) = [op |-> r.op, id |-> 0, of |-> r.of]
                     /\ r.id \notin gone => Cleared(r, gone) = r
                     /\ Cleared(r, gone).op = r.op /\ Cleared(r, gone).of = r.of
                     /\ Cleared(r, gone).id \in {r.id, 0} \ gone
  BY <1>1 DEF Cleared, Row
<1>5. ASSUME NEW m \in Ids
      PROVE  /\ layer'[m] \in Layers => [op |-> "create", id |-> m, of |-> m] \in Trail'
             /\ layer'[m] = "gone" =>
                   /\ [op |-> "create", id |-> 0, of |-> m] \in Trail'
                   /\ \E r \in Trail' : r.op \in {"delete", "prune", "merge"} /\ r.of = m
             /\ layer'[m] \notin Layers => \A r \in Trail' : r.id # m
  <2> DEFINE made == [op |-> "create", id |-> m, of |-> m]
             orphan == [op |-> "create", id |-> 0, of |-> m]
  <2>1. made \in Row /\ orphan \in Row /\ m # 0
    BY DEF Row, Operations, Ids
  <2>2. layer[m] \in Layers \cup {"unborn", "gone"}
    BY DEF TypeOK
  <2>a. "gone" \notin Layers
    BY DEF Layers
  <2>3. CASE m \in gone
    <3>1. layer[m] \in Layers /\ made \in Trail
      BY <2>3 DEF Living, AuditTrail
    <3>2. Cleared(made, gone) = orphan
      BY <2>1, <2>3, <1>4
    <3>3. orphan \in Trail'
      BY <3>1, <3>2, <1>2
    <3>4. PICK r \in new : r.op \in {"delete", "prune", "merge"} /\ r.of = m
      BY <2>3
    <3>5. Cleared(r, gone) \in Trail'
      BY <3>4, <1>2
    <3>6. \A q \in Trail' : q.id # m
      BY <1>2, <1>3, <1>4, <2>3, <2>1
    <3> QED BY <2>3, <2>a, <3>3, <3>4, <3>5, <3>6, <1>4
  <2>4. CASE m \notin gone
    <3>1. ASSUME layer'[m] \in Layers PROVE made \in Trail'
      <4>1. made \in Trail \cup new
        BY <2>4, <3>1 DEF AuditTrail
      <4>2. Cleared(made, gone) = made
        BY <2>1, <2>4, <1>4
      <4> QED BY <4>1, <4>2, <1>2
    <3>2. ASSUME layer'[m] = "gone"
          PROVE  /\ orphan \in Trail'
                 /\ \E r \in Trail' : r.op \in {"delete", "prune", "merge"} /\ r.of = m
      <4>1. layer[m] = "gone"
        BY <2>4, <3>2
      <4>2. orphan \in Trail
        BY <4>1 DEF AuditTrail
      <4>3. PICK r \in Trail : r.op \in {"delete", "prune", "merge"} /\ r.of = m
        BY <4>1 DEF AuditTrail
      <4>4. Cleared(orphan, gone) = orphan
        BY <2>1, <1>1, <1>4
      <4>5. Cleared(r, gone) \in Trail' /\ Cleared(orphan, gone) \in Trail'
        BY <4>2, <4>3, <1>2
      <4> QED BY <4>3, <4>4, <4>5, <1>3, <1>4
    <3>3. ASSUME layer'[m] \notin Layers PROVE \A q \in Trail' : q.id # m
      <4>1. layer[m] \notin Layers
        BY <2>4, <3>3
      <4>2. \A r \in Trail : r.id # m
        BY <4>1 DEF AuditTrail, Living
      <4>3. \A r \in new : r.id # m
        BY <2>4, <3>3
      <4> QED BY <4>2, <4>3, <1>2, <1>3, <1>4, <2>1
    <3> QED BY <3>1, <3>2, <3>3
  <2> QED BY <2>3, <2>4
<1>6. AuditTrail'
  BY <1>5 DEF AuditTrail, Living
<1>7. \A r \in Trail : r \in Trail' \/ [r EXCEPT !.id = 0] \in Trail'
  BY <1>2 DEF Cleared
<1> QED BY <1>6, <1>7

-----------------------------------------------------------------------------
(* What a step does to the trail at most.                                  *)
TrailKept == \A r \in Trail : r \in Trail' \/ [r EXCEPT !.id = 0] \in Trail'

(* The part of the invariant that is about the contents.                   *)
ContentsTyped ==
    /\ layer \in [Ids -> Layers \cup {"unborn", "gone"}]
    /\ used \in [Ids -> Nat]
    /\ decay \in [Ids -> Decays]
    /\ tagged \in SUBSET (Ids \X Tags)
    /\ tags \in SUBSET Tags
    /\ tree \in SUBSET (Tags \X Tags)
    /\ lineage \in [Ids -> SUBSET Ids]
    /\ touched \in [Ids -> Nat]
    /\ given \in SUBSET (Ids \X Tags)

ControlTyped ==
    /\ step \in Steps \cup {"idle"}
    /\ mode \in {"ready", "asking", "deciding", "falling"}
    /\ left \in SUBSET Ids
    /\ cut \in SUBSET Tags

\* The statements of open(), and a crash, leave the trail as it is.
LEMMA SchemaKept ==
    ASSUME TypeOK, StageInv, AuditTrail, OpenStep \/ SchemaCrash, UNCHANGED layer
    PROVE  SchemaTypeOK' /\ StageInv' /\ AuditTrail' /\ TrailKept
<1> USE MemoryAssumption
<1> USE DEF StageInv, TypeOK, SchemaTypeOK, Stages, Current
<1>1. SchemaTypeOK' /\ StageInv' /\ Trail' = Trail
  <2>1. CASE OpenDb
    BY <2>1 DEF OpenDb, Migration, Trail
  <2>2. CASE ApplySchema
    BY <2>2 DEF ApplySchema, Trail, Audits
  <2>3. CASE CreateCopy
    BY <2>3 DEF CreateCopy, Trail, Audits
  <2>4. CASE CopyExists
    BY <2>4 DEF CopyExists, AfterError, Trail
  <2>5. CASE FillCopy
    BY <2>5 DEF FillCopy, Trail, Audits
  <2>6. CASE DropOld
    BY <2>6 DEF DropOld, Trail, Audits
  <2>7. CASE RenameCopy
    BY <2>7 DEF RenameCopy, Trail, Audits
  <2>8. CASE AddSummaries
    BY <2>8 DEF AddSummaries, Trail, Audits
  <2>9. CASE Stamp
    BY <2>9 DEF Stamp, Stamped, Migration, Trail
  <2>10. CASE StatementFails
    BY <2>10 DEF StatementFails, AfterError, Trail
  <2>11. CASE SchemaCrash
    BY <2>11 DEF SchemaCrash, Trail
  <2> QED BY <2>1, <2>2, <2>3, <2>4, <2>5, <2>6, <2>7, <2>8, <2>9, <2>10, <2>11 DEF OpenStep
<1>2. AuditTrail'
  BY <1>1 DEF AuditTrail, Living
<1>3. TrailKept
  BY <1>1 DEF TrailKept
<1> QED BY <1>1, <1>2, <1>3

\* A transaction that writes one audit row and deletes nothing.
LEMMA NoteKept ==
    ASSUME TypeOK, AuditTrail, NEW op \in Operations, NEW m \in Ids, Note(op, m),
           layer'[m] \in Layers, layer[m] \in Layers \/ op = "create",
           \A n \in Ids \ {m} : layer'[n] = layer[n]
    PROVE  SchemaTypeOK' /\ StageInv' /\ AuditTrail' /\ TrailKept
<1> DEFINE row == [op |-> op, id |-> m, of |-> m]
<1>1. {row} \in SUBSET Row /\ {} \in SUBSET Living
  BY DEF Row
<1>2. Record({row}, {}) /\ Kept /\ stage = "open"
  BY DEF Note, CanAudit
<1>3. "gone" \notin Layers
  BY DEF Layers
<1>4. \A n \in Ids \ {} :
        /\ layer'[n] = "gone" => layer[n] = "gone"
        /\ layer[n] \in Layers => layer'[n] \in Layers
        /\ layer'[n] \in Layers /\ layer[n] \notin Layers =>
              [op |-> "create", id |-> n, of |-> n] \in {row}
  BY <1>3
<1>5. AuditTrail' /\ TrailKept
  BY ONLY <1>1, <1>2, <1>4, AuditKept, TypeOK, AuditTrail, layer'[m] \in Layers DEF TrailKept
<1>6. SchemaTypeOK'
  <2>1. {} \in SUBSET Ids
    OBVIOUS
  <2>2. rows' \in [Audits -> SUBSET Row]
    BY ONLY <1>1, <1>2, <2>1, RecordTrail, TypeOK
  <2> QED BY <1>2, <2>2 DEF Kept, TypeOK, SchemaTypeOK
<1>7. StageInv'
  BY <1>2 DEF StageInv, Kept
<1> QED BY <1>5, <1>6, <1>7

\* delete() and prune().
LEMMA ForgetKept ==
    ASSUME TypeOK, AuditTrail, NoDanglingEdges, NEW op \in {"delete", "prune"},
           NEW gone \in SUBSET Living, Forget(op, gone)
    PROVE  /\ SchemaTypeOK' /\ StageInv' /\ AuditTrail' /\ TrailKept
           /\ ContentsTyped' /\ NoDanglingEdges'
           /\ \A m \in Ids : layer'[m] \in {layer[m], "gone"}
           /\ tagged' \subseteq tagged /\ UNCHANGED <<tags, tree>>
<1> DEFINE new == {[op |-> op, id |-> m, of |-> m] : m \in gone}
<1>1. gone \in SUBSET Ids
  BY DEF Living
<1>2. new \in SUBSET Row
  BY <1>1 DEF Row, Operations
<1>3. Record(new, gone) /\ Kept /\ stage = "open"
  BY DEF Forget, CanAudit
<1>4. layer' = [m \in Ids |-> IF m \in gone THEN "gone" ELSE layer[m]]
  BY DEF Forget
<1>5. AuditTrail' /\ TrailKept
  <2>1. \A m \in gone : /\ layer'[m] = "gone"
                        /\ \E r \in new : r.op \in {"delete", "prune", "merge"} /\ r.of = m
    <3>1. TAKE m \in gone
    <3>2. [op |-> op, id |-> m, of |-> m] \in new
      OBVIOUS
    <3> QED BY <1>1, <1>4, <3>2
  <2>2. \A m \in Ids \ gone :
           /\ layer'[m] = "gone" => layer[m] = "gone"
           /\ layer[m] \in Layers => layer'[m] \in Layers
           /\ layer'[m] \in Layers /\ layer[m] \notin Layers =>
                 [op |-> "create", id |-> m, of |-> m] \in new
    BY <1>4
  <2>3. \A r \in new : r.id \in Ids \ gone => layer'[r.id] \in Layers
    OBVIOUS
  <2> QED BY ONLY <1>2, <1>3, <2>1, <2>2, <2>3, AuditKept, TypeOK, AuditTrail DEF TrailKept
<1>6. SchemaTypeOK'
  BY <1>1, <1>2, <1>3, RecordTrail DEF Kept, TypeOK, SchemaTypeOK
<1>7. StageInv'
  BY <1>3 DEF StageInv, Kept
<1>8. ContentsTyped'
  BY <1>1, <1>4 DEF ContentsTyped, TypeOK, Forget, EdgesWithout, Decays, ghosts
<1>9. NoDanglingEdges'
  BY <1>1, <1>4 DEF NoDanglingEdges, Living, TypeOK, Forget, EdgesWithout
<1>10. \A m \in Ids : layer'[m] \in {layer[m], "gone"}
  BY <1>4
<1>11. tagged' \subseteq tagged /\ UNCHANGED <<tags, tree>>
  BY DEF Forget, EdgesWithout
<1> QED BY <1>5, <1>6, <1>7, <1>8, <1>9, <1>10, <1>11

\* merge(): the edges of the source end at the target, which lives.
LEMMA MergeKept ==
    ASSUME TypeOK, AuditTrail, NoDanglingEdges, NEW s \in Ids, NEW t \in Ids, Merge(s, t)
    PROVE  /\ SchemaTypeOK' /\ StageInv' /\ AuditTrail' /\ TrailKept
           /\ ContentsTyped' /\ NoDanglingEdges'
           /\ \A m \in Ids : layer'[m] \in {layer[m], "gone"}
<1> DEFINE new == {[op |-> "merge", id |-> t, of |-> s]}
<1>1. new \in SUBSET Row /\ {s} \in SUBSET Ids /\ {s} \in SUBSET Living /\ t \in Living /\ s # t
  BY DEF Row, Operations, Merge
<1>2. Record(new, {s}) /\ Kept /\ stage = "open"
  BY DEF Merge, CanAudit
<1>3. layer' = [layer EXCEPT ![s] = "gone"]
  BY DEF Merge
<1>4. AuditTrail' /\ TrailKept
  <2>1. \A m \in {s} : /\ layer'[m] = "gone"
                       /\ \E r \in new : r.op \in {"delete", "prune", "merge"} /\ r.of = m
    BY <1>3 DEF TypeOK
  <2>2. \A m \in Ids \ {s} :
           /\ layer'[m] = "gone" => layer[m] = "gone"
           /\ layer[m] \in Layers => layer'[m] \in Layers
           /\ layer'[m] \in Layers /\ layer[m] \notin Layers =>
                 [op |-> "create", id |-> m, of |-> m] \in new
    BY <1>3 DEF TypeOK
  <2>3. \A r \in new : r.id \in Ids \ {s} => layer'[r.id] \in Layers
    BY <1>1, <1>3 DEF TypeOK, Living
  <2> QED BY ONLY <1>1, <1>2, <2>1, <2>2, <2>3, AuditKept, TypeOK, AuditTrail DEF TrailKept
<1>5. SchemaTypeOK'
  <2>1. rows' \in [Audits -> SUBSET Row]
    BY ONLY <1>1, <1>2, RecordTrail, TypeOK
  <2> QED BY <1>2, <2>1 DEF Kept, TypeOK, SchemaTypeOK
<1>6. StageInv'
  BY <1>2 DEF StageInv, Kept
<1>7. ContentsTyped'
  <2>1. MovedEdges(s, t) \in SUBSET (Ids \X Tags)
    BY DEF MovedEdges, TypeOK
  <2>2. MergedUses(s, t) \in Nat
    BY DEF MergedUses, TypeOK
  <2> QED BY <2>1, <2>2 DEF ContentsTyped, TypeOK, Merge, Decays
<1>8. NoDanglingEdges'
  <2>1. \A m \in Living \ {s} : m \in Living'
    BY <1>3 DEF Living, TypeOK
  <2>2. UNCHANGED <<tags, tree>>
    BY DEF Merge
  <2>3. \A e \in tagged' : e[1] \in Living' /\ e[2] \in tags
    <3>1. TAKE e \in tagged'
    <3>2. PICK d \in tagged : e = <<IF d[1] = s THEN t ELSE d[1], d[2]>>
      BY DEF Merge, MovedEdges
    <3>3. d[1] \in Living /\ d[2] \in tags
      BY DEF NoDanglingEdges
    <3> QED BY <1>1, <2>1, <3>2, <3>3
  <2> QED BY <2>2, <2>3 DEF NoDanglingEdges
<1>9. \A m \in Ids : layer'[m] \in {layer[m], "gone"}
  BY <1>3 DEF TypeOK
<1> QED BY <1>4, <1>5, <1>6, <1>7, <1>8, <1>9

\* write().
LEMMA CreateKept ==
    ASSUME TypeOK, AuditTrail, NoDanglingEdges, NEW l \in Layers, NEW T \in SUBSET Tags,
           Create(l, T)
    PROVE  /\ SchemaTypeOK' /\ StageInv' /\ AuditTrail' /\ TrailKept
           /\ ContentsTyped' /\ NoDanglingEdges'
           /\ \A n \in Ids : layer[n] # "unborn" => layer'[n] = layer[n]
           /\ UNCHANGED used
<1>1. PICK m \in Ids : /\ layer[m] = "unborn"
                       /\ Note("create", m)
                       /\ layer' = [layer EXCEPT ![m] = l]
                       /\ tags' = tags \cup T
                       /\ tagged' = tagged \cup ({m} \X T)
                       /\ given' = given \cup ({m} \X T)
                       /\ UNCHANGED <<used, decay, tree, lineage, touched>>
  BY DEF Create
<1>2. /\ layer'[m] = l
      /\ \A n \in Ids \ {m} : layer'[n] = layer[n]
  BY <1>1 DEF TypeOK
<1>3. SchemaTypeOK' /\ StageInv' /\ AuditTrail' /\ TrailKept
  BY <1>1, <1>2, NoteKept, "create" \in Operations DEF Operations
<1>4. ContentsTyped'
  BY <1>1 DEF ContentsTyped, TypeOK
<1>5. NoDanglingEdges'
  <2>1. \A n \in Living : n \in Living'
    BY <1>1, <1>2 DEF Living
  <2>2. m \in Living'
    BY <1>2 DEF Living
  <2> QED BY <1>1, <2>1, <2>2 DEF NoDanglingEdges
<1> QED BY <1>1, <1>2, <1>3, <1>4, <1>5

\* promote().
LEMMA PromoteKept ==
    ASSUME TypeOK, AuditTrail, NoDanglingEdges, NEW m \in Ids, Promote(m)
    PROVE  /\ SchemaTypeOK' /\ StageInv' /\ AuditTrail' /\ TrailKept
           /\ ContentsTyped' /\ NoDanglingEdges'
           /\ \A n \in Ids \ {m} : layer'[n] = layer[n]
<1>1. /\ layer[m] \in {"short", "short_skill"}
      /\ Note("promote", m)
      /\ layer' = [layer EXCEPT ![m] = Higher[@]]
      /\ UNCHANGED <<used, decay, tagged, tags, tree, ghosts>>
  BY DEF Promote, Higher
<1>2. layer'[m] \in Layers /\ layer[m] \in Layers
  BY <1>1 DEF TypeOK, Higher, Layers
<1>3. \A n \in Ids \ {m} : layer'[n] = layer[n]
  BY <1>1 DEF TypeOK
<1>4. SchemaTypeOK' /\ StageInv' /\ AuditTrail' /\ TrailKept
  BY <1>1, <1>2, <1>3, NoteKept, "promote" \in Operations DEF Operations
<1>5. ContentsTyped'
  BY <1>1, <1>2, <1>3 DEF ContentsTyped, TypeOK, ghosts
<1>6. NoDanglingEdges'
  BY <1>1, <1>2, <1>3 DEF NoDanglingEdges, Living
<1> QED BY <1>3, <1>4, <1>5, <1>6

-----------------------------------------------------------------------------
(* Who rises has been used often enough; what a step keeps all in all.     *)
Rises ==
    \A m \in Ids : layer[m] \in DOMAIN Higher /\ layer'[m] \in {"long", "long_skill"}
                      => used[m] >= Threshold

Counted == tidyings \in Nat /\ touches \in Nat

ControlInv == ControlTyped /\ ModeInv /\ CandidatesEarned /\ LeftLives

DataKept ==
    /\ SchemaTypeOK' /\ ContentsTyped' /\ StageInv' /\ AuditTrail' /\ NoDanglingEdges'
    /\ TrailKept /\ Rises

StepKept == MInv' /\ TrailKept /\ Rises

\* The parts of the invariant.
LEMMA Parts ==
    /\ MInv <=> /\ SchemaTypeOK /\ ContentsTyped /\ ControlInv /\ Counted
                /\ StageInv /\ AuditTrail /\ NoDanglingEdges
    /\ MInv' <=> /\ SchemaTypeOK' /\ ContentsTyped' /\ ControlInv' /\ Counted'
                 /\ StageInv' /\ AuditTrail' /\ NoDanglingEdges'
BY DEF MInv, TypeOK, ContentsTyped, ControlTyped, Counted, ControlInv

\* A step that leaves the data alone.
LEMMA DataUnchanged ==
    ASSUME MInv, UNCHANGED <<schemaVars, contents, ghosts>>
    PROVE  DataKept
<1>1. UNCHANGED <<version, tables, rows, stage, faults, layer, used, decay, tagged, tags,
                  tree, lineage, touched, given>>
  BY DEF schemaVars, contents, ghosts
<1>2. Trail' = Trail
  BY <1>1 DEF Trail
<1>3. SchemaTypeOK' /\ StageInv'
  BY <1>1 DEF MInv, TypeOK, SchemaTypeOK, StageInv
<1>4. ContentsTyped' /\ NoDanglingEdges'
  BY <1>1 DEF MInv, TypeOK, ContentsTyped, NoDanglingEdges, Living
<1>5. AuditTrail'
  BY <1>1, <1>2 DEF MInv, AuditTrail, Living
<1>6. TrailKept /\ Rises
  BY <1>1, <1>2 DEF TrailKept, Rises, Higher
<1> QED BY <1>3, <1>4, <1>5, <1>6 DEF DataKept

\* The housekeeping goes on to another step.
LEMMA GoToKept ==
    ASSUME NEW s \in Steps \cup {"idle"}, GoTo(s), UNCHANGED used
    PROVE  ControlInv'
<1>1. step' = s /\ mode' = "ready" /\ cut' = {}
  BY DEF GoTo
<1>2. left' \in SUBSET Ids
  BY DEF GoTo, Promotable, In
<1>3. s \in {"promote", "promote_skill"} => \A m \in left' : used[m] >= Threshold
  BY DEF GoTo, Promotable
<1>4. ControlTyped'
  BY <1>1, <1>2 DEF ControlTyped
<1>5. ModeInv'
  BY <1>1 DEF ModeInv
<1>6. CandidatesEarned' /\ LeftLives'
  BY <1>1, <1>3 DEF CandidatesEarned, LeftLives, GoTo
<1> QED BY <1>4, <1>5, <1>6 DEF ControlInv

\* The control stays as it is while the uses of the candidates do not fall and
\* no edge is added to a tag that is being deleted.
LEMMA ControlUnchanged ==
    ASSUME ControlInv, UNCHANGED control, cut # {} => tagged' \subseteq tagged /\ UNCHANGED tree,
           step \in {"promote", "promote_skill"} => \A m \in left : used'[m] >= used[m],
           step = "contradict" => UNCHANGED layer,
           used \in [Ids -> Nat], used' \in [Ids -> Nat]
    PROVE  ControlInv'
<1>1. UNCHANGED <<step, mode, left, cut>>
  BY DEF control
<1>2. ControlTyped'
  BY <1>1 DEF ControlInv, ControlTyped
<1>3. ModeInv'
  BY <1>1 DEF ControlInv, ModeInv
<1>4. CandidatesEarned'
  BY <1>1, MemoryAssumption DEF ControlInv, CandidatesEarned, ControlTyped
<1>5. LeftLives'
  BY <1>1 DEF ControlInv, LeftLives, Living
<1> QED BY <1>2, <1>3, <1>4, <1>5 DEF ControlInv

\* The data after a deletion, a merge, a creation and a promotion.
LEMMA DataDeleted ==
    ASSUME MInv, NEW op \in {"delete", "prune"}, NEW gone \in SUBSET Living, Forget(op, gone)
    PROVE  DataKept /\ tagged' \subseteq tagged /\ UNCHANGED <<tags, tree>>
<1>1. TypeOK /\ AuditTrail /\ NoDanglingEdges
  BY DEF MInv
<1>2. \A m \in Ids : layer'[m] \in {layer[m], "gone"}
  BY <1>1, ForgetKept
<1>3. Rises
  BY <1>2 DEF Rises, Higher
<1> QED BY <1>1, <1>3, ForgetKept DEF DataKept

\* A merge keeps the edges and the trail.
LEMMA DataMerged ==
    ASSUME MInv, NEW s \in Ids, NEW t \in Ids, Merge(s, t)
    PROVE  DataKept
<1>1. TypeOK /\ AuditTrail /\ NoDanglingEdges
  BY DEF MInv
<1>2. \A m \in Ids : layer'[m] \in {layer[m], "gone"}
  BY <1>1, MergeKept
<1>3. Rises
  BY <1>2 DEF Rises, Higher
<1> QED BY <1>1, <1>3, MergeKept DEF DataKept

\* A write keeps the edges and the trail.
LEMMA DataCreated ==
    ASSUME MInv, NEW l \in Layers, NEW T \in SUBSET Tags, Create(l, T)
    PROVE  DataKept /\ UNCHANGED used
<1>1. TypeOK /\ AuditTrail /\ NoDanglingEdges
  BY DEF MInv
<1>2. \A n \in Ids : layer[n] # "unborn" => layer'[n] = layer[n]
  BY <1>1, CreateKept
<1>3. Rises
  BY <1>2 DEF Rises, Higher
<1> QED BY <1>1, <1>3, CreateKept DEF DataKept

\* A promotion of a memory used often enough keeps all three.
LEMMA DataPromoted ==
    ASSUME MInv, NEW m \in Ids, used[m] >= Threshold, Promote(m)
    PROVE  DataKept
<1>1. TypeOK /\ AuditTrail /\ NoDanglingEdges
  BY DEF MInv
<1>2. \A n \in Ids \ {m} : layer'[n] = layer[n]
  BY <1>1, PromoteKept
<1>3. Rises
  BY <1>2 DEF Rises, Higher
<1> QED BY <1>1, <1>3, PromoteKept DEF DataKept

\* update(), which changes the trail alone.
LEMMA DataUpdated ==
    ASSUME MInv, NEW m \in Ids, Update(m), UNCHANGED <<contents, ghosts>>
    PROVE  DataKept
<1>1. TypeOK /\ AuditTrail /\ NoDanglingEdges
  BY DEF MInv
<1>2. Note("update", m) /\ layer[m] \in Layers /\ layer' = layer
  BY DEF Update, Living, contents
<1>3. SchemaTypeOK' /\ StageInv' /\ AuditTrail' /\ TrailKept
  BY <1>1, <1>2, NoteKept, "update" \in Operations DEF Operations
<1>4. ContentsTyped' /\ NoDanglingEdges' /\ Rises
  BY <1>1, <1>2 DEF ContentsTyped, TypeOK, NoDanglingEdges, Living, Rises, Higher, contents, ghosts
<1> QED BY <1>3, <1>4 DEF DataKept

-----------------------------------------------------------------------------
\* The steps of open(), of the writers, of the recalls, and crashes.
LEMMA OutsideSteps ==
    ASSUME MInv,
           \/ Open \/ Crash \/ Write \/ StartTidying
           \/ \E m \in Ids : Touch(m)
           \/ \E t, u \in Tags : RelateTags(t, u)
    PROVE  StepKept
<1> USE Parts, MemoryAssumption
<1>0. TypeOK /\ used \in [Ids -> Nat] /\ (LockFree => cut = {})
  BY DEF MInv, TypeOK, ModeInv, LockFree
<1>1. CASE Open \/ Crash
  <2>1. UNCHANGED <<layer, used, decay, tagged, tags, tree, lineage, touched, given>>
    BY <1>1 DEF Open, Crash, contents, ghosts
  <2>2. SchemaTypeOK' /\ StageInv' /\ AuditTrail' /\ TrailKept
    BY <1>1, <2>1, SchemaKept DEF Open, Crash, MInv
  <2>3. ContentsTyped' /\ NoDanglingEdges' /\ Rises
    BY <2>1 DEF ContentsTyped, NoDanglingEdges, Living, Rises, Higher
  <2>4. Counted'
    BY <1>1 DEF Open, Crash, Counted, counters
  <2>5. ControlInv'
    <3>1. CASE Open
      BY <3>1, <2>1, <1>0, ControlUnchanged DEF Open, ControlTyped, ControlInv
    <3>2. CASE Crash
      BY <3>2 DEF Crash, ControlInv, ControlTyped, ModeInv, CandidatesEarned, LeftLives
    <3> QED BY <1>1, <3>1, <3>2
  <2> QED BY <2>2, <2>3, <2>4, <2>5 DEF StepKept
<1>2. CASE Write
  <2>1. PICK l \in Written, T \in SUBSET Tags : Create(l, T)
    BY <1>2 DEF Write
  <2>2. DataKept /\ UNCHANGED used
    BY <2>1, DataCreated
  <2>3. ControlInv'
    BY <1>0, <1>2, <2>2, ControlUnchanged DEF Write, LockFree, ControlInv, ControlTyped
  <2>4. Counted'
    BY <1>2 DEF Write, Counted, counters
  <2> QED BY <2>2, <2>3, <2>4 DEF DataKept, StepKept
<1>3. CASE StartTidying
  <2>1. UNCHANGED <<version, tables, rows, stage, faults, layer, used, tagged, tags, tree,
                    lineage, touched, given, touches>>
    BY <1>3 DEF StartTidying, schemaVars, ghosts
  <2>2. decay' \in [Ids -> Decays] /\ tidyings' \in Nat
    BY <1>3 DEF StartTidying, Counted
  <2>3. SchemaTypeOK' /\ StageInv' /\ Trail' = Trail
    BY <2>1 DEF SchemaTypeOK, StageInv, Trail
  <2>4. ContentsTyped' /\ NoDanglingEdges' /\ Rises
    BY <2>1, <2>2 DEF ContentsTyped, NoDanglingEdges, Living, Rises, Higher
  <2>5. AuditTrail' /\ TrailKept
    BY <2>1, <2>3 DEF AuditTrail, Living, TrailKept
  <2>6. /\ step' = "promote" /\ mode' = "ready" /\ cut' = {}
        /\ left' = Promotable("short")
    BY <1>3 DEF StartTidying
  <2>7. ControlInv'
    BY <2>1, <2>6 DEF ControlInv, ControlTyped, ModeInv, CandidatesEarned, LeftLives, Promotable, In, Steps
  <2>8. Counted'
    BY <2>1, <2>2 DEF Counted
  <2> QED BY <2>3, <2>4, <2>5, <2>7, <2>8 DEF StepKept
<1>4. ASSUME NEW m \in Ids, Touch(m) PROVE StepKept
  <2>1. UNCHANGED <<version, tables, rows, stage, faults, layer, tagged, tags, tree,
                    lineage, given, tidyings>>
    BY <1>4 DEF Touch, schemaVars
  <2>2. /\ used' = [used EXCEPT ![m] = @ + Selected]
        /\ touched' = [touched EXCEPT ![m] = @ + 1]
        /\ decay' = [decay EXCEPT ![m] = "fresh"]
        /\ touches' = touches + 1
    BY <1>4 DEF Touch
  <2>3. SchemaTypeOK' /\ StageInv' /\ Trail' = Trail
    BY <2>1 DEF SchemaTypeOK, StageInv, Trail
  <2>4. ContentsTyped' /\ NoDanglingEdges' /\ Rises
    BY <2>1, <2>2 DEF ContentsTyped, NoDanglingEdges, Living, Rises, Higher, Decays
  <2>5. AuditTrail' /\ TrailKept
    BY <2>1, <2>3 DEF AuditTrail, Living, TrailKept
  <2>6. used' \in [Ids -> Nat] /\ \A n \in Ids : used'[n] >= used[n]
    BY <1>0, <2>2
  <2>7. ControlInv'
    BY <1>0, <1>4, <2>1, <2>6, ControlUnchanged DEF Touch, ControlInv, ControlTyped
  <2>8. Counted'
    BY <2>1, <2>2 DEF Counted
  <2> QED BY <2>3, <2>4, <2>5, <2>7, <2>8 DEF StepKept
<1>5. ASSUME NEW t \in Tags, NEW u \in Tags, RelateTags(t, u) PROVE StepKept
  <2>1. UNCHANGED <<version, tables, rows, stage, faults, layer, used, decay, tagged, tags,
                    lineage, touched, given, tidyings, touches>>
    BY <1>5 DEF RelateTags, schemaVars, ghosts, counters
  <2>2. tree' = tree \cup {<<t, u>>} /\ t \in tags /\ u \in tags
    BY <1>5 DEF RelateTags
  <2>3. SchemaTypeOK' /\ StageInv' /\ Trail' = Trail
    BY <2>1 DEF SchemaTypeOK, StageInv, Trail
  <2>4. ContentsTyped' /\ NoDanglingEdges' /\ Rises
    BY <2>1, <2>2 DEF ContentsTyped, NoDanglingEdges, Living, Rises, Higher
  <2>5. AuditTrail' /\ TrailKept
    BY <2>1, <2>3 DEF AuditTrail, Living, TrailKept
  <2>6. ControlInv'
    BY <1>0, <1>5, <2>1, ControlUnchanged DEF RelateTags, ControlInv, ControlTyped
  <2>7. Counted'
    BY <2>1 DEF Counted
  <2> QED BY <2>3, <2>4, <2>5, <2>6, <2>7 DEF StepKept
<1> QED BY <1>1, <1>2, <1>3, <1>4, <1>5

\* The steps of the housekeeping that change no memory.
LEMMA QuietSteps ==
    ASSUME MInv, \/ Ask \/ Skip \/ Answer \/ ModelFails \/ PromotionThrows \/ FallBackEnds
                 \/ EndReply
    PROVE  StepKept
<1> USE Parts
<1>1. UNCHANGED <<schemaVars, contents, ghosts, counters>>
  BY DEF Ask, Skip, Answer, ModelFails, PromotionThrows, FallBackEnds, EndReply
<1>2. /\ DataKept /\ Counted' /\ UNCHANGED <<used, tagged, tree>>
      /\ Living' = Living
  BY <1>1, DataUnchanged DEF counters, Counted, contents, Living
<1>3. ControlInv'
  <2> USE DEF ControlInv
  <2>1. CASE Ask \/ Answer \/ PromotionThrows
    <3>1. UNCHANGED <<step, left, cut>> /\ mode' \in {"asking", "deciding", "falling"}
      BY <2>1 DEF Ask, Answer, PromotionThrows, FallBack
    <3>2. cut = {} \/ mode = "deciding"
      BY DEF ModeInv
    <3>3. cut # {} => step = "cleanup" /\ ~Ask /\ ~Answer /\ ~PromotionThrows
      BY <3>2 DEF ModeInv, Ask, Answer, PromotionThrows
    <3>4. step' \in DOMAIN After \/ mode' = "falling"
      BY <2>1, <3>1 DEF Ask, Answer, PromotionThrows, FallBack, MayAsk, ModeInv, After
    <3>5. mode' = "falling" => step' \in {"promote", "promote_skill"}
      BY <2>1, <3>1 DEF Ask, Answer, PromotionThrows
    <3> QED BY <1>2, <2>1, <3>1, <3>3, <3>4, <3>5 DEF ControlTyped, ModeInv, CandidatesEarned, LeftLives
  <2>2. CASE Skip
    <3>1. PICK s \in Steps : GoTo(s)
      BY <2>2 DEF Skip, After, Steps
    <3> QED BY <1>2, <3>1, GoToKept
  <2>3. CASE ModelFails
    <3>1. step \in DOMAIN After /\ mode = "asking" /\ cut = {}
      BY <2>3 DEF ModelFails, ModeInv
    <3>2. CASE step \in {"promote", "promote_skill"}
      <4>1. FallBack
        BY <2>3, <3>2 DEF ModelFails
      <4> QED BY <1>2, <3>1, <3>2, <4>1 DEF FallBack, ControlTyped, ModeInv, CandidatesEarned, LeftLives
    <3>3. CASE step \notin {"promote", "promote_skill"}
      <4>1. step # "prune" /\ step \in {"dedup", "contradict", "skills", "cleanup"}
        BY <3>1, <3>3 DEF After
      <4>2. \E s \in Steps \cup {"idle"} : GoTo(s)
        BY <2>3, <4>1 DEF ModelFails, Steps
      <4> QED BY <1>2, <4>2, GoToKept
    <3> QED BY <3>2, <3>3
  <2>4. CASE FallBackEnds \/ EndReply
    <3>1. step \in DOMAIN After
      BY <2>4 DEF FallBackEnds, EndReply, ModeInv, After
    <3>2. GoTo(After[step]) /\ After[step] \in Steps
      BY <2>4, <3>1 DEF FallBackEnds, EndReply, After, Steps
    <3> QED BY <1>2, <3>2, GoToKept
  <2> QED BY <2>1, <2>2, <2>3, <2>4
<1> QED BY <1>2, <1>3 DEF DataKept, StepKept

\* A memory that is put forward rises.
LEMMA PromotionSteps ==
    ASSUME MInv, (\E m \in PromotionLines : DecidePromotion(m)) \/ FallBackPromotes
    PROVE  StepKept
<1> USE Parts
<1>0. /\ used \in [Ids -> Nat] /\ left \in SUBSET Ids /\ ControlInv
      /\ step \in {"promote", "promote_skill"} => \A m \in left : used[m] >= Threshold
  BY DEF MInv, TypeOK, CandidatesEarned
<1>1. ASSUME NEW m \in Ids, DecidePromotion(m) PROVE StepKept
  <2>1. /\ step \in {"promote", "promote_skill"} /\ m \in left /\ Promote(m)
        /\ UNCHANGED <<control, counters, used, tagged, tree>>
    BY <1>1 DEF DecidePromotion, Eligible, Promote
  <2>2. DataKept
    BY <1>0, <2>1, DataPromoted
  <2>3. ControlInv' /\ Counted'
    BY <1>0, <2>1, ControlUnchanged, MemoryAssumption DEF Counted, counters
  <2> QED BY <2>2, <2>3 DEF DataKept, StepKept
<1>2. CASE FallBackPromotes
  <2>1. PICK m \in left :
        /\ mode = "falling" /\ left # {} /\ UNCHANGED counters
        /\ \/ Promote(m) /\ left' = left \ {m} /\ UNCHANGED <<step, mode, cut>>
           \/ GoTo("skills") /\ UNCHANGED <<schemaVars, contents, ghosts>>
    BY <1>2 DEF FallBackPromotes
  <2>2. step \in {"promote", "promote_skill"} /\ cut = {}
    BY <2>1 DEF ModeInv, ControlInv
  <2>3. m \in left /\ m \in Ids
    BY <1>0
  <2>4. CASE Promote(m) /\ left' = left \ {m} /\ UNCHANGED <<step, mode, cut>>
    <3>1. DataKept /\ UNCHANGED used
      BY <1>0, <2>2, <2>3, <2>4, DataPromoted DEF Promote
    <3>2. ControlInv'
      BY <1>0, <2>2, <2>4, <3>1 DEF ControlInv, ControlTyped, ModeInv, CandidatesEarned, LeftLives
    <3> QED BY <2>1, <3>1, <3>2 DEF DataKept, StepKept, Counted, counters
  <2>5. CASE GoTo("skills") /\ UNCHANGED <<schemaVars, contents, ghosts>>
    <3>1. DataKept /\ UNCHANGED used
      BY <2>5, DataUnchanged DEF contents
    <3>2. ControlInv'
      BY <2>5, <3>1, GoToKept DEF Steps
    <3> QED BY <2>1, <3>1, <3>2 DEF DataKept, StepKept, Counted, counters
  <2> QED BY <2>1, <2>4, <2>5
<1> QED BY <1>1, <1>2 DEF PromotionLines

\* Merges, contradictions and skills.
LEMMA MemorySteps ==
    ASSUME MInv,
           \/ \E d \in DuplicateLines : DecideMerge(d)
           \/ \E d \in ContradictionLines : DecideContradiction(d)
           \/ RemoveContradicted
           \/ \E d \in SkillLines : DecideSkill(d)
    PROVE  StepKept
<1> USE Parts
<1>0. used \in [Ids -> Nat] /\ left \in SUBSET Ids /\ ControlInv
  BY DEF MInv, TypeOK
<1>1. ASSUME DataKept, UNCHANGED control, UNCHANGED counters, cut = {},
             step \notin {"promote", "promote_skill", "contradict"}
      PROVE  StepKept
  <2>1. ControlInv'
    BY <1>0, <1>1, ControlUnchanged DEF DataKept, ContentsTyped
  <2> QED BY <1>1, <2>1 DEF DataKept, StepKept, Counted, counters
<1>2. ASSUME NEW d \in DuplicateLines, DecideMerge(d) PROVE StepKept
  <2>1. d.merge \in Ids /\ d.keep \in Ids
    BY DEF DuplicateLines
  <2>2. /\ step = "dedup" /\ cut = {} /\ Merge(d.merge, d.keep)
        /\ UNCHANGED control /\ UNCHANGED counters
    BY <1>0, <1>2 DEF DecideMerge, Deciding, ControlInv, ModeInv
  <2>3. DataKept
    BY <2>1, <2>2, DataMerged
  <2> QED BY <1>1, <2>2, <2>3
<1>3. ASSUME NEW d \in ContradictionLines, DecideContradiction(d) PROVE StepKept
  <2>1. d.keep \in Ids /\ d.remove \in Ids
    BY DEF ContradictionLines
  <2>2. /\ step = "contradict" /\ cut = {} /\ Update(d.keep)
        /\ left' = {d.remove} \cap Living
        /\ UNCHANGED <<contents, step, mode, cut, ghosts, counters>>
    BY <1>0, <1>3 DEF DecideContradiction, Deciding, ControlInv, ModeInv
  <2>3. DataKept
    BY <2>1, <2>2, DataUpdated
  <2>4. Living' = Living
    BY <2>2 DEF Living, contents
  <2>5. left' \in SUBSET Ids /\ left' \subseteq Living'
    BY <2>1, <2>2, <2>4
  <2>6. UNCHANGED <<step, mode, cut, tagged, tree>>
    BY <2>2 DEF contents
  <2>7. ControlInv'
    BY <1>0, <2>2, <2>5, <2>6 DEF ControlInv, ControlTyped, ModeInv, CandidatesEarned, LeftLives
  <2> QED BY <2>2, <2>3, <2>7 DEF DataKept, StepKept, Counted, counters
<1>4. CASE RemoveContradicted
  <2>1. /\ step = "contradict" /\ cut = {} /\ Forget("delete", left)
        /\ left' = {} /\ UNCHANGED <<step, mode, cut, counters>>
    BY <1>0, <1>4 DEF RemoveContradicted, Deciding, ControlInv, ModeInv
  <2>2. left \in SUBSET Living
    BY <2>1 DEF MInv, LeftLives
  <2>3. DataKept
    BY <2>1, <2>2, DataDeleted
  <2>4. ControlInv'
    BY <1>0, <2>1 DEF ControlInv, ControlTyped, ModeInv, CandidatesEarned, LeftLives
  <2> QED BY <2>1, <2>3, <2>4 DEF DataKept, StepKept, Counted, counters
<1>5. ASSUME NEW d \in SkillLines, DecideSkill(d) PROVE StepKept
  <2>1. /\ step = "skills" /\ cut = {} /\ UNCHANGED control /\ UNCHANGED counters
        /\ \/ d.kind = "new_skill" /\ Create("short_skill", d.tags)
           \/ d.kind = "update" /\ Update(d.id) /\ UNCHANGED <<contents, ghosts>>
           \/ d.kind = "obsolete" /\ d.id \in Living /\ Forget("delete", {d.id})
    BY <1>0, <1>5 DEF DecideSkill, Deciding, ControlInv, ModeInv
  <2>2. CASE d.kind = "new_skill" /\ Create("short_skill", d.tags)
    <3>1. d.tags \in SUBSET Tags /\ "short_skill" \in Layers
      BY <2>2 DEF SkillLines, Layers
    <3>2. DataKept
      BY <2>2, <3>1, DataCreated
    <3> QED BY <1>1, <2>1, <3>2
  <2>3. CASE d.kind = "update" /\ Update(d.id) /\ UNCHANGED <<contents, ghosts>>
    <3>1. d.id \in Ids
      BY <2>3 DEF Update, Living
    <3>2. DataKept
      BY <2>3, <3>1, DataUpdated
    <3> QED BY <1>1, <2>1, <3>2
  <2>4. CASE d.kind = "obsolete" /\ d.id \in Living /\ Forget("delete", {d.id})
    <3>1. {d.id} \in SUBSET Living
      BY <2>4
    <3>2. DataKept
      BY <2>4, <3>1, DataDeleted
    <3> QED BY <1>1, <2>1, <3>2
  <2> QED BY <2>1, <2>2, <2>3, <2>4
<1> QED BY <1>2, <1>3, <1>4, <1>5

\* Prunings, tags, and the end of the housekeeping.
LEMMA CleanupSteps ==
    ASSUME MInv,
           \/ \E d \in CleanupLines : DecidePrune(d) \/ DecideTag(d)
           \/ DropTag \/ PruneSpent \/ DetectLoops
    PROVE  StepKept
<1> USE Parts
<1>0. used \in [Ids -> Nat] /\ left \in SUBSET Ids /\ ControlInv /\ TypeOK
  BY DEF MInv, TypeOK
<1>1. ASSUME NEW d \in CleanupLines, DecidePrune(d) PROVE StepKept
  <2>1. /\ step = "cleanup" /\ d.id \in Living /\ Forget("delete", {d.id})
        /\ UNCHANGED control /\ UNCHANGED counters
    BY <1>1 DEF DecidePrune, Deciding
  <2>2. {d.id} \in SUBSET Living
    BY <2>1
  <2>3. DataKept /\ tagged' \subseteq tagged /\ UNCHANGED tree
    BY <2>1, <2>2, DataDeleted
  <2>4. ControlInv'
    BY <1>0, <2>1, <2>3, ControlUnchanged DEF DataKept, ContentsTyped
  <2> QED BY <2>1, <2>3, <2>4 DEF DataKept, StepKept, Counted, counters
<1>2. ASSUME NEW d \in CleanupLines, DecideTag(d) PROVE StepKept
  <2>1. /\ step = "cleanup" /\ mode = "deciding" /\ cut' = {d.tag} /\ d.tag \in tags
        /\ tagged' = {e \in tagged : e[2] # d.tag}
        /\ tree' = {e \in tree : d.tag \notin {e[1], e[2]}}
        /\ given' = {e \in given : e[2] # d.tag}
        /\ UNCHANGED <<version, tables, rows, stage, faults, layer, used, decay, tags, step, mode,
                       left, lineage, touched, tidyings, touches>>
    BY <1>2 DEF DecideTag, Deciding, CutEdges, schemaVars, counters
  <2>2. SchemaTypeOK' /\ StageInv' /\ Trail' = Trail
    BY <1>0, <2>1 DEF TypeOK, SchemaTypeOK, MInv, StageInv, Trail
  <2>3. AuditTrail' /\ TrailKept /\ Rises
    BY <2>1, <2>2 DEF MInv, AuditTrail, Living, TrailKept, Rises, Higher
  <2>4. ContentsTyped' /\ NoDanglingEdges'
    BY <1>0, <2>1 DEF TypeOK, MInv, ContentsTyped, NoDanglingEdges, Living
  <2>5. ControlInv'
    BY <1>0, <2>1 DEF TypeOK, ControlInv, ControlTyped, ModeInv, CandidatesEarned, LeftLives
  <2>6. Counted'
    BY <1>0, <2>1 DEF TypeOK, Counted
  <2> QED BY <2>2, <2>3, <2>4, <2>5, <2>6 DEF StepKept
<1>3. CASE DropTag
  <2>1. /\ step = "cleanup" /\ mode = "deciding" /\ cut' = {} /\ tags' = tags \ cut
        /\ UNCHANGED <<version, tables, rows, stage, faults, layer, used, decay, tagged, tree,
                       step, mode, left, lineage, touched, given, tidyings, touches>>
    BY <1>3 DEF DropTag, Deciding, schemaVars, ghosts, counters
  <2>2. SchemaTypeOK' /\ StageInv' /\ Trail' = Trail
    BY <1>0, <2>1 DEF TypeOK, SchemaTypeOK, MInv, StageInv, Trail
  <2>3. AuditTrail' /\ TrailKept /\ Rises
    BY <2>1, <2>2 DEF MInv, AuditTrail, Living, TrailKept, Rises, Higher
  <2>4. ContentsTyped'
    BY <1>0, <2>1 DEF TypeOK, ContentsTyped
  <2>5. NoDanglingEdges'
    <3>1. NoDanglingEdges /\ ModeInv
      BY DEF MInv
    <3>2. /\ \A e \in tagged : e[2] \notin cut
          /\ \A e \in tree : e[1] \notin cut /\ e[2] \notin cut
      BY <3>1 DEF ModeInv
    <3> QED BY <2>1, <3>1, <3>2 DEF NoDanglingEdges, Living
  <2>6. ControlInv'
    BY <1>0, <2>1 DEF ControlInv, ControlTyped, ModeInv, CandidatesEarned, LeftLives
  <2>7. Counted'
    BY <1>0, <2>1 DEF TypeOK, Counted
  <2> QED BY <2>2, <2>3, <2>4, <2>5, <2>6, <2>7 DEF StepKept
<1>4. CASE PruneSpent
  <2>1. /\ UNCHANGED counters
        /\ \E s \in Steps \cup {"idle"} : GoTo(s)
        /\ UNCHANGED <<schemaVars, contents, ghosts>> \/ Forget("prune", Spent)
    BY <1>4 DEF PruneSpent, Steps
  <2>2. Spent \in SUBSET Living
    BY DEF Spent
  <2>3. DataKept
    BY <2>1, <2>2, DataDeleted, DataUnchanged
  <2>4. ControlInv'
    <3>1. CASE UNCHANGED <<schemaVars, contents, ghosts>>
      BY <2>1, <3>1, GoToKept DEF contents
    <3>2. CASE Forget("prune", Spent)
      <4>1. PICK s \in Steps \cup {"idle"} : GoTo(s)
        BY <2>1
      <4>2. s \notin {"promote", "promote_skill"}
        BY <1>4, <4>1 DEF PruneSpent, GoTo
      <4>3. step' = s /\ mode' = "ready" /\ cut' = {} /\ left' = {}
        BY <4>1, <4>2 DEF GoTo
      <4> QED BY <4>1, <4>3 DEF ControlInv, ControlTyped, ModeInv, CandidatesEarned, LeftLives
    <3> QED BY <2>1, <3>1, <3>2
  <2> QED BY <2>1, <2>3, <2>4 DEF DataKept, StepKept, Counted, counters
<1>5. CASE DetectLoops
  <2>1. /\ UNCHANGED <<layer, used, decay, tagged, tags, tree, lineage, touched, given>>
        /\ UNCHANGED counters /\ GoTo("idle")
    BY <1>5 DEF DetectLoops, contents, ghosts
  <2>2. ControlInv' /\ Counted'
    BY <2>1, GoToKept DEF Counted, counters
  <2>3. ContentsTyped' /\ NoDanglingEdges' /\ Rises
    BY <2>1 DEF ContentsTyped, NoDanglingEdges, Living, Rises, Higher
  <2>4. SchemaTypeOK' /\ StageInv' /\ AuditTrail' /\ TrailKept
    <3> DEFINE row == [op |-> "detect_loop", id |-> 0, of |-> 0]
    <3>1. CASE CanAudit /\ Record({row}, {}) /\ Kept
      <4>1. {row} \in SUBSET Row /\ {} \in SUBSET Ids /\ {} \in SUBSET Living
        BY DEF Row, Operations
      <4>2. rows' \in [Audits -> SUBSET Row]
        BY <1>0, <3>1, <4>1, RecordTrail
      <4>3. SchemaTypeOK' /\ StageInv'
        BY <1>0, <3>1, <4>2 DEF TypeOK, SchemaTypeOK, CanAudit, Kept, StageInv
      <4>4. \A r \in {row} : r.id \notin Ids
        BY MemoryAssumption DEF Ids
      <4>5. AuditTrail
        BY DEF MInv
      <4>6. AuditTrail' /\ TrailKept
        BY ONLY <1>0, <2>1, <3>1, <4>1, <4>4, <4>5, AuditKept DEF TrailKept
      <4> QED BY <4>3, <4>6
    <3>2. CASE UNCHANGED schemaVars
      <4>1. Trail' = Trail
        BY <3>2 DEF schemaVars, Trail
      <4> QED BY <1>0, <2>1, <3>2, <4>1
              DEF TypeOK, SchemaTypeOK, schemaVars, MInv, StageInv, AuditTrail, Living, TrailKept
    <3> QED BY <1>5, <3>1, <3>2 DEF DetectLoops
  <2> QED BY <2>2, <2>3, <2>4 DEF StepKept
<1> QED BY <1>1, <1>2, <1>3, <1>4, <1>5

\* Initially the trail is empty but for the memory of an earlier version.
LEMMA MInit == Init => MInv
<1> SUFFICES ASSUME Init PROVE MInv
  OBVIOUS
<1> USE MemoryAssumption
<1>1. version \in 0 .. 3 /\ 1 \in Ids /\ stage = "closed"
  BY DEF Init, SchemaInit, Ids, Current
<1>2. SchemaTypeOK /\ StageInv
  <2>1. OldRows \in SUBSET Row
    BY <1>1 DEF OldRows, Row, Operations
  <2> QED BY <1>1, <2>1 DEF Init, SchemaInit, SchemaTypeOK, StageInv, Audits, Stages, Current
<1>3. ContentsTyped /\ ControlTyped /\ Counted
  BY DEF Init, ContentsTyped, ControlTyped, Counted, Decays
<1>4. ModeInv /\ CandidatesEarned /\ LeftLives /\ NoDanglingEdges
  BY DEF Init, ModeInv, CandidatesEarned, LeftLives, NoDanglingEdges
<1>5. AuditTrail
  BY <1>1 DEF Init, SchemaInit, AuditTrail, Trail, Living, Layers, Audits, OldRows
<1> QED BY <1>2, <1>3, <1>4, <1>5, Parts DEF ControlInv

\* Every step, and a stutter.
LEMMA MStep == MInv /\ [Next]_vars => StepKept
<1> SUFFICES ASSUME MInv, [Next]_vars PROVE StepKept
  OBVIOUS
<1>1. CASE UNCHANGED vars
  <2>1. UNCHANGED <<schemaVars, contents, ghosts>> /\ UNCHANGED counters /\ UNCHANGED control
    BY <1>1 DEF vars
  <2>2. DataKept /\ Counted'
    BY <2>1, DataUnchanged, Parts DEF Counted, counters
  <2>3. ControlInv'
    BY <2>1, Parts DEF ControlInv, ControlTyped, ModeInv, CandidatesEarned, LeftLives, Living,
                       control, contents
  <2> QED BY <2>2, <2>3, Parts DEF DataKept, StepKept
<1>2. CASE Next
  <2>1. CASE Tidy
    BY <2>1, QuietSteps, PromotionSteps, MemorySteps, CleanupSteps DEF Tidy
  <2>2. CASE ~Tidy
    BY <1>2, <2>2, OutsideSteps DEF Next
  <2> QED BY <2>1, <2>2
<1> QED BY <1>1, <1>2

-----------------------------------------------------------------------------
\* The inductive invariant holds in every reachable state.
THEOREM MemoryInvariance == Spec => []MInv
<1>1. Init => MInv
  BY MInit
<1>2. MInv /\ [Next]_vars => MInv'
  BY MStep DEF StepKept
<1> QED BY <1>1, <1>2, PTL DEF Spec

\* The variables of the memory store stay within their types, as many memories
\* as there may be and however often the database is opened.
THEOREM MemoryTypeCorrect == Spec => []TypeOK
<1>1. MInv => TypeOK
  BY DEF MInv
<1> QED BY <1>1, MemoryInvariance, PTL

\* No edge of the tag graph ever points to a memory or a tag that is not there
\* (merge, delete, prune and deleteTag of views.js).
THEOREM NoDanglingEdgesAlways == Spec => []NoDanglingEdges
<1>1. MInv => NoDanglingEdges
  BY DEF MInv
<1> QED BY <1>1, MemoryInvariance, PTL

\* Every memory has its row of creation, every memory that is gone the row of its
\* end, across migrations that fail or are cut short (client.js, views.js).
THEOREM AuditTrailAlways == Spec => []AuditTrail
<1>1. MInv => AuditTrail
  BY DEF MInv
<1> QED BY <1>1, MemoryInvariance, PTL

\* The audit trail only grows, migrations and deletions included.
THEOREM TrailNeverShrinks == Spec => TrailOnlyGrows
<1>1. MInv /\ [Next]_vars => [\A r \in Trail : r \in Trail' \/ [r EXCEPT !.id = 0] \in Trail']_vars
  BY MStep DEF StepKept, TrailKept
<1> QED BY <1>1, MemoryInvariance, PTL DEF Spec, TrailOnlyGrows

\* Every promotion is earned, also one a reply names that came after other
\* changes, and one of the fallback (layer2.js).
THEOREM PromotionsEarned == Spec => PromotionEarned
<1>1. MInv /\ [Next]_vars => [Rises]_vars
  BY MStep DEF StepKept
<1>2. Rises => \A m \in Ids :
          layer[m] \in DOMAIN Higher /\ layer'[m] \in {"long", "long_skill"} => used[m] >= Threshold
  BY DEF Rises
<1> QED BY <1>1, <1>2, MemoryInvariance, PTL DEF Spec, PromotionEarned

-----------------------------------------------------------------------------
(* Those that are not gone, the unborn among them: each descends from      *)
(* itself, no two have a forebear in common, and each has what its         *)
(* forebears earned.                                                       *)
Present == {m \in Ids : layer[m] # "gone"}

Apart ==
    /\ \A m \in Present : m \in lineage[m]
    /\ \A m, n \in Present : m # n => lineage[m] \cap lineage[n] = {}

(* TouchesOf, with the counts as a parameter.                              *)
Touched(count, S) == UNION {{m} \X (1 .. count[m]) : m \in S}

UsesInherited ==
    /\ IsFiniteSet(Touched(touched, Ids))
    /\ \A h \in Present : used[h] = Selected * Cardinality(Touched(touched, lineage[h]))

TagsInherited ==
    \A h \in Present : \A m \in lineage[h], t \in Tags :
       <<m, t>> \in given => <<h, t>> \in tagged

Inherited == Apart /\ UsesInherited /\ TagsInherited

\* What it is to be a touch of one of a set of memories.
LEMMA TouchedMember ==
    ASSUME NEW count, NEW S, NEW e
    PROVE  e \in Touched(count, S) <=> \E m \in S : \E k \in 1 .. count[m] : e = <<m, k>>
BY DEF Touched

\* A step after which those who are left have the uses they had, and the tags too but
\* for one that is deleted.
LEMMA InheritedKept ==
    ASSUME Inherited, UNCHANGED <<lineage, touched>>, Present' \subseteq Present,
           \A h \in Present' : used'[h] = used[h],
           given' \subseteq given,
           \A h \in Present' : \A t \in Tags :
              \/ <<h, t>> \in tagged => <<h, t>> \in tagged'
              \/ \A m \in Ids : <<m, t>> \notin given',
           lineage \in [Ids -> SUBSET Ids]
    PROVE  Inherited'
<1>1. Apart'
  BY DEF Inherited, Apart
<1>2. UsesInherited'
  BY DEF Inherited, UsesInherited
<1>3. TagsInherited'
  <2>1. SUFFICES ASSUME NEW h \in Present', NEW m \in lineage'[h], NEW t \in Tags,
                        <<m, t>> \in given'
                 PROVE  <<h, t>> \in tagged'
    BY DEF TagsInherited
  <2>2. h \in Present /\ m \in lineage[h] /\ m \in Ids /\ <<m, t>> \in given
    BY <2>1 DEF Present
  <2>3. <<h, t>> \in tagged
    BY <2>2 DEF Inherited, TagsInherited
  <2> QED BY <2>1, <2>2, <2>3
<1> QED BY <1>1, <1>2, <1>3 DEF Inherited

\* write() starts a family: an unborn memory is nobody's forebear but its own.
LEMMA InheritedCreated ==
    ASSUME TypeOK, Inherited, NEW l \in Layers, NEW T \in SUBSET Tags, Create(l, T)
    PROVE  Inherited'
<1>1. PICK m \in Ids : /\ layer[m] = "unborn"
                       /\ layer' = [layer EXCEPT ![m] = l]
                       /\ tagged' = tagged \cup ({m} \X T)
                       /\ given' = given \cup ({m} \X T)
                       /\ UNCHANGED <<used, lineage, touched>>
  BY DEF Create
<1>2. Present' = Present /\ m \in Present
  BY <1>1 DEF Present, TypeOK, Layers
<1>3. Apart'
  BY <1>1, <1>2 DEF Inherited, Apart
<1>4. UsesInherited'
  BY <1>1, <1>2 DEF Inherited, UsesInherited
<1>5. TagsInherited'
  <2>1. SUFFICES ASSUME NEW h \in Present, NEW n \in lineage[h], NEW t \in Tags,
                        <<n, t>> \in given'
                 PROVE  <<h, t>> \in tagged'
    BY <1>1, <1>2 DEF TagsInherited
  <2>2. CASE <<n, t>> \in given
    BY <1>1, <2>2 DEF Inherited, TagsInherited
  <2>3. CASE <<n, t>> \in {m} \X T
    <3>1. n = m /\ m \in lineage[m] /\ t \in T
      BY <1>2, <2>3 DEF Inherited, Apart
    <3>2. h = m
      BY <1>2, <3>1 DEF Inherited, Apart
    <3> QED BY <1>1, <3>1, <3>2
  <2> QED BY <1>1, <2>1, <2>2, <2>3
<1> QED BY <1>3, <1>4, <1>5 DEF Inherited

\* touchAccess() counts for the family of the memory and for no other.
LEMMA InheritedTouched ==
    ASSUME TypeOK, Inherited, NEW m \in Ids, Touch(m)
    PROVE  Inherited'
<1> USE MemoryAssumption
<1>1. /\ m \in Present
      /\ used' = [used EXCEPT ![m] = @ + Selected]
      /\ touched' = [touched EXCEPT ![m] = @ + 1]
      /\ UNCHANGED <<layer, lineage, tagged, given>>
  BY DEF Touch, Living, Present, Layers
<1>2. Present' = Present
  BY <1>1 DEF Present
<1>3. Apart' /\ TagsInherited'
  BY <1>1, <1>2 DEF Inherited, Apart, TagsInherited
<1> DEFINE one == <<m, touched[m] + 1>>
<1>4. ASSUME NEW S \in SUBSET Ids
      PROVE  /\ m \notin S => Touched(touched', S) = Touched(touched, S)
             /\ m \in S => /\ Touched(touched', S) = Touched(touched, S) \cup {one}
                           /\ one \notin Touched(touched, S)
  <2>1. /\ \A n \in Ids : touched[n] \in Nat
        /\ \A n \in Ids \ {m} : touched'[n] = touched[n]
        /\ touched'[m] = touched[m] + 1
    BY <1>1 DEF TypeOK
  <2>2. /\ 1 .. touched'[m] = (1 .. touched[m]) \cup {touched[m] + 1}
        /\ touched[m] + 1 \notin 1 .. touched[m]
    BY <2>1
  <2>3. \A n \in S \ {m} : 1 .. touched'[n] = 1 .. touched[n]
    BY <2>1
  <2>4. ASSUME m \notin S PROVE Touched(touched', S) = Touched(touched, S)
    BY <2>3, <2>4 DEF Touched
  <2>5. ASSUME m \in S
        PROVE  Touched(touched', S) = Touched(touched, S) \cup {one} /\ one \notin Touched(touched, S)
    <3>1. ASSUME NEW e
          PROVE  e \in Touched(touched', S) <=> e \in Touched(touched, S) \/ e = one
      <4>1. e \in Touched(touched', S) <=>
               \/ \E n \in S \ {m} : \E k \in 1 .. touched[n] : e = <<n, k>>
               \/ \E k \in 1 .. touched'[m] : e = <<m, k>>
        <5>1. e \in Touched(touched', S) <=>
                 \E n \in S : \E k \in 1 .. touched'[n] : e = <<n, k>>
          BY TouchedMember
        <5> QED BY <2>3, <2>5, <5>1
      <4>2. e \in Touched(touched, S) <=>
               \/ \E n \in S \ {m} : \E k \in 1 .. touched[n] : e = <<n, k>>
               \/ \E k \in 1 .. touched[m] : e = <<m, k>>
        BY <2>5, TouchedMember
      <4> QED BY <4>1, <4>2, <2>2
    <3>2. one \notin Touched(touched, S)
      BY <2>2, TouchedMember
    <3> QED BY <3>1, <3>2
  <2> QED BY <2>4, <2>5
<1>5. UsesInherited'
  <2>1. IsFiniteSet(Touched(touched', Ids))
    BY <1>4, FS_AddElement DEF Inherited, UsesInherited
  <2>2. ASSUME NEW h \in Present
        PROVE  used'[h] = Selected * Cardinality(Touched(touched', lineage[h]))
    <3> DEFINE L == lineage[h]
               c == Cardinality(Touched(touched, L))
    <3>1. L \in SUBSET Ids /\ h \in Ids /\ used[h] = Selected * c
      BY DEF Inherited, UsesInherited, TypeOK, Present
    <3>2. Touched(touched, L) \subseteq Touched(touched, Ids)
      BY <3>1 DEF Touched
    <3>3. IsFiniteSet(Touched(touched, L)) /\ c \in Nat
      BY <3>2, FS_Subset, FS_CardinalityType DEF Inherited, UsesInherited
    <3>4. CASE h = m
      <4>1. m \in L
        BY <1>1, <3>4 DEF Inherited, Apart
      <4>2. Cardinality(Touched(touched', L)) = c + 1
        BY <1>4, <3>1, <3>3, <4>1, FS_AddElement
      <4>3. used'[h] = used[h] + Selected
        BY <1>1, <3>1, <3>4 DEF TypeOK
      <4> HIDE DEF c
      <4>4. Selected * (c + 1) = Selected * c + Selected
        BY <3>3
      <4> QED BY <3>1, <4>2, <4>3, <4>4
    <3>5. CASE h # m
      <4>1. m \notin L
        BY <1>1, <3>5 DEF Inherited, Apart
      <4>2. Touched(touched', L) = Touched(touched, L)
        BY <1>4, <3>1, <4>1
      <4>3. used'[h] = used[h]
        BY <1>1, <3>1, <3>5 DEF TypeOK
      <4> QED BY <3>1, <4>2, <4>3
    <3> QED BY <3>4, <3>5
  <2> QED BY <1>1, <1>2, <2>1, <2>2 DEF UsesInherited
<1> QED BY <1>3, <1>5 DEF Inherited

\* merge() joins two families: the touches add up, and an edge of the source is one of
\* the target afterwards.
LEMMA InheritedMerged ==
    ASSUME TypeOK, Inherited, NEW s \in Ids, NEW t \in Ids, Merge(s, t)
    PROVE  Inherited'
<1> USE MemoryAssumption
<1>1. /\ s # t /\ s \in Present /\ t \in Present
      /\ layer' = [layer EXCEPT ![s] = "gone"]
      /\ used' = [used EXCEPT ![t] = used[s] + used[t], ![s] = 0]
      /\ tagged' = MovedEdges(s, t)
      /\ lineage' = [lineage EXCEPT ![t] = @ \cup lineage[s]]
      /\ UNCHANGED <<touched, given>>
  BY DEF Merge, MergedUses, Living, Present, Layers
<1>2. Present' = Present \ {s}
  BY <1>1 DEF Present, TypeOK
<1>3. /\ lineage'[t] = lineage[t] \cup lineage[s]
      /\ \A h \in Ids \ {t} : lineage'[h] = lineage[h]
      /\ used'[t] = used[s] + used[t]
      /\ \A h \in Ids \ {s, t} : used'[h] = used[h]
      /\ Present \subseteq Ids
      /\ \A h \in Ids : lineage[h] \in SUBSET Ids
  BY <1>1 DEF TypeOK, Present
<1>4. /\ \A m \in Present : m \in lineage[m]
      /\ \A m, n \in Present : m # n => lineage[m] \cap lineage[n] = {}
  BY DEF Inherited, Apart
<1>5. Apart'
  <2>1. \A m \in Present \ {s} : m \in lineage'[m]
    BY <1>3, <1>4
  <2>2. ASSUME NEW m \in Present \ {s}, NEW n \in Present \ {s}, m # n
        PROVE  lineage'[m] \cap lineage'[n] = {}
    <3>1. CASE m # t /\ n # t
      BY <1>3, <1>4, <2>2, <3>1
    <3>2. CASE m = t
      BY <1>1, <1>3, <1>4, <2>2, <3>2
    <3>3. CASE n = t
      BY <1>1, <1>3, <1>4, <2>2, <3>3
    <3> QED BY <3>1, <3>2, <3>3
  <2> QED BY <1>2, <2>1, <2>2 DEF Apart
<1>6. UsesInherited'
  <2> DEFINE Of(h) == Touched(touched, lineage[h])
  <2>1. \A h \in Present : /\ used[h] = Selected * Cardinality(Of(h))
                           /\ IsFiniteSet(Of(h))
    <3>1. ASSUME NEW h \in Present PROVE Of(h) \subseteq Touched(touched, Ids)
      BY <1>3 DEF Touched
    <3> QED BY <3>1, FS_Subset DEF Inherited, UsesInherited
  <2>2. Touched(touched, lineage'[t]) = Of(s) \cup Of(t)
    BY <1>3 DEF Touched
  <2>3. Of(s) \cap Of(t) = {}
    BY <1>1, <1>4 DEF Touched
  <2> DEFINE a == Cardinality(Of(s))
             b == Cardinality(Of(t))
             c == Cardinality(Touched(touched, lineage'[t]))
  <2>4. a \in Nat /\ b \in Nat
    BY <1>1, <2>1, FS_CardinalityType
  <2>5. c = a + b - Cardinality(Of(s) \cap Of(t))
    BY ONLY <1>1, <2>1, <2>2, FS_Union
  <2>6. c = a + b
    <3>1. Cardinality(Of(s) \cap Of(t)) = 0
      BY <2>3, FS_EmptySet
    <3> HIDE DEF a, b, c
    <3> QED BY <2>4, <2>5, <3>1
  <2>7. used[s] = Selected * a /\ used[t] = Selected * b
    BY <1>1, <2>1
  <2>8. used'[t] = Selected * c
    <3> HIDE DEF a, b, c
    <3>1. Selected * (a + b) = Selected * a + Selected * b
      BY <2>4
    <3> QED BY <1>3, <2>6, <2>7, <3>1
  <2>9. ASSUME NEW h \in Present'
        PROVE  used'[h] = Selected * Cardinality(Touched(touched', lineage'[h]))
    <3>1. CASE h = t
      BY <1>1, <2>8, <3>1
    <3>2. CASE h # t
      BY <1>1, <1>2, <1>3, <2>1, <3>2
    <3> QED BY <3>1, <3>2
  <2>10. IsFiniteSet(Touched(touched', Ids))
    BY <1>1 DEF Inherited, UsesInherited
  <2> QED BY <2>9, <2>10 DEF UsesInherited
<1>7. TagsInherited'
  <2>1. SUFFICES ASSUME NEW h \in Present \ {s}, NEW m \in lineage'[h], NEW g \in Tags,
                        <<m, g>> \in given
                 PROVE  <<h, g>> \in tagged'
    BY <1>1, <1>2 DEF TagsInherited
  <2>2. \A n \in Present : m \in lineage[n] => <<n, g>> \in tagged
    BY <2>1 DEF Inherited, TagsInherited
  <2>3. \A n \in Ids : <<n, g>> \in tagged => <<IF n = s THEN t ELSE n, g>> \in tagged'
    BY <1>1 DEF MovedEdges
  <2>4. CASE h = t
    <3>1. PICK n \in {s, t} : m \in lineage[n]
      BY <1>3, <2>1, <2>4
    <3> QED BY <1>1, <2>2, <2>3, <2>4, <3>1
  <2>5. CASE h # t
    BY <1>3, <2>1, <2>2, <2>3, <2>5
  <2> QED BY <2>4, <2>5
<1> QED BY <1>5, <1>6, <1>7 DEF Inherited

\* delete(), prune(), promote() and deleteTag() leave what is left its own.
LEMMA InheritedLeft ==
    ASSUME TypeOK, Inherited,
           \/ \E op \in {"delete", "prune"}, gone \in SUBSET Living : Forget(op, gone)
           \/ \E m \in Ids : Promote(m)
           \/ \E d \in CleanupLines : DecideTag(d)
    PROVE  Inherited'
<1>1. lineage \in [Ids -> SUBSET Ids]
  BY DEF TypeOK
<1>2. ASSUME NEW op \in {"delete", "prune"}, NEW gone \in SUBSET Living, Forget(op, gone)
      PROVE  Inherited'
  <2>1. /\ layer' = [m \in Ids |-> IF m \in gone THEN "gone" ELSE layer[m]]
        /\ used' = [m \in Ids |-> IF m \in gone THEN 0 ELSE used[m]]
        /\ tagged' = {e \in tagged : e[1] \notin gone}
        /\ UNCHANGED <<lineage, touched, given>>
    BY <1>2 DEF Forget, EdgesWithout, ghosts
  <2>2. Present' = Present \ gone
    BY <2>1 DEF Present
  <2>3. \A h \in Present' : used'[h] = used[h]
    BY <2>1, <2>2 DEF Present
  <2>4. \A h \in Present' : \A t \in Tags : <<h, t>> \in tagged => <<h, t>> \in tagged'
    BY <2>1, <2>2
  <2> QED BY <1>1, <2>1, <2>2, <2>3, <2>4, InheritedKept
<1>3. ASSUME NEW m \in Ids, Promote(m) PROVE Inherited'
  <2>1. /\ layer[m] \in DOMAIN Higher
        /\ layer' = [layer EXCEPT ![m] = Higher[@]]
        /\ UNCHANGED <<used, tagged, lineage, touched, given>>
    BY <1>3 DEF Promote, ghosts
  <2>2. Present' = Present
    BY <2>1 DEF Present, TypeOK, Higher
  <2> QED BY <1>1, <2>1, <2>2, InheritedKept
<1>4. ASSUME NEW d \in CleanupLines, DecideTag(d) PROVE Inherited'
  <2>1. /\ tagged' = {e \in tagged : e[2] # d.tag}
        /\ given' = {e \in given : e[2] # d.tag}
        /\ UNCHANGED <<layer, used, lineage, touched>>
    BY <1>4 DEF DecideTag, CutEdges
  <2>2. Present' = Present
    BY <2>1 DEF Present
  <2>3. \A h \in Present' : \A t \in Tags :
           \/ <<h, t>> \in tagged => <<h, t>> \in tagged'
           \/ \A m \in Ids : <<m, t>> \notin given'
    BY <2>1
  <2> QED BY <1>1, <2>1, <2>2, <2>3, InheritedKept
<1> QED BY <1>2, <1>3, <1>4

\* What any step does to the memories.
LEMMA Effects ==
    ASSUME MInv, [Next]_vars
    PROVE  \/ UNCHANGED <<layer, used, tagged, ghosts>>
           \/ \E l \in Layers, T \in SUBSET Tags : Create(l, T)
           \/ \E m \in Ids : Touch(m)
           \/ \E s, t \in Ids : Merge(s, t)
           \/ \E op \in {"delete", "prune"}, gone \in SUBSET Living : Forget(op, gone)
           \/ \E m \in Ids : Promote(m)
           \/ \E d \in CleanupLines : DecideTag(d)
<1> USE MemoryAssumption
<1>1. CASE UNCHANGED vars \/ Open \/ Crash \/ StartTidying
  BY <1>1 DEF vars, contents, Open, Crash, StartTidying
<1>2. CASE \E t, u \in Tags : RelateTags(t, u)
  BY <1>2 DEF RelateTags
<1>3. CASE Ask \/ Skip \/ Answer \/ ModelFails \/ PromotionThrows \/ FallBackEnds \/ EndReply
  BY <1>3 DEF contents, Ask, Skip, Answer, ModelFails, PromotionThrows, FallBackEnds, EndReply
<1>4. CASE DropTag \/ DetectLoops \/ \E d \in ContradictionLines : DecideContradiction(d)
  BY <1>4 DEF contents, DropTag, DetectLoops, DecideContradiction
<1>5. CASE Write
  BY <1>5 DEF Write
<1>6. CASE \E m \in PromotionLines : DecidePromotion(m)
  BY <1>6 DEF PromotionLines, DecidePromotion
<1>7. CASE FallBackPromotes
  <2>1. left \in SUBSET Ids
    BY DEF MInv, TypeOK
  <2> QED BY <1>7, <2>1 DEF FallBackPromotes, contents
<1>8. CASE \E d \in DuplicateLines : DecideMerge(d)
  BY <1>8 DEF DuplicateLines, DecideMerge
<1>9. CASE RemoveContradicted
  <2>1. Forget("delete", left) /\ left \in SUBSET Living
    BY <1>9 DEF RemoveContradicted, Deciding, MInv, LeftLives
  <2> QED BY <2>1
<1>10. ASSUME NEW d \in SkillLines, DecideSkill(d)
       PROVE  \/ UNCHANGED <<layer, used, tagged, ghosts>>
              \/ \E l \in Layers, T \in SUBSET Tags : Create(l, T)
              \/ \E op \in {"delete", "prune"}, gone \in SUBSET Living : Forget(op, gone)
  <2>1. CASE d.kind = "new_skill" /\ Create("short_skill", d.tags)
    BY <2>1 DEF SkillLines, Layers
  <2>2. CASE UNCHANGED <<contents, ghosts>>
    BY <2>2 DEF contents
  <2>3. CASE d.id \in Living /\ Forget("delete", {d.id})
    <3>1. {d.id} \in SUBSET Living
      BY <2>3
    <3> QED BY <2>3, <3>1
  <2> QED BY <1>10, <2>1, <2>2, <2>3 DEF DecideSkill
<1>11. ASSUME NEW d \in CleanupLines, DecidePrune(d)
       PROVE  \E op \in {"delete", "prune"}, gone \in SUBSET Living : Forget(op, gone)
  <2>1. {d.id} \in SUBSET Living /\ Forget("delete", {d.id})
    BY <1>11 DEF DecidePrune
  <2> QED BY <2>1
<1>12. CASE PruneSpent
  <2>1. Spent \in SUBSET Living
    BY DEF Spent
  <2>2. UNCHANGED <<schemaVars, contents, ghosts>> \/ Forget("prune", Spent)
    BY <1>12 DEF PruneSpent
  <2> QED BY <2>1, <2>2 DEF contents
<1> QED
  BY <1>1, <1>2, <1>3, <1>4, <1>5, <1>6, <1>7, <1>8, <1>9, <1>10, <1>11, <1>12 DEF Next, Tidy

\* Initially every memory is a family of its own without touches and tags.
LEMMA InheritedInit == Init => Inherited
<1> SUFFICES ASSUME Init PROVE Inherited
  OBVIOUS
<1>1. /\ lineage = [m \in Ids |-> {m}] /\ touched = [m \in Ids |-> 0]
      /\ used = [m \in Ids |-> 0] /\ given = {}
  BY DEF Init
<1>2. Apart /\ TagsInherited
  BY <1>1 DEF Apart, TagsInherited, Present
<1>3. \A S \in SUBSET Ids : Touched(touched, S) = {}
  BY <1>1 DEF Touched
<1>4. Cardinality({}) = 0 /\ IsFiniteSet({})
  BY FS_EmptySet
<1>5. UsesInherited
  <2>1. \A h \in Ids : used[h] = 0 /\ lineage[h] \in SUBSET Ids
    BY <1>1
  <2>2. \A h \in Ids : Cardinality(Touched(touched, lineage[h])) = 0
    BY <1>3, <1>4, <2>1
  <2>3. Selected * 0 = 0
    BY MemoryAssumption
  <2> QED BY <1>3, <1>4, <2>1, <2>2, <2>3 DEF UsesInherited, Present
<1> QED BY <1>2, <1>5 DEF Inherited

\* No step of the store, the housekeeping or open() lets a family lose what it has.
LEMMA InheritedNext == MInv /\ Inherited /\ [Next]_vars => Inherited'
<1> SUFFICES ASSUME MInv, Inherited, [Next]_vars PROVE Inherited'
  OBVIOUS
<1>1. TypeOK /\ lineage \in [Ids -> SUBSET Ids]
  BY DEF MInv, TypeOK
<1>2. CASE UNCHANGED <<layer, used, tagged, ghosts>>
  <2>1. UNCHANGED <<layer, used, tagged, lineage, touched, given>>
    BY <1>2 DEF ghosts
  <2>2. Present' = Present
    BY <2>1 DEF Present
  <2> QED BY <1>1, <2>1, <2>2, InheritedKept
<1> QED BY <1>1, <1>2, Effects, InheritedCreated, InheritedTouched, InheritedMerged, InheritedLeft

\* A merge passes on everything, however many merges follow one another and whatever
\* happens in between: the heir has the uses of all its forebears and their tags.
THEOREM HeirsInheritAlways == Spec => []HeirsInherit
<1>1. Init => MInv /\ Inherited
  BY MInit, InheritedInit
<1>2. MInv /\ Inherited /\ [Next]_vars => MInv' /\ Inherited'
  BY MStep, InheritedNext DEF StepKept
<1>3. Inherited => HeirsInherit
  <2>1. Living \subseteq Present
    BY DEF Living, Present, Layers
  <2>2. \A S : TouchesOf(S) = Touched(touched, S)
    BY DEF TouchesOf, Touched
  <2> QED BY <2>1, <2>2 DEF Inherited, UsesInherited, TagsInherited, HeirsInherit
<1> QED BY <1>1, <1>2, <1>3, PTL DEF Spec

=============================================================================
