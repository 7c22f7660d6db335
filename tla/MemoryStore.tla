---------------------------- MODULE MemoryStore ----------------------------
(***************************************************************************)
(* An agent's memories, their tags and their audit trail                   *)
(* (src/modules/thinkroid-memory/src/views.js), with those who change      *)
(* them: the writers under the lock, the recalls that touch a memory at    *)
(* any time, and the housekeeping of layer 2, which holds the lock, puts   *)
(* its questions to a model and carries out what comes back                *)
(* (src/src/cerebellum/layer2.js, housekeeping-prompts.js).                *)
(*                                                                         *)
(* A reply is carried out without an await, one transaction per line of    *)
(* it: recalls come in only while a question is out, a crash comes in      *)
(* between any two transactions.                                           *)
(***************************************************************************)
EXTENDS MemorySchema, FiniteSets

CONSTANTS
    Tags,
    Written,        \* the layers that writers use: all four
    OldLayer,       \* of the memory in a database of an earlier version
    Threshold,      \* PROMOTION_THRESHOLDS: 10 for short, 50 for short_skill
    Selected,       \* ACCESS_COUNT_SELECTED, 2 in the code
    MaxTagsEach,    \* tags one memory is written with
    MaxTidyings,
    MaxChanges      \* touches, updates and relations of tags together

Layers == {"short", "long", "short_skill", "long_skill"}
Decays == {"unused", "fresh", "faint", "spent"}
Steps == {"promote", "promote_skill", "dedup", "contradict", "skills",
          "cleanup", "prune", "loops"}

ASSUME MemoryAssumption ==
    /\ MaxMemories \in Nat \ {0}
    /\ Written \subseteq Layers /\ OldLayer \in Layers
    /\ Threshold \in Nat /\ Selected \in Nat
    /\ MaxFaults \in Nat /\ MaxTidyings \in Nat
    /\ MaxChanges \in Nat /\ MaxTagsEach \in Nat

VARIABLES
    layer,      \* the layer of a memory, "unborn" or "gone"
    used,       \* access_count
    decay,      \* decay_score; "unused" while last_triggered_at is NULL
    tagged,     \* the tagged_with edges
    tags,       \* the rows of tags
    tree,       \* the parent_of edges between tags
    step,       \* of the housekeeping, "idle" when the lock is free
    mode,       \* "ready", "asking", "deciding" or "falling" back
    left,       \* memories the running code still has to handle
    cut,        \* the tag whose edges are deleted and whose row is not
    lineage,    \* history: the memories merged into one
    touched,    \* history: how often each memory itself was touched
    given,      \* history: the tags it was written with
    tidyings, touches

contents == <<layer, used, decay, tagged, tags, tree>>
control == <<step, mode, left, cut>>
ghosts == <<lineage, touched, given>>
counters == <<tidyings, touches>>
vars == <<schemaVars, contents, control, ghosts, counters>>

Living == {m \in Ids : layer[m] \in Layers}
In(l) == {m \in Ids : layer[m] = l}

TypeOK ==
    /\ SchemaTypeOK
    /\ layer \in [Ids -> Layers \cup {"unborn", "gone"}]
    /\ used \in [Ids -> Nat]
    /\ decay \in [Ids -> Decays]
    /\ tagged \in SUBSET (Ids \X Tags)
    /\ tags \in SUBSET Tags
    /\ tree \in SUBSET (Tags \X Tags)
    /\ step \in Steps \cup {"idle"}
    /\ mode \in {"ready", "asking", "deciding", "falling"}
    /\ left \in SUBSET Ids
    /\ cut \in SUBSET Tags
    /\ lineage \in [Ids -> SUBSET Ids]
    /\ touched \in [Ids -> Nat]
    /\ given \in SUBSET (Ids \X Tags)
    /\ tidyings \in Nat /\ touches \in Nat

Init ==
    /\ SchemaInit
    /\ layer = [m \in Ids |-> IF m = 1 /\ version > 0 THEN OldLayer ELSE "unborn"]
    /\ used = [m \in Ids |-> 0]
    /\ decay = [m \in Ids |-> "unused"]
    /\ tagged = {} /\ tags = {} /\ tree = {}
    /\ step = "idle" /\ mode = "ready" /\ left = {} /\ cut = {}
    /\ lineage = [m \in Ids |-> {m}]
    /\ touched = [m \in Ids |-> 0]
    /\ given = {}
    /\ tidyings = 0 /\ touches = 0

-----------------------------------------------------------------------------
(* The foreign keys of both audit tables are ON DELETE SET NULL.           *)
Orphaned_Cascade(R, gone) == {r \in R : r.id \notin gone}
Orphaned(R, gone) == {IF r.id \in gone THEN [r EXCEPT !.id = 0] ELSE r : r \in R}

(* New audit rows, and the memories of a set deleted behind them.          *)
Record(new, gone) ==
    rows' = [t \in Audits |->
               Orphaned(rows[t] \cup (IF t = "memory_audit" THEN new ELSE {}), gone)]

Kept == UNCHANGED <<version, tables, stage, faults>>

(* A transaction that writes an audit row and leaves all memories.         *)
Note(op, m) ==
    /\ CanAudit
    /\ Record({[op |-> op, id |-> m, of |-> m]}, {})
    /\ Kept

(* The bound on what does not end by itself.                               *)
MayChange ==
    Cardinality({r \in rows["memory_audit"] : r.op = "update"})
        + Cardinality(tree) + touches < MaxChanges

(* update(), of the content.                                               *)
Update(m) ==
    /\ MayChange
    /\ m \in Living
    /\ Note("update", m)

(* write(): the row, its tags, created where they are missing, and edges.  *)
Create(l, T) ==
    \E m \in Ids :
       /\ IsFiniteSet(T) /\ Cardinality(T) <= MaxTagsEach
       /\ layer[m] = "unborn"
       /\ \A n \in Ids : n < m => layer[n] # "unborn"
       /\ Note("create", m)
       /\ layer' = [layer EXCEPT ![m] = l]
       /\ tags' = tags \cup T
       /\ tagged' = tagged \cup ({m} \X T)
       /\ given' = given \cup ({m} \X T)
       /\ UNCHANGED <<used, decay, tree, lineage, touched>>

(* delete() and prune(): audit rows, edges and memories, in a transaction. *)
EdgesWithout(gone) == {e \in tagged : e[1] \notin gone}

Forget(op, gone) ==
    /\ CanAudit
    /\ Record({[op |-> op, id |-> m, of |-> m] : m \in gone}, gone)
    /\ Kept
    /\ layer' = [m \in Ids |-> IF m \in gone THEN "gone" ELSE layer[m]]
    /\ used' = [m \in Ids |-> IF m \in gone THEN 0 ELSE used[m]]
    /\ decay' = [m \in Ids |-> IF m \in gone THEN "unused" ELSE decay[m]]
    /\ tagged' = EdgesWithout(gone)
    /\ UNCHANGED <<tags, tree, ghosts>>

(* promote() checks the layer it finds.                                    *)
Higher == [short |-> "long", short_skill |-> "long_skill"]

Promote(m) ==
    /\ layer[m] \in DOMAIN Higher
    /\ Note("promote", m)
    /\ layer' = [layer EXCEPT ![m] = Higher[@]]
    /\ UNCHANGED <<used, decay, tagged, tags, tree, ghosts>>

(* merge(): the target gets the uses and the edges of the source; an edge  *)
(* that it has already is dropped with the source.                         *)
MergedUses_Difference(s, t) == used[t] - used[s]
MergedUses(s, t) == used[s] + used[t]

MovedEdges_Dropped(s, t) == EdgesWithout({s})
MovedEdges(s, t) == {<<IF e[1] = s THEN t ELSE e[1], e[2]>> : e \in tagged}

Merge(s, t) ==
    /\ s # t /\ s \in Living /\ t \in Living
    /\ CanAudit
    /\ Record({[op |-> "merge", id |-> t, of |-> s]}, {s})
    /\ Kept
    /\ layer' = [layer EXCEPT ![s] = "gone"]
    /\ used' = [used EXCEPT ![t] = MergedUses(s, t), ![s] = 0]
    /\ decay' = [decay EXCEPT ![s] = "unused"]
    /\ tagged' = MovedEdges(s, t)
    /\ lineage' = [lineage EXCEPT ![t] = @ \cup lineage[s]]
    /\ UNCHANGED <<tags, tree, touched, given>>

-----------------------------------------------------------------------------
(* open(), and whatever a crash leaves of the housekeeping: nothing.       *)
Open == /\ OpenStep
        /\ UNCHANGED <<contents, control, ghosts, counters>>

Crash == /\ SchemaCrash
         /\ step' = "idle" /\ mode' = "ready" /\ left' = {} /\ cut' = {}
         /\ UNCHANGED <<contents, ghosts, counters>>

LockFree == stage = "open" /\ step = "idle"
LoopFree == LockFree \/ (stage = "open" /\ mode = "asking")

(* Layer 1, the summaries of layer 2, and memory.write.                    *)
Write ==
    /\ LockFree
    /\ \E l \in Written, T \in SUBSET Tags : Create(l, T)
    /\ UNCHANGED <<control, counters>>

(* touchAccess(), for each memory a recall or an assembled context found.  *)
Touch(m) ==
    /\ LoopFree
    /\ m \in Living
    /\ MayChange
    /\ touches' = touches + 1
    /\ used' = [used EXCEPT ![m] = @ + Selected]
    /\ touched' = [touched EXCEPT ![m] = @ + 1]
    /\ decay' = [decay EXCEPT ![m] = "fresh"]
    /\ UNCHANGED <<schemaVars, layer, tagged, tags, tree, control, lineage, given,
                   tidyings>>

(* relateTags() with kind parent_of; the edges are unique.  The daemon has *)
(* no caller of it: a caller is taken to hold the lock, as for write().    *)
RelateTags(t, u) ==
    /\ LockFree
    /\ t \in tags /\ u \in tags
    /\ <<t, u>> \notin tree
    /\ MayChange
    /\ tree' = tree \cup {<<t, u>>}
    /\ UNCHANGED <<schemaVars, layer, used, decay, tagged, tags, control, ghosts, counters>>

-----------------------------------------------------------------------------
(* findPromotable()                                                        *)
Promotable(l) == {m \in In(l) : used[m] >= Threshold}

GoTo(s) ==
    /\ step' = s
    /\ mode' = "ready"
    /\ left' = IF s = "promote_skill" THEN Promotable("short_skill") ELSE {}
    /\ cut' = {}

After == [promote |-> "promote_skill", promote_skill |-> "dedup",
          dedup |-> "contradict", contradict |-> "skills", skills |-> "cleanup",
          cleanup |-> "prune"]

(* The scores are computed anew; where last_triggered_at is NULL they stay.*)
StartTidying ==
    /\ LockFree
    /\ tidyings < MaxTidyings
    /\ tidyings' = tidyings + 1
    /\ \E d \in [Ids -> Decays] :
          /\ \A m \in Ids : d[m] = "unused" <=> decay[m] = "unused"
          /\ decay' = d
    /\ step' = "promote" /\ mode' = "ready" /\ cut' = {}
    /\ left' = Promotable("short")
    /\ UNCHANGED <<schemaVars, layer, used, tagged, tags, tree, ghosts, touches>>

(* What a step has to ask about.  The pairs for dedup and contradict are   *)
(* those whose words overlap, found once for both.                         *)
Pairs == Cardinality(In("short") \cup In("long")) > 1
Skills == In("short") \cup In("short_skill") \cup In("long_skill") # {}
Untagged == {t \in tags : \A e \in tagged : e[2] # t}
Leftovers == (\E m \in Living : decay[m] = "faint") \/ Untagged # {}

MayAsk ==
    CASE step \in {"promote", "promote_skill"} -> left # {}
      [] step = "dedup"      -> Pairs
      [] step = "contradict" -> TRUE
      [] step = "skills"     -> Skills
      [] step = "cleanup"    -> Leftovers
      [] OTHER               -> FALSE

Ask ==
    /\ mode = "ready"
    /\ MayAsk
    /\ mode' = "asking"
    /\ UNCHANGED <<schemaVars, contents, step, left, cut, ghosts, counters>>

(* Without overlapping pairs there is no contradiction to look for either. *)
Skip ==
    /\ mode = "ready"
    /\ \/ step = "dedup" /\ GoTo("skills")
       \/ /\ step \in {"promote", "promote_skill", "skills", "cleanup"}
          /\ ~MayAsk
          /\ GoTo(After[step])
    /\ UNCHANGED <<schemaVars, contents, ghosts, counters>>

Answer ==
    /\ mode = "asking"
    /\ mode' = "deciding"
    /\ UNCHANGED <<schemaVars, contents, step, left, cut, ghosts, counters>>

(* Where a failure leads: a promotion falls back to promoting all, the     *)
(* rest of step 2 is skipped, step 3 is, step 4 is.                        *)
FallBack == mode' = "falling" /\ UNCHANGED <<step, left, cut>>

ModelFails ==
    /\ mode = "asking"
    /\ CASE step \in {"promote", "promote_skill"} -> FallBack
         [] step \in {"dedup", "contradict"}      -> GoTo("skills")
         [] step = "skills"                       -> GoTo("cleanup")
         [] step = "cleanup"                      -> GoTo("idle")
    /\ UNCHANGED <<schemaVars, contents, ghosts, counters>>

-----------------------------------------------------------------------------
(* The lines a parser takes out of a reply.  Any id can be in them: none   *)
(* is compared with those the question named.                              *)
PromotionLines == Ids
DuplicateLines == [keep : Ids, merge : Ids]
ContradictionLines == [keep : Ids, remove : Ids]
SkillLines == [kind : {"new_skill"}, tags : SUBSET Tags]
                 \cup [kind : {"update", "obsolete"}, id : Ids]
CleanupLines == [kind : {"prune"}, id : Ids] \cup [kind : {"delete_tag"}, tag : Tags]

(* Carrying them out.  Where the code catches a throw line by line, the    *)
(* line has no effect and no action.                                       *)
Deciding(s) == step = s /\ mode = "deciding"

(* PROMOTE <id> counts for the candidates only.                            *)
Eligible_Any == Ids
Eligible == left

DecidePromotion(m) ==
    /\ step \in {"promote", "promote_skill"} /\ mode = "deciding"
    /\ m \in Eligible
    /\ Promote(m)
    /\ UNCHANGED <<control, counters>>

(* promote() throws, on an id named twice or for want of the audit table.  *)
PromotionThrows ==
    /\ step \in {"promote", "promote_skill"} /\ mode = "deciding"
    /\ \E m \in left : layer[m] \notin DOMAIN Higher \/ ~CanAudit
    /\ FallBack
    /\ UNCHANGED <<schemaVars, contents, ghosts, counters>>

(* The fallback promotes the candidates in turn; the first throw ends      *)
(* step 2.                                                                 *)
FallBackPromotes ==
    /\ mode = "falling"
    /\ left # {}
    /\ \E m \in left :
          /\ \A j \in left : m <= j
          /\ \/ Promote(m) /\ left' = left \ {m} /\ UNCHANGED <<step, mode, cut>>
             \/ /\ layer[m] \notin DOMAIN Higher \/ ~CanAudit
                /\ GoTo("skills")
                /\ UNCHANGED <<schemaVars, contents, ghosts>>
    /\ UNCHANGED counters

FallBackEnds ==
    /\ mode = "falling"
    /\ left = {}
    /\ GoTo(After[step])
    /\ UNCHANGED <<schemaVars, contents, ghosts, counters>>

(* DUPLICATE <keep> <merge>                                                *)
DecideMerge(d) ==
    /\ Deciding("dedup")
    /\ Merge(d.merge, d.keep)
    /\ UNCHANGED <<control, counters>>

(* CONTRADICTION <keep> <remove>: two transactions, the second when the    *)
(* first did not throw.                                                    *)
DecideContradiction(d) ==
    /\ Deciding("contradict") /\ left = {}
    /\ Update(d.keep)
    /\ left' = {d.remove} \cap Living
    /\ UNCHANGED <<contents, step, mode, cut, ghosts, counters>>

RemoveContradicted ==
    /\ Deciding("contradict") /\ left # {}
    /\ Forget("delete", left)
    /\ left' = {}
    /\ UNCHANGED <<step, mode, cut, counters>>

(* NEW_SKILL, UPDATE <id>, OBSOLETE <id>                                   *)
DecideSkill(d) ==
    /\ Deciding("skills")
    /\ \/ d.kind = "new_skill" /\ Create("short_skill", d.tags)
       \/ d.kind = "update" /\ Update(d.id) /\ UNCHANGED <<contents, ghosts>>
       \/ d.kind = "obsolete" /\ d.id \in Living /\ Forget("delete", {d.id})
    /\ UNCHANGED <<control, counters>>

(* PRUNE <id>                                                              *)
DecidePrune(d) ==
    /\ Deciding("cleanup") /\ cut = {}
    /\ d.kind = "prune" /\ d.id \in Living
    /\ Forget("delete", {d.id})
    /\ UNCHANGED <<control, counters>>

(* DELETE_TAG <name>, of a tag with or without memories: its edges, then   *)
(* its row, in two statements and without an audit row.                    *)
CutEdges_Outbound(t) == tree' = {e \in tree : e[1] # t} /\ UNCHANGED tagged
CutEdges(t) ==
    /\ tagged' = {e \in tagged : e[2] # t}
    /\ tree' = {e \in tree : t \notin {e[1], e[2]}}

DecideTag(d) ==
    /\ Deciding("cleanup") /\ cut = {}
    /\ d.kind = "delete_tag" /\ d.tag \in tags
    /\ CutEdges(d.tag)
    /\ cut' = {d.tag}
    /\ given' = {e \in given : e[2] # d.tag}
    /\ UNCHANGED <<schemaVars, layer, used, decay, tags, step, mode, left, lineage,
                   touched, counters>>

DropTag ==
    /\ Deciding("cleanup") /\ cut # {}
    /\ tags' = tags \ cut
    /\ cut' = {}
    /\ UNCHANGED <<schemaVars, layer, used, decay, tagged, tree, step, mode, left,
                   ghosts, counters>>

EndReply ==
    /\ mode = "deciding"
    /\ step \notin {"promote", "promote_skill"} => left = {} /\ cut = {}
    /\ GoTo(After[step])
    /\ UNCHANGED <<schemaVars, contents, ghosts, counters>>

(* prune(): what is below the threshold by the scores of this run.         *)
Spent == {m \in Living : decay[m] = "spent"}

PruneSpent ==
    /\ step = "prune"
    /\ \/ Spent = {} /\ UNCHANGED <<schemaVars, contents, ghosts>> /\ GoTo("loops")
       \/ Spent # {} /\ Forget("prune", Spent) /\ GoTo("loops")
       \/ /\ Spent # {} /\ ~CanAudit
          /\ UNCHANGED <<schemaVars, contents, ghosts>>
          /\ GoTo("idle")
    /\ UNCHANGED counters

(* detectLoops(): an audit row if tags are below one another.              *)
Looped ==
    \E S \in (SUBSET tags) \ {{}} :
       \A t \in S : \E u \in S \ {t} : <<t, u>> \in tree

DetectLoops ==
    /\ step = "loops"
    /\ IF Looped /\ CanAudit
          THEN Record({[op |-> "detect_loop", id |-> 0, of |-> 0]}, {}) /\ Kept
          ELSE UNCHANGED schemaVars
    /\ GoTo("idle")
    /\ UNCHANGED <<contents, ghosts, counters>>

-----------------------------------------------------------------------------
Tidy ==
    \/ Ask \/ Skip \/ Answer \/ ModelFails
    \/ \E m \in PromotionLines : DecidePromotion(m)
    \/ PromotionThrows \/ FallBackPromotes \/ FallBackEnds
    \/ \E d \in DuplicateLines : DecideMerge(d)
    \/ \E d \in ContradictionLines : DecideContradiction(d)
    \/ RemoveContradicted
    \/ \E d \in SkillLines : DecideSkill(d)
    \/ \E d \in CleanupLines : DecidePrune(d) \/ DecideTag(d)
    \/ DropTag \/ EndReply \/ PruneSpent \/ DetectLoops

Next ==
    \/ Open \/ Crash \/ Write \/ StartTidying \/ Tidy
    \/ \E m \in Ids : Touch(m)
    \/ \E t, u \in Tags : RelateTags(t, u)

Spec == Init /\ [][Next]_vars

-----------------------------------------------------------------------------
(***************************************************************************)
(* Edges are rows of their own without foreign keys.  Both ends of every   *)
(* edge exist, across merges, deletions of tags and memories the model     *)
(* names freely, and crashes between the statements of a deletion.         *)
(***************************************************************************)
NoDanglingEdges ==
    /\ \A e \in tagged : e[1] \in Living /\ e[2] \in tags
    /\ \A e \in tree : e[1] \in tags /\ e[2] \in tags

(***************************************************************************)
(* Merging loses nothing a memory has earned: a living memory has the uses *)
(* of all that were merged into it, directly or in turn, and every tag     *)
(* they were written with that has not been deleted itself.                *)
(***************************************************************************)
TouchesOf(merged) == UNION {{m} \X (1 .. touched[m]) : m \in merged}

HeirsInherit ==
    \A h \in Living :
       /\ used[h] = Selected * Cardinality(TouchesOf(lineage[h]))
       /\ \A m \in lineage[h], t \in Tags : <<m, t>> \in given => <<h, t>> \in tagged

(***************************************************************************)
(* "Immutable log of every write operation on memories and tags"           *)
(* (schema.sql:70), as far as memories go: in the audit table or, while a  *)
(* migration rebuilds it and after one that a crash cut short, in its      *)
(* copy, every memory has the row of its creation, one that is gone has    *)
(* the row that keeps its content, and only the rows of a memory that is   *)
(* there point to it.  The deletion of a tag writes no row, and none is    *)
(* asked for here.                                                         *)
(***************************************************************************)
Trail == rows["memory_audit"] \cup rows["memory_audit_new"]

AuditTrail ==
    \A m \in Ids :
       /\ layer[m] \in Layers => [op |-> "create", id |-> m, of |-> m] \in Trail
       /\ layer[m] = "gone" =>
             /\ [op |-> "create", id |-> 0, of |-> m] \in Trail
             /\ \E r \in Trail : r.op \in {"delete", "prune", "merge"} /\ r.of = m
       /\ m \notin Living => \A r \in Trail : r.id # m

(***************************************************************************)
(* No row of the trail is ever lost or changed, but for the pointer of a   *)
(* memory that is deleted.                                                 *)
(***************************************************************************)
TrailOnlyGrows ==
    [][\A r \in Trail : r \in Trail' \/ [r EXCEPT !.id = 0] \in Trail']_vars

(***************************************************************************)
(* A memory rises only once it has been used often enough, whatever ids    *)
(* the model's reply names and whatever was touched while it was awaited.  *)
(***************************************************************************)
PromotionEarned ==
    [][\A m \in Ids :
          layer[m] \in DOMAIN Higher /\ layer'[m] \in {"long", "long_skill"}
             => used[m] >= Threshold]_vars

(***************************************************************************)
(* "migration failure is non-fatal (old schema still functional)"          *)
(* (client.js:97): a database that open() has opened has an audit table,   *)
(* which every write of the views needs.                                   *)
(***************************************************************************)
OpenMeansUsable == stage = "open" => CanAudit

=============================================================================
