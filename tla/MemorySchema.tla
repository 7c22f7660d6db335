---------------------------- MODULE MemorySchema ----------------------------
(***************************************************************************)
(* The schema of memory.db and its migrations: open() in                   *)
(* src/modules/thinkroid-memory/src/client.js.  There is no transaction    *)
(* around a migration: each SQL statement commits on its own, and the      *)
(* process can die, or a statement fail, between any two of them.  Two of  *)
(* the migrations rebuild the audit table by way of a copy.                *)
(***************************************************************************)
EXTENDS Naturals

CONSTANTS
    MaxMemories,    \* bound on the memories ever written
    MaxFaults       \* crashes and failing statements

Current == 4                    \* CURRENT_USER_VERSION
Ids == 1 .. MaxMemories         \* given in this order, AUTOINCREMENT
Operations == {"create", "update", "delete", "promote", "prune", "merge", "detect_loop"}

(* An audit row: the memory it points to, 0 for NULL, and the memory whose *)
(* content it keeps.                                                       *)
Row == [op : Operations, id : Ids \cup {0}, of : Ids \cup {0}]

VARIABLES
    version,    \* PRAGMA user_version
    tables,     \* the tables that not every version has
    rows,       \* the rows of the audit table and of its copy
    stage,      \* the statement open() executes next, "closed" or "open"
    faults

schemaVars == <<version, tables, rows, stage, faults>>

Audits == {"memory_audit", "memory_audit_new"}
Stages == {"closed", "schema", "create", "fill", "drop", "rename",
           "summaries", "stamp", "open"}

SchemaTypeOK ==
    /\ version \in 0 .. Current
    /\ tables \in SUBSET (Audits \cup {"summaries"})
    /\ rows \in [Audits -> SUBSET Row]
    /\ stage \in Stages
    /\ faults \in Nat

(* A new file, or one that an earlier release left, with a memory in it.   *)
OldRows == {[op |-> "create", id |-> 1, of |-> 1]}

SchemaInit ==
    /\ version \in 0 .. Current - 1
    /\ tables = CASE version = 0 -> {}
                  [] version \in {1, 2} -> {"memory_audit"}
                  [] OTHER -> {"memory_audit", "summaries"}
    /\ rows = [t \in Audits |-> IF version > 0 /\ t = "memory_audit" THEN OldRows ELSE {}]
    /\ stage = "closed"
    /\ faults = 0

(* Where open() begins, and where it goes on after a change of the version.*)
Migration(v) ==
    CASE v = 0 -> "schema"
      [] v = 1 -> "create"
      [] v = 2 -> "summaries"
      [] v = 3 -> "create"
      [] OTHER -> "open"

Stamped(v) == IF v = 0 THEN Current ELSE v + 1

OpenDb ==
    /\ stage = "closed"
    /\ stage' = Migration(version)
    /\ UNCHANGED <<version, tables, rows, faults>>

(* The rebuild of version 3 stands in a try block whose catch block goes   *)
(* on with the database as it is; elsewhere open() throws and the daemon   *)
(* exits.                                                                  *)
AfterError == IF version = 3 THEN "open" ELSE "closed"

ApplySchema ==
    /\ stage = "schema"
    /\ tables' = tables \cup {"memory_audit", "summaries"}
    /\ stage' = "stamp"
    /\ UNCHANGED <<version, rows, faults>>

CreateCopy ==
    /\ stage = "create"
    /\ "memory_audit_new" \notin tables
    /\ tables' = tables \cup {"memory_audit_new"}
    /\ stage' = "fill"
    /\ UNCHANGED <<version, rows, faults>>

(* CREATE TABLE has no IF NOT EXISTS here.                                 *)
CopyExists ==
    /\ stage = "create"
    /\ "memory_audit_new" \in tables
    /\ stage' = AfterError
    /\ UNCHANGED <<version, tables, rows, faults>>

FillCopy_Skipped == stage = "fill" /\ stage' = "drop" /\ UNCHANGED <<version, tables, rows, faults>>
FillCopy ==
    /\ stage = "fill"
    /\ rows' = [rows EXCEPT !["memory_audit_new"] = @ \cup rows["memory_audit"]]
    /\ stage' = "drop"
    /\ UNCHANGED <<version, tables, faults>>

DropOld ==
    /\ stage = "drop"
    /\ tables' = tables \ {"memory_audit"}
    /\ rows' = [rows EXCEPT !["memory_audit"] = {}]
    /\ stage' = "rename"
    /\ UNCHANGED <<version, faults>>

RenameCopy ==
    /\ stage = "rename"
    /\ tables' = (tables \ {"memory_audit_new"}) \cup {"memory_audit"}
    /\ rows' = [t \in Audits |->
                  IF t = "memory_audit" THEN rows["memory_audit_new"] ELSE {}]
    /\ stage' = "stamp"
    /\ UNCHANGED <<version, faults>>

AddSummaries ==
    /\ stage = "summaries"
    /\ tables' = tables \cup {"summaries"}
    /\ stage' = "stamp"
    /\ UNCHANGED <<version, rows, faults>>

Stamp ==
    /\ stage = "stamp"
    /\ version' = Stamped(version)
    /\ stage' = Migration(Stamped(version))
    /\ UNCHANGED <<tables, rows, faults>>

(* A statement fails: no space, or another process holds the file.         *)
StatementFails ==
    /\ stage \notin {"closed", "open"}
    /\ faults < MaxFaults
    /\ faults' = faults + 1
    /\ stage' = AfterError
    /\ UNCHANGED <<version, tables, rows>>

SchemaCrash ==
    /\ stage # "closed"
    /\ faults < MaxFaults
    /\ faults' = faults + 1
    /\ stage' = "closed"
    /\ UNCHANGED <<version, tables, rows>>

OpenStep ==
    \/ OpenDb \/ ApplySchema \/ CreateCopy \/ CopyExists \/ FillCopy \/ DropOld
    \/ RenameCopy \/ AddSummaries \/ Stamp \/ StatementFails

(* Every audited write of the views needs the table.                       *)
CanAudit == stage = "open" /\ "memory_audit" \in tables

=============================================================================
