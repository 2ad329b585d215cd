----------------------------- MODULE RunRegistry ------------------------------
(***************************************************************************)
(* core/registry: the SQLite store of runs.  A database is a value, each   *)
(* method of SQLiteRegistryStore an operator that gives the database its   *)
(* transaction leaves behind; a transaction that fails leaves it as it is. *)
(***************************************************************************)
EXTENDS Naturals

CONSTANT
    RunId           \* the ids of the runs

ArtifactType == {"docx", "pdf", "json", "attachment"}

(* The tables that refer to a run, the artifacts by their type.            *)
Kind == ArtifactType \cup {"agent", "snapshot", "section", "source", "evaluation"}

RowStatus == {"running", "succeeded", "failed", "cancelled"}

(* A row of runs; file is 0 as long as no metadata file was imported.      *)
NoRow == [exists |-> FALSE, status |-> "none", file |-> 0, archived |-> FALSE]
RunningRow == [NoRow EXCEPT !.exists = TRUE, !.status = "running"]
NoRelations == [k \in Kind |-> 0]

EmptyDatabase == [rows |-> [r \in RunId |-> NoRow], rels |-> [r \in RunId |-> NoRelations]]

(* get_run() and list_runs(): what the runs table holds.                   *)
GetRun(db, r) == db.rows[r]
Has(db, r) == GetRun(db, r).exists
ListRuns(db) == {r \in RunId : Has(db, r)}

(* get_run_artifacts(), get_run_snapshots() and their like.                *)
Relations(db, r, k) == db.rels[r][k]

(* run_id is unique, so a second row is refused.                           *)
CreateRun(db, r, row) ==
    IF Has(db, r) THEN db ELSE [db EXCEPT !.rows[r] = row]

UpdateRun(db, r, row) ==
    IF Has(db, r) THEN [db EXCEPT !.rows[r] = row] ELSE db

UpdateRunStatus(db, r, status) ==
    IF Has(db, r) THEN [db EXCEPT !.rows[r].status = status] ELSE db

(* The foreign key refuses a relation of a run that has no row.            *)
Insert(db, r, k) ==
    IF Has(db, r)
    THEN [db EXCEPT !.rels[r] = [@ EXCEPT ![k] = Relations(db, r, k) + 1]]
    ELSE db

AddAgent(db, r) == Insert(db, r, "agent")
AddArtifact(db, r, type) == Insert(db, r, type)
AddRuntimeSnapshot(db, r) == Insert(db, r, "snapshot")
AddSection(db, r) == Insert(db, r, "section")
AddSource(db, r) == Insert(db, r, "source")
AddEvaluation(db, r) == Insert(db, r, "evaluation")

Clear(db, r, kinds) ==
    [db EXCEPT !.rels[r] = [k \in Kind |-> IF k \in kinds THEN 0 ELSE @[k]]]

(* delete_run(): the relations go with the row.                            *)
DeleteRun(db, r) == Clear([db EXCEPT !.rows[r] = NoRow], r, Kind)

DeleteRunArtifacts(db, r) == Clear(db, r, ArtifactType)
DeleteRunSnapshots(db, r) == Clear(db, r, {"snapshot"})
DeleteRunSources(db, r) == Clear(db, r, {"source"})

(* The types of the columns, and no relation without its row.              *)
IsDatabase(db, files) ==
    \A r \in RunId :
        /\ GetRun(db, r).status \in RowStatus \cup {"none"}
        /\ GetRun(db, r).file \in files
        /\ db.rels[r] \in [Kind -> Nat]
        /\ ~Has(db, r) => GetRun(db, r) = NoRow /\ db.rels[r] = NoRelations
=============================================================================
