------------------------------ MODULE RunHistory ------------------------------
(***************************************************************************)
(* The history of the local server: the metadata files of a run, the       *)
(* registry rows that are imported from them (core/registry) and the       *)
(* export directory of the run, under the requests of server.py that       *)
(* generate, export, archive, delete and reset, and under crashes.         *)
(*                                                                         *)
(* Nothing holds these three stores together.  Every request is a thread   *)
(* of its own, every operation of the registry a transaction of its own,   *)
(* and an import is a sequence of them.  A restart imports every file      *)
(* again, one after the other, before requests are served.                 *)
(***************************************************************************)
EXTENDS Naturals, Sequences, SequencesExt, RunRegistry

CONSTANTS
    Thread,         \* the threads that serve requests
    Boot,           \* the startup of the server
    MaxFiles,       \* bound: metadata files ever written for one run
    MaxRequests,    \* bound: requests
    MaxCrashes      \* bound: crashes of the server

ASSUME HistoryAssumption ==
    /\ RunId \subseteq Nat \ {0} /\ RunId # {}
    /\ Boot \notin Thread
    /\ MaxFiles \in Nat /\ MaxRequests \in Nat /\ MaxCrashes \in Nat

VARIABLES
    \* the file system
    files,      \* files[r][n]: the n-th metadata file written for run r
    named,      \* named[r]: how many file names r has used
    order,      \* order[r]: the files of r by the time of their last writing
    dirs,       \* dirs[r]: what lies in the directory of run r
    \* the registry
    db,
    \* the server process
    server,     \* "down", "starting" or "up"
    todo,       \* files the startup has yet to import
    running,    \* current_run["status"] = "RUNNING"
    current,    \* the run of current_run and the documents it names
    now,        \* the second on the clock
    req,        \* req[t]: where thread t is
    \* bookkeeping
    damaged,    \* runs with requests that overlapped or were cut short
    deleted,    \* runs of which a record was deleted or reset since the start
    wiped,      \* a reset has run alone, and nothing was asked since
    requests, crashes

disk == <<files, named, order, dirs>>
process == <<server, todo, running, current, now>>
notes == <<damaged, deleted, wiped, requests, crashes>>
historyVars == <<disk, db, process, req, notes>>

FileNo == 1..MaxFiles
Format == {"docx", "pdf"}

(* An exported document is called after the topic of a run, and lies in    *)
(* the directory of a run, which may be another one.                       *)
DocumentName == [dir : RunId \cup {0}, topic : RunId \cup {0}]
NoName == [dir |-> 0, topic |-> 0]

(* What a metadata file says of its run, as far as the registry reads it.  *)
(* main: the file is named after the run, not after an exported document.  *)
Content == [main : BOOLEAN, docx : DocumentName, pdf : DocumentName, archived : BOOLEAN]
NoContent == [main |-> FALSE, docx |-> NoName, pdf |-> NoName, archived |-> FALSE]
Names(data, k) == data[k] # NoName
NoFile == [exists |-> FALSE, data |-> NoContent]
File(data) == [exists |-> TRUE, data |-> data]

(* The directory of a run: its references, its documents by their topic.   *)
NoDirectory == [exists |-> FALSE, attachments |-> FALSE, has |-> {}]
IsEmpty(dir) == ~dir.attachments /\ dir.has = {}
NobodysRun == [run |-> 0, docx |-> NoName, pdf |-> NoName]
Idle == [pc |-> "idle", run |-> 0, file |-> 0, data |-> NoContent,
         kind |-> "none", topic |-> 0, op |-> "none", then |-> "idle"]

Exists(r, n) == n \in FileNo /\ files[r][n].exists
Written(r) == {n \in FileNo : Exists(r, n)}

InitHistory ==
    /\ files = [r \in RunId |-> [n \in FileNo |-> NoFile]]
    /\ named = [r \in RunId |-> 0]
    /\ order = [r \in RunId |-> <<>>]
    /\ dirs = [r \in RunId |-> NoDirectory]
    /\ db = EmptyDatabase
    /\ server = "up" /\ todo = {} /\ running = FALSE
    /\ now \in {r \in RunId : \A s \in RunId : r <= s}
    /\ current = NobodysRun
    /\ req = [t \in Thread \cup {Boot} |-> Idle]
    /\ damaged = {} /\ deleted = {} /\ wiped = FALSE
    /\ requests = 0 /\ crashes = 0
-----------------------------------------------------------------------------
(* The threads that are busy with run r.                                   *)
Busy(r) == {t \in Thread : req[t].pc # "idle" /\ req[t].run \in {r, 0}}

(* A request arrives at thread t; it marks the runs it shares with others. *)
Ask(t, r, state) ==
    /\ server = "up" /\ req[t].pc = "idle"
    /\ requests < MaxRequests
    /\ requests' = requests + 1
    /\ req' = [req EXCEPT ![t] = state]
    /\ damaged' = damaged \cup
          {s \in RunId : (r = 0 \/ s = r) /\ Busy(s) # {}}
    /\ wiped' = FALSE
    /\ UNCHANGED crashes

Goto(t, pc) == req' = [req EXCEPT ![t].pc = pc]
Done(t) == req' = [req EXCEPT ![t] = Idle]

(* The import of file n of run r by thread t, which goes on at "then".     *)
Importing(r, n, then) ==
    [Idle EXCEPT !.pc = "open", !.run = r, !.file = n, !.then = then]

WriteFile(r, n, data) ==
    /\ files' = [files EXCEPT ![r][n] = File(data)]
    /\ order' = [order EXCEPT ![r] = Append(Remove(@, n), n)]

RemoveFile(r, n) ==
    /\ files' = [files EXCEPT ![r][n] = NoFile]
    /\ order' = [order EXCEPT ![r] = Remove(@, n)]

(* A new file: its name carries the second, and no name is used twice.     *)
CreateFile(r, data) ==
    /\ named[r] < MaxFiles
    /\ named' = [named EXCEPT ![r] = @ + 1]
    /\ WriteFile(r, named[r] + 1, data)

(* _metadata_for_run_id(): the record of r that was written last.          *)
Latest(r) == IF order[r] = <<>> THEN 0 ELSE Last(order[r])
-----------------------------------------------------------------------------
(* import_metadata_json(): the operations that follow the look-up of the   *)
(* run, each a transaction of its own; the documents are added that the    *)
(* record names.                                                           *)
FirstOp(known) == IF known THEN "update" ELSE "create"

Addition(data) ==
    IF Names(data, "docx") THEN "docx" ELSE IF Names(data, "pdf") THEN "pdf" ELSE "json"

(* Fault: the artifacts of an earlier import stay.                         *)
FaultyNextOp(op, data) ==
    CASE op = "update" -> "clear_snapshots"
      [] op = "clear_snapshots" -> "clear_sources"
      [] op \in {"create", "clear_sources"} -> "snapshot"
      [] op = "snapshot" -> Addition(data)
      [] op = "docx" -> IF Names(data, "pdf") THEN "pdf" ELSE "json"
      [] op = "pdf" -> "json"
      [] OTHER -> "none"

NextOp(op, data) ==
    CASE op = "update" -> "clear_artifacts"
      [] op = "clear_artifacts" -> "clear_snapshots"
      [] op = "clear_snapshots" -> "clear_sources"
      [] op \in {"create", "clear_sources"} -> "snapshot"
      [] op = "snapshot" -> Addition(data)
      [] op = "docx" -> IF Names(data, "pdf") THEN "pdf" ELSE "json"
      [] op = "pdf" -> "json"
      [] OTHER -> "none"

(* The import is over, and its request goes on.                            *)
GoOn(q) == [Idle EXCEPT !.pc = q.then, !.run = q.run]

(* The file is read; if it is gone, nothing is imported.                   *)
OpenFile(t) ==
    LET q == req[t] IN
    /\ q.pc = "open"
    /\ IF Exists(q.run, q.file)
       THEN req' = [req EXCEPT ![t] = [q EXCEPT !.pc = "lookup", !.data = files[q.run][q.file].data]]
       ELSE req' = [req EXCEPT ![t] = GoOn(q)]
    /\ UNCHANGED <<disk, db, process, notes>>

(* store.get_run()                                                         *)
LookUp(t) ==
    LET q == req[t] IN
    /\ q.pc = "lookup"
    /\ req' = [req EXCEPT ![t] = [q EXCEPT !.pc = "store", !.op = FirstOp(Has(db, q.run))]]
    /\ UNCHANGED <<disk, db, process, notes>>

ImportedRow(q) == [exists |-> TRUE, status |-> "succeeded", file |-> q.file,
                   archived |-> q.data.archived]

Perform(q) ==
    CASE q.op = "update" -> UpdateRun(db, q.run, ImportedRow(q))
      [] q.op = "create" -> CreateRun(db, q.run, ImportedRow(q))
      [] q.op = "clear_artifacts" -> DeleteRunArtifacts(db, q.run)
      [] q.op = "clear_snapshots" -> DeleteRunSnapshots(db, q.run)
      [] q.op = "clear_sources" -> DeleteRunSources(db, q.run)
      [] q.op = "snapshot" -> AddRuntimeSnapshot(db, q.run)
      [] OTHER -> AddArtifact(db, q.run, q.op)

(* A second row for the run, or a relation of a row that is gone.          *)
Refused(q) == IF q.op = "create" THEN Has(db, q.run)
              ELSE q.op \in Kind /\ ~Has(db, q.run)

(* One transaction of the store; the error of one ends the import.         *)
StoreStep(t) ==
    LET q == req[t]
        next == NextOp(q.op, q.data)
    IN
    /\ q.pc = "store"
    /\ db' = Perform(q)
    /\ IF Refused(q) \/ next = "none"
       THEN req' = [req EXCEPT ![t] = GoOn(q)]
       ELSE req' = [req EXCEPT ![t] = [q EXCEPT !.op = next]]
    /\ UNCHANGED <<disk, process, notes>>

Import(t) == OpenFile(t) \/ LookUp(t) \/ StoreStep(t)
-----------------------------------------------------------------------------
(* POST /api/run and run_pipeline_thread(): the run's row, its directory,  *)
(* its record and its import.                                              *)
RequestRun(t) ==
    /\ ~running
    /\ Ask(t, now, [Idle EXCEPT !.pc = "register", !.run = now])
    /\ running' = TRUE
    /\ current' = [NobodysRun EXCEPT !.run = now]
    /\ UNCHANGED <<disk, db, server, todo, now, deleted>>

(* Orchestrator.run_pipeline() registers the run and its agents; an error  *)
(* of the registry is only logged.                                         *)
Register(t) ==
    LET r == req[t].run IN
    /\ req[t].pc = "register"
    /\ db' = AddAgent(CreateRun(db, r, RunningRow), r)
    /\ damaged' = IF Has(db, r) THEN damaged \cup {r} ELSE damaged
    /\ Goto(t, "attach")
    /\ UNCHANGED <<disk, process, deleted, wiped, requests, crashes>>

(* The snapshot of its template; the references of the request, if there   *)
(* are any, are saved in the directory of the run and recorded.            *)
Attach(t) ==
    LET r == req[t].run
        known == AddRuntimeSnapshot(db, r)
    IN
    /\ req[t].pc = "attach"
    /\ \/ db' = known /\ UNCHANGED dirs
       \/ /\ db' = AddArtifact(AddSource(known, r), r, "attachment")
          /\ dirs' = [dirs EXCEPT ![r] = [@ EXCEPT !.exists = TRUE, !.attachments = TRUE]]
    /\ Goto(t, "generate")
    /\ UNCHANGED <<files, named, order, process, notes>>

(* Sections and evaluations while it generates, the status at its end; a   *)
(* cancelled run goes the way of a failed one.                             *)
Generate(t) ==
    LET r == req[t].run IN
    /\ req[t].pc = "generate"
    /\ db' = AddEvaluation(AddSection(db, r), r)
    /\ Goto(t, "finish")
    /\ UNCHANGED <<disk, process, notes>>

Finish(t, status) ==
    /\ req[t].pc \in {"attach", "generate", "finish"}
    /\ status = "succeeded" => req[t].pc = "finish"
    /\ db' = UpdateRunStatus(db, req[t].run, status)
    /\ Goto(t, IF status = "succeeded" THEN "complete" ELSE "fail")
    /\ UNCHANGED <<disk, process, notes>>

(* The status of the server says so before anything is saved or removed.   *)
Announce(t) ==
    /\ req[t].pc \in {"complete", "fail"}
    /\ running' = FALSE
    /\ Goto(t, IF req[t].pc = "complete" THEN "save" ELSE "discard")
    /\ UNCHANGED <<disk, db, server, todo, current, now, notes>>

SaveRecord(t) ==
    LET r == req[t].run IN
    /\ req[t].pc = "save"
    /\ CreateFile(r, [NoContent EXCEPT !.main = TRUE])
    /\ req' = [req EXCEPT ![t] = Importing(r, named[r] + 1, "tidy")]
    /\ UNCHANGED <<dirs, db, process, notes>>

(* _cleanup_run_directory()                                                *)
CleanUpDirectory(t) ==
    LET r == req[t].run IN
    /\ req[t].pc \in {"tidy", "discard"}
    /\ dirs' = IF req[t].pc = "discard" \/ IsEmpty(dirs[r])
               THEN [dirs EXCEPT ![r] = NoDirectory] ELSE dirs
    /\ Done(t)
    /\ UNCHANGED <<files, named, order, db, process, notes>>

Pipeline(t) ==
    \/ Register(t) \/ Attach(t) \/ Generate(t) \/ Announce(t) \/ SaveRecord(t) \/ CleanUpDirectory(t)
    \/ \E status \in {"succeeded", "failed"} : Finish(t, status)
-----------------------------------------------------------------------------
(* POST /api/export/docx and /pdf for run r: of the server's own draft, or *)
(* of the draft of r that a page sends ("own" or not).  The id is whatever *)
(* the request says: the current run's, or that of any run that is in the  *)
(* history or was, when the page was loaded.                               *)
InHistory(r) == Has(db, r) \/ Written(r) # {} \/ (r \in deleted /\ named[r] > 0)

PostExport(t, r, k, own) ==
    /\ r = current.run \/ InHistory(r)
    /\ own => current.run # 0 /\ ~running
    /\ Ask(t, r, [Idle EXCEPT !.pc = "render", !.run = r, !.kind = k,
                              !.topic = IF own THEN current.run ELSE r,
                              !.then = IF own THEN "own" ELSE "page"])
    /\ UNCHANGED <<disk, db, process, deleted>>

(* _prepare_export() makes the directory, the exporter the document, and   *)
(* current_run is told of it, whichever run it is by now.                  *)
RenderExport(t) ==
    LET q == req[t] IN
    /\ q.pc = "render"
    /\ dirs' = [dirs EXCEPT ![q.run] =
                   [@ EXCEPT !.exists = TRUE, !.has = @ \cup {<<q.kind, q.topic>>}]]
    /\ current' = IF q.then = "own"
                  THEN [current EXCEPT ![q.kind] = [dir |-> q.run, topic |-> q.topic]]
                  ELSE current
    /\ Goto(t, "describe")
    /\ UNCHANGED <<files, named, order, db, server, todo, running, now, notes>>

(* _write_export_metadata(): a record of its own, which is not imported;   *)
(* for the other format it names the document of current_run, also when    *)
(* that is another run.                                                    *)
NamedDocument(q, k) == IF k = q.kind THEN [dir |-> q.run, topic |-> q.topic] ELSE current[k]

DescribeExport(t) ==
    LET q == req[t] IN
    /\ q.pc = "describe"
    /\ CreateFile(q.run, [NoContent EXCEPT !.docx = NamedDocument(q, "docx"),
                                           !.pdf = NamedDocument(q, "pdf")])
    /\ req' = [req EXCEPT ![t] = IF Exists(q.run, Latest(q.run))
                                 THEN [Idle EXCEPT !.pc = "link", !.run = q.run,
                                                   !.file = Latest(q.run)]
                                 ELSE Idle]
    /\ UNCHANGED <<dirs, db, process, notes>>

(* The record that was the latest before is read again; append_revision()  *)
(* changes its newest revision, which is nothing that the registry reads.  *)
ReadLinked(t) ==
    LET q == req[t] IN
    /\ q.pc = "link"
    /\ req' = [req EXCEPT ![t] = IF Exists(q.run, q.file)
                                 THEN [q EXCEPT !.pc = "rewrite",
                                         !.data = files[q.run][q.file].data]
                                 ELSE Idle]
    /\ UNCHANGED <<disk, db, process, notes>>

(* _write_history_metadata(): the record is written back whole, with what  *)
(* was read of it, and imported.                                           *)
Rewrite(t) ==
    LET q == req[t] IN
    /\ q.pc = "rewrite"
    /\ WriteFile(q.run, q.file, q.data)
    /\ req' = [req EXCEPT ![t] = Importing(q.run, q.file, "idle")]
    /\ UNCHANGED <<named, dirs, db, process, notes>>

(* POST /api/history/{id}/archive and /unarchive: read, change, write.     *)
PostArchive(t, r, n, value) ==
    /\ Exists(r, n)
    /\ Ask(t, r, [Idle EXCEPT !.pc = "rewrite", !.run = r, !.file = n,
                    !.data = [files[r][n].data EXCEPT !.archived = value]])
    /\ UNCHANGED <<disk, db, process, deleted>>
-----------------------------------------------------------------------------
(* DELETE /api/history/{id}: the documents the record names, the row, the  *)
(* directory if the record is named after the run, and the record itself.  *)
PostDelete(t, r, n) ==
    /\ Exists(r, n) \/ (n = 0 /\ Has(db, r) /\ GetRun(db, r).file = 0)
    /\ Ask(t, r, [Idle EXCEPT !.pc = "delete_assets", !.run = r, !.file = n,
                    !.data = IF n = 0 THEN [NoContent EXCEPT !.main = TRUE]
                             ELSE files[r][n].data])
    /\ deleted' = deleted \cup {r}
    /\ UNCHANGED <<disk, db, process>>

(* _delete_export_asset(): from the directory that the record says.        *)
DeleteAssets(t) ==
    LET named_in(r) == {k \in Format : req[t].data[k].dir = r} IN
    /\ req[t].pc = "delete_assets"
    /\ dirs' = [r \in RunId |-> [dirs[r] EXCEPT !.has =
                  @ \ {<<k, req[t].data[k].topic>> : k \in named_in(r)}]]
    /\ Goto(t, "delete_row")
    /\ UNCHANGED <<files, named, order, db, process, notes>>

DeleteRow(t) ==
    /\ req[t].pc = "delete_row"
    /\ db' = DeleteRun(db, req[t].run)
    /\ Goto(t, IF req[t].data.main THEN "delete_dir" ELSE "delete_file")
    /\ UNCHANGED <<disk, process, notes>>

DeleteDir(t) ==
    /\ req[t].pc = "delete_dir"
    /\ dirs' = [dirs EXCEPT ![req[t].run] = NoDirectory]
    /\ Goto(t, "delete_file")
    /\ UNCHANGED <<files, named, order, db, process, notes>>

DeleteFile(t) ==
    LET q == req[t] IN
    /\ q.pc = "delete_file"
    /\ IF Exists(q.run, q.file) THEN RemoveFile(q.run, q.file) ELSE UNCHANGED <<files, order>>
    /\ Done(t)
    /\ UNCHANGED <<named, dirs, db, process, notes>>

Delete(t) == DeleteAssets(t) \/ DeleteRow(t) \/ DeleteDir(t) \/ DeleteFile(t)

(* POST /api/history/reset: the tables, the records and the directories.   *)
PostReset(t) ==
    /\ Ask(t, 0, [Idle EXCEPT !.pc = "reset_tables"])
    /\ deleted' = RunId
    /\ UNCHANGED <<disk, db, process>>

ResetTables(t) ==
    /\ req[t].pc = "reset_tables"
    /\ db' = EmptyDatabase
    /\ Goto(t, "reset_files")
    /\ UNCHANGED <<disk, process, notes>>

(* Fault: the records stay, as if the tables were all there is.            *)
FaultyResetFiles(t) ==
    /\ req[t].pc = "reset_files"
    /\ Goto(t, "reset_dirs")
    /\ UNCHANGED <<disk, db, process, notes>>

ResetFiles(t) ==
    /\ req[t].pc = "reset_files"
    /\ files' = [r \in RunId |-> [n \in FileNo |-> NoFile]]
    /\ order' = [r \in RunId |-> <<>>]
    /\ Goto(t, "reset_dirs")
    /\ UNCHANGED <<named, dirs, db, process, notes>>

ResetDirs(t) ==
    /\ req[t].pc = "reset_dirs"
    /\ dirs' = [r \in RunId |-> NoDirectory]
    /\ Done(t)
    /\ wiped' = (damaged = {} /\ \A u \in Thread \ {t} : req[u].pc = "idle")
    /\ UNCHANGED <<files, named, order, db, process, damaged, deleted, requests, crashes>>

Reset(t) == ResetTables(t) \/ ResetFiles(t) \/ ResetDirs(t)
-----------------------------------------------------------------------------
(* The process ends; what the threads were doing stays half done.          *)
Crash ==
    /\ server # "down" /\ crashes < MaxCrashes
    /\ crashes' = crashes + 1
    /\ server' = "down" /\ todo' = {} /\ running' = FALSE
    /\ current' = NobodysRun
    /\ req' = [t \in Thread \cup {Boot} |-> Idle]
    /\ damaged' = damaged \cup (IF server = "starting" THEN RunId ELSE {r \in RunId : Busy(r) # {}})
    /\ UNCHANGED <<disk, db, now, deleted, wiped, requests>>

(* Fault: only records that are named after their run are imported.        *)
FaultyStart ==
    /\ server = "down"
    /\ server' = "starting"
    /\ dirs' = [r \in RunId |-> IF IsEmpty(dirs[r]) THEN NoDirectory ELSE dirs[r]]
    /\ todo' = {x \in RunId \X FileNo : Exists(x[1], x[2]) /\ files[x[1]][x[2]].data.main}
    /\ UNCHANGED <<files, named, order, db, running, current, now, req, notes>>

(* lifespan(): empty directories are removed, then every record imported,  *)
(* in the order in which the directory lists them.                         *)
Start ==
    /\ server = "down"
    /\ server' = "starting"
    /\ dirs' = [r \in RunId |-> IF IsEmpty(dirs[r]) THEN NoDirectory ELSE dirs[r]]
    /\ todo' = {x \in RunId \X FileNo : Exists(x[1], x[2])}
    /\ UNCHANGED <<files, named, order, db, running, current, now, req, notes>>

ImportNext(r, n) ==
    /\ server = "starting" /\ req[Boot].pc = "idle"
    /\ <<r, n>> \in todo
    /\ todo' = todo \ {<<r, n>>}
    /\ req' = [req EXCEPT ![Boot] = Importing(r, n, "idle")]
    /\ UNCHANGED <<disk, db, server, running, current, now, notes>>

(* A run without a record keeps what its row says.                         *)
Serve ==
    /\ server = "starting" /\ req[Boot].pc = "idle" /\ todo = {}
    /\ server' = "up"
    /\ damaged' = {r \in damaged : Written(r) = {}}
    /\ deleted' = {r \in deleted : Written(r) = {}}
    /\ UNCHANGED <<disk, db, todo, running, current, now, req, wiped, requests, crashes>>

Tick ==
    /\ now + 1 \in RunId
    /\ now' = now + 1
    /\ UNCHANGED <<disk, db, server, todo, running, current, req, notes>>

NextHistory ==
    \/ \E t \in Thread :
          \/ RequestRun(t) \/ Pipeline(t) \/ PostReset(t) \/ Reset(t) \/ Delete(t)
          \/ RenderExport(t) \/ DescribeExport(t) \/ ReadLinked(t) \/ Rewrite(t)
          \/ \E r \in RunId, k \in Format, own \in BOOLEAN : PostExport(t, r, k, own)
          \/ \E r \in RunId, n \in FileNo, value \in BOOLEAN : PostArchive(t, r, n, value)
          \/ \E r \in RunId, n \in 0..MaxFiles : PostDelete(t, r, n)
    \/ \E t \in Thread \cup {Boot} : Import(t)
    \/ Crash \/ Start \/ Serve \/ Tick
    \/ \E r \in RunId, n \in FileNo : ImportNext(r, n)

HistorySpec == InitHistory /\ [][NextHistory]_historyVars
-----------------------------------------------------------------------------
(* Every variable keeps its type, and no relation outlives its row.        *)
HistoryTypeOK ==
    /\ files \in [RunId -> [FileNo -> [exists : BOOLEAN, data : Content]]]
    /\ named \in [RunId -> 0..MaxFiles]
    /\ \A r \in RunId : ToSet(order[r]) = Written(r) /\ Len(order[r]) <= named[r]
    /\ dirs \in [RunId -> [exists : BOOLEAN, attachments : BOOLEAN, has : SUBSET (Format \X RunId)]]
    /\ IsDatabase(db, 0..MaxFiles)
    /\ \A r \in RunId : ~dirs[r].exists => IsEmpty(dirs[r])
    /\ server \in {"down", "starting", "up"}
    /\ todo \subseteq RunId \X FileNo
    /\ server # "up" => \A t \in Thread : req[t] = Idle
    /\ damaged \subseteq RunId /\ deleted \subseteq RunId

(* Nobody works on run r, and nobody's work on it met another's.           *)
Settled(r) == server = "up" /\ Busy(r) = {} /\ r \notin damaged

(* What the registry must hold of a record: the kinds that are imported.   *)
ImportedKind == ArtifactType \cup {"snapshot", "source"}
RelationsOf(data) ==
    [k \in ImportedKind |-> IF \/ k \in {"source", "attachment"}
                               \/ k \in Format /\ ~Names(data, k) THEN 0 ELSE 1]

(* Once requests and restarts are through, the row of a run agrees with a  *)
(* record that still exists, and its relations are exactly those of that   *)
(* record: none twice, none missing, none of another import.               *)
RegistryMirrorsFiles ==
    \A r \in RunId : Settled(r) /\ GetRun(db, r).file # 0 =>
        LET n == GetRun(db, r).file IN
        /\ Exists(r, n)
        /\ GetRun(db, r).archived = files[r][n].data.archived
        /\ \A k \in ImportedKind : Relations(db, r, k) = RelationsOf(files[r][n].data)[k]

(* The documents of a record are where the registry looks for them: in the *)
(* directory of the run, under the last part of the name.                  *)
InDirectory(r, data, k) == <<k, data[k].topic>> \in dirs[r].has

(* The record that the row of a settled run was imported from.             *)
Imported(r) == files[r][GetRun(db, r).file].data

(* get_history(): a run is listed if it has a row, and the document that   *)
(* its artifact names, if any, is in the directory of the run.             *)
Listed(r) ==
    /\ r \in ListRuns(db)
    /\ Relations(db, r, "docx") > 0 => InDirectory(r, Imported(r), "docx")

(* A run whose records and documents are on the disk is in the history,    *)
(* also after a crash in the middle of saving it, whichever runs were      *)
(* exported before or since, unless a record of it was deleted or reset:   *)
(* what is exported of such a run is listed after the next start only.     *)
(* (A record that names a document of another run's directory is not what  *)
(* get_history() asks for, see OnlyMissingAreDropped.)                     *)
Complete(r) ==
    /\ Written(r) # {}
    /\ \A n \in Written(r) : LET data == files[r][n].data IN
          Names(data, "docx") => data.docx.dir = r /\ InDirectory(r, data, "docx")

FinishedIsListed ==
    \A r \in RunId : Settled(r) /\ r \notin deleted /\ Complete(r) => Listed(r)

(* server.py:2027: get_history() filters out "DOCX files that no longer    *)
(* exist on disk (matching legacy logic)".  A run that has a row is then   *)
(* left out only if the document its record names is gone.                 *)
OnlyMissingAreDropped ==
    \A r \in RunId : Settled(r) /\ Has(db, r) /\ GetRun(db, r).file # 0 /\ ~Listed(r) =>
        ~InDirectory(Imported(r).docx.dir, Imported(r), "docx")

(* After a reset that met nobody there is nothing left, and a restart does *)
(* not bring anything back.                                                *)
ResetIsFinal ==
    wiped => ListRuns(db) = {} /\ \A r \in RunId : Written(r) = {} /\ ~dirs[r].exists

(* docs/ARCHITECTURE.md: the registry is the single source of truth of a   *)
(* run's metadata.  A restart then must not change what it says of a run   *)
(* that nobody was working on.                                             *)
RestartKeepsRow ==
    [][\A r \in RunId : server = "starting" /\ r \notin damaged /\ GetRun(db, r).file # 0
           => GetRun(db, r)'.archived = GetRun(db, r).archived]_historyVars

(* docs/REGISTRY_SYSTEM.md: sources holds all sources that were used.  A   *)
(* finished run that has attachments has the sources they were read from.  *)
SourcesAreKept ==
    \A r \in RunId : Settled(r) /\ GetRun(db, r).status = "succeeded" /\ dirs[r].attachments
        => Relations(db, r, "source") > 0
=============================================================================
