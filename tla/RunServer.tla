------------------------------ MODULE RunServer ------------------------------
(***************************************************************************)
(* server.py: the local server's one current run.  Requests are served by  *)
(* a pool of threads, and pipelines and revisions go on in background      *)
(* threads after their response.  They share the dictionary current_run,   *)
(* of which the status decides who is admitted, the global                 *)
(* _current_orchestrator, through which a cancellation is delivered, and   *)
(* the metadata file of every finished document, which all of them read,   *)
(* change and write back whole.  Each lock is held for one step.           *)
(***************************************************************************)
EXTENDS Naturals, Sequences

CONSTANTS
    Run,            \* requests for a pipeline; each names its document too
    Revision,       \* requests to revise a finished document
    Archiver,       \* requests to archive or restore a finished document
    Nobody, NoRecord

ASSUME RunServerAssumption ==
    /\ Run \cap (Revision \cup Archiver) = {} /\ Revision \cap Archiver = {}
    /\ Nobody \notin Run

VARIABLES
    status,         \* current_run["status"]
    orchestrator,   \* _current_orchestrator: the run it belongs to
    asked,          \* the runs whose cancel event is set
    record,         \* record[d]: the metadata file of the document of run d
    pc,             \* where each request and its background thread is
    document,       \* document[c]: the document that c revises or archives
    copy,           \* copy[c]: the metadata c has read, with c's own changes
    number          \* number[v]: the version that revision v creates

vars == <<status, orchestrator, asked, record, pc, document, copy, number>>

Client == Run \cup Revision \cup Archiver
Editor == Revision \cup Archiver

Status == {"IDLE", "RUNNING", "COMPLETED", "FAILED", "CANCELLED"}
Places == {"new", "starting", "executing", "saving", "cleanup", "checked", "queueing",
           "queued", "announced", "marking", "reporting", "failing", "recording",
           "failed", "archiving", "ended"}

(* by: the request whose text or feedback the version carries.             *)
Version == [status : {"queued", "running", "ready", "failed"}, by : Run \cup Revision]
Record == [archived : BOOLEAN, versions : Seq(Version)] \cup {NoRecord}

Init ==
    /\ status = "IDLE" /\ orchestrator = Nobody /\ asked = {}
    /\ record = [d \in Run |-> NoRecord]
    /\ pc = [c \in Client |-> "new"]
    /\ document = [c \in Editor |-> Nobody]
    /\ copy = [c \in Editor |-> NoRecord]
    /\ number = [v \in Revision |-> 0]

Goes(c, place) == pc' = [pc EXCEPT ![c] = place]

(* append_revision(): the entry replaces the one with its number.          *)
AppendRevision(h, n, version) ==
    [h EXCEPT !.versions = IF n <= Len(@) THEN [@ EXCEPT ![n] = version]
                                          ELSE Append(@, version)]

HasStatus(h, n, some) == n \in 1..Len(h.versions) /\ h.versions[n].status \in some

(* _write_history_metadata(): the file becomes what the writer holds.      *)
Write(c, h) == record' = [record EXCEPT ![document[c]] = h]
-----------------------------------------------------------------------------
(* POST /api/run tests and sets the status under run_lock.                 *)
PostRun(r) ==
    /\ pc[r] = "new"
    /\ status # "RUNNING"
    /\ status' = "RUNNING"
    /\ Goes(r, "starting")
    /\ UNCHANGED <<orchestrator, asked, record, document, copy, number>>

(* run_pipeline_thread() has built its orchestrator and publishes it.      *)
StoreOrchestrator(r) ==
    /\ pc[r] = "starting"
    /\ orchestrator' = r
    /\ Goes(r, "executing")
    /\ UNCHANGED <<status, asked, record, document, copy, number>>

(* POST /api/cancel sets the event of whatever orchestrator is published,  *)
(* and answers "No pipeline is currently running" if none is.              *)
CancelPipeline ==
    /\ orchestrator # Nobody
    /\ orchestrator \notin asked
    /\ asked' = asked \cup {orchestrator}
    /\ UNCHANGED <<status, orchestrator, record, pc, document, copy, number>>

(* run_pipeline() returns: the run is COMPLETED before anything is saved.  *)
Completes(r) ==
    /\ pc[r] = "executing"
    /\ status' = "COMPLETED"
    /\ Goes(r, "saving")
    /\ UNCHANGED <<orchestrator, asked, record, document, copy, number>>

(* Fault: a cancelled run leaves the status as it found it.                *)
FaultyIsCancelled(r) ==
    /\ pc[r] = "executing" /\ r \in asked
    /\ Goes(r, "cleanup")
    /\ UNCHANGED <<status, orchestrator, asked, record, document, copy, number>>

IsCancelled(r) ==
    /\ pc[r] = "executing" /\ r \in asked
    /\ status' = "CANCELLED"
    /\ Goes(r, "cleanup")
    /\ UNCHANGED <<orchestrator, asked, record, document, copy, number>>

(* Any exception, while starting, in the pipeline or while saving.         *)
Fails(r) ==
    /\ pc[r] \in {"starting", "executing", "saving"}
    /\ status' = "FAILED"
    /\ Goes(r, "cleanup")
    /\ UNCHANGED <<orchestrator, asked, record, document, copy, number>>

InitialRevision(r) == [status |-> "ready", by |-> r]

(* The document is written to a metadata file of its own, as version 1.    *)
SaveMetadata(r) ==
    /\ pc[r] = "saving"
    /\ record' = [record EXCEPT ![r] =
                      [archived |-> FALSE, versions |-> <<InitialRevision(r)>>]]
    /\ Goes(r, "cleanup")
    /\ UNCHANGED <<status, orchestrator, asked, document, copy, number>>

(* Fault: only a run that was cancelled takes its orchestrator back.       *)
FaultyCleanUp(r) ==
    /\ pc[r] = "cleanup"
    /\ orchestrator' = IF r \in asked THEN Nobody ELSE orchestrator
    /\ Goes(r, "ended")
    /\ UNCHANGED <<status, asked, record, document, copy, number>>

(* The finally clause: no orchestrator is published any more, whosever it  *)
(* was.                                                                    *)
CleanUp(r) ==
    /\ pc[r] = "cleanup"
    /\ orchestrator' = Nobody
    /\ Goes(r, "ended")
    /\ UNCHANGED <<status, asked, record, document, copy, number>>
-----------------------------------------------------------------------------
(* create_revision() tests the status under the lock, and lets it go.      *)
CheckIdle(v, d) ==
    /\ pc[v] = "new"
    /\ status # "RUNNING"
    /\ document' = [document EXCEPT ![v] = d]
    /\ Goes(v, "checked")
    /\ UNCHANGED <<status, orchestrator, asked, record, copy, number>>

(* No such document, not its latest ready version, no section to revise.   *)
RefuseRevision(v) ==
    /\ pc[v] = "checked"
    /\ Goes(v, "ended")
    /\ UNCHANGED <<status, orchestrator, asked, record, document, copy, number>>

(* Fault: the next version is numbered by the count of the earlier ones.   *)
FaultyNextRevision(h) == Len(h.versions)
NextRevision(h) == Len(h.versions) + 1

ReadHistory(v) ==
    LET h == record[document[v]] IN
    /\ pc[v] = "checked"
    /\ h # NoRecord
    /\ \E n \in 1..Len(h.versions) : HasStatus(h, n, {"ready"})
    /\ copy' = [copy EXCEPT ![v] = h]
    /\ number' = [number EXCEPT ![v] = NextRevision(h)]
    /\ Goes(v, "queueing")
    /\ UNCHANGED <<status, orchestrator, asked, record, document>>

QueueRevision(v) ==
    /\ pc[v] = "queueing"
    /\ Write(v, AppendRevision(copy[v], number[v], [status |-> "queued", by |-> v]))
    /\ Goes(v, "queued")
    /\ UNCHANGED <<status, orchestrator, asked, document, copy, number>>

(* Only now is the server RUNNING, whatever it has begun meanwhile.        *)
AnnounceRevision(v) ==
    /\ pc[v] = "queued"
    /\ status' = "RUNNING"
    /\ Goes(v, "announced")
    /\ UNCHANGED <<orchestrator, asked, record, document, copy, number>>

(* _run_revision_thread() reads the file again and wants its entry queued. *)
ReadPending(v) ==
    LET h == record[document[v]] IN
    /\ pc[v] = "announced"
    /\ IF h # NoRecord /\ HasStatus(h, number[v], {"queued"})
       THEN copy' = [copy EXCEPT ![v] = h] /\ Goes(v, "marking")
       ELSE UNCHANGED copy /\ Goes(v, "failing")
    /\ UNCHANGED <<status, orchestrator, asked, record, document, number>>

MarkRunning(v) ==
    LET h == AppendRevision(copy[v], number[v],
                 [copy[v].versions[number[v]] EXCEPT !.status = "running"]) IN
    /\ pc[v] = "marking"
    /\ Write(v, h)
    /\ copy' = [copy EXCEPT ![v] = h]
    /\ Goes(v, "executing")
    /\ UNCHANGED <<status, orchestrator, asked, document, number>>

(* The patches are applied and pass; the metadata as it was read when the  *)
(* execution began is written back with the new version.                   *)
FinishRevision(v) ==
    /\ pc[v] = "executing"
    /\ Write(v, AppendRevision(copy[v], number[v], [status |-> "ready", by |-> v]))
    /\ Goes(v, "reporting")
    /\ UNCHANGED <<status, orchestrator, asked, document, copy, number>>

ReportRevision(v) ==
    /\ pc[v] = "reporting"
    /\ status' = "COMPLETED"
    /\ Goes(v, "ended")
    /\ UNCHANGED <<orchestrator, asked, record, document, copy, number>>

(* A patch that does not apply, a gate or a reviewer that refuses.         *)
RevisionFails(v) ==
    /\ pc[v] \in {"marking", "executing"}
    /\ Goes(v, "failing")
    /\ UNCHANGED <<status, orchestrator, asked, record, document, copy, number>>

ReadForFailure(v) ==
    LET h == record[document[v]] IN
    /\ pc[v] = "failing"
    /\ IF h # NoRecord THEN copy' = [copy EXCEPT ![v] = h] /\ Goes(v, "recording")
                       ELSE UNCHANGED copy /\ Goes(v, "failed")
    /\ UNCHANGED <<status, orchestrator, asked, record, document, number>>

RecordFailure(v) ==
    LET h == copy[v]
        n == number[v] IN
    /\ pc[v] = "recording"
    /\ Write(v, IF HasStatus(h, n, {"queued", "running"})
                THEN AppendRevision(h, n, [h.versions[n] EXCEPT !.status = "failed"])
                ELSE h)
    /\ Goes(v, "failed")
    /\ UNCHANGED <<status, orchestrator, asked, document, copy, number>>

ReportFailure(v) ==
    /\ pc[v] = "failed"
    /\ status' = "FAILED"
    /\ Goes(v, "ended")
    /\ UNCHANGED <<orchestrator, asked, record, document, copy, number>>
-----------------------------------------------------------------------------
(* The archive endpoints read the file and write it back with the flag.    *)
ReadForArchive(a, d) ==
    /\ pc[a] = "new"
    /\ record[d] # NoRecord
    /\ document' = [document EXCEPT ![a] = d]
    /\ copy' = [copy EXCEPT ![a] = record[d]]
    /\ Goes(a, "archiving")
    /\ UNCHANGED <<status, orchestrator, asked, record, number>>

WriteArchived(a, flag) ==
    /\ pc[a] = "archiving"
    /\ Write(a, [copy[a] EXCEPT !.archived = flag])
    /\ Goes(a, "ended")
    /\ UNCHANGED <<status, orchestrator, asked, document, copy, number>>

(* delete_history_item(), or hard_reset() arriving at this file.           *)
DeleteHistory(d) ==
    /\ record[d] # NoRecord
    /\ record' = [record EXCEPT ![d] = NoRecord]
    /\ UNCHANGED <<status, orchestrator, asked, pc, document, copy, number>>
-----------------------------------------------------------------------------
PipelineThread(r) ==
    \/ StoreOrchestrator(r) \/ Completes(r) \/ IsCancelled(r) \/ Fails(r)
    \/ SaveMetadata(r) \/ CleanUp(r)

RevisionThread(v) ==
    \/ ReadPending(v) \/ MarkRunning(v) \/ FinishRevision(v) \/ ReportRevision(v)
    \/ RevisionFails(v) \/ ReadForFailure(v) \/ RecordFailure(v) \/ ReportFailure(v)

CreateRevision(v) ==
    \/ \E d \in Run : CheckIdle(v, d)
    \/ RefuseRevision(v) \/ ReadHistory(v) \/ QueueRevision(v) \/ AnnounceRevision(v)

ArchiveItem(a) ==
    \/ \E d \in Run : ReadForArchive(a, d)
    \/ \E flag \in BOOLEAN : WriteArchived(a, flag)

Next ==
    \/ \E r \in Run : PostRun(r) \/ PipelineThread(r) \/ DeleteHistory(r)
    \/ \E v \in Revision : CreateRevision(v) \/ RevisionThread(v)
    \/ \E a \in Archiver : ArchiveItem(a)
    \/ CancelPipeline

Spec == Init /\ [][Next]_vars

(* Background threads are scheduled, and what they call returns or raises  *)
(* (for a pipeline that is Terminates of module Orchestrator).             *)
FairSpec ==
    /\ Spec
    /\ \A r \in Run : WF_vars(PipelineThread(r))
    /\ \A v \in Revision : WF_vars(RevisionThread(v))
-----------------------------------------------------------------------------
TypeOK ==
    /\ status \in Status
    /\ orchestrator \in Run \cup {Nobody}
    /\ asked \subseteq Run
    /\ record \in [Run -> Record]
    /\ pc \in [Client -> Places]
    /\ document \in [Editor -> Run \cup {Nobody}]
    /\ copy \in [Editor -> Record]
    /\ number \in [Revision -> Nat]

(* A request that has set the status to RUNNING and will still replace it. *)
Active(c) == IF c \in Run
             THEN pc[c] \in {"starting", "executing"}
             ELSE pc[c] \in {"announced", "marking", "executing", "reporting",
                             "failing", "recording", "failed"}

(* The server never refuses work for the sake of a thread that is gone:    *)
(* while it says RUNNING, a background thread is going to say how it       *)
(* ended, whichever threads overlap; and a cancellation is never delivered *)
(* to a run that has ended (run_pipeline_thread's handlers and finally).   *)
StatusIsHeld ==
    /\ status = "RUNNING" => \E c \in Client : Active(c)
    /\ orchestrator # Nobody =>
           pc[orchestrator] \in {"executing", "saving", "cleanup"}

(* The generated text of a document survives as its ready version 1, and   *)
(* with it something to export and to revise, in whatever order revisions, *)
(* their failures, archivers and deletions rewrite the file.               *)
FirstVersionKept ==
    \A d \in Run :
        record[d] # NoRecord =>
            HasStatus(record[d], 1, {"ready"}) /\ record[d].versions[1].by = d

(* The server comes back: it does not refuse further work for ever.        *)
RunningEnds == status = "RUNNING" ~> status # "RUNNING"

(* dev_docs/13_DOCUMENT_INTEGRITY...: a "snapshot of every ready version"  *)
(* is kept.  A ready version stays in the history of its document, as it   *)
(* is, until the document is deleted.                                      *)
ReadyVersionsKept ==
    [][\A d \in Run : record[d] # NoRecord /\ record'[d] # NoRecord =>
          \A n \in 1..Len(record[d].versions) :
              HasStatus(record[d], n, {"ready"}) =>
                  /\ n \in 1..Len(record'[d].versions)
                  /\ record'[d].versions[n] = record[d].versions[n]]_vars

(* server.py: "No pipeline is currently running" is what POST /api/cancel  *)
(* answers when no orchestrator is published.                              *)
RefusedCancelIsTrue ==
    orchestrator = Nobody => ~\E r \in Run : pc[r] = "executing"
=============================================================================
