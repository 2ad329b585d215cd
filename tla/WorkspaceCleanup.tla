--------------------------- MODULE WorkspaceCleanup ---------------------------
(***************************************************************************)
(* The cleanup of one workspace: workspaces/cleanup.py, its router, the    *)
(* storage of artifacts and the rows of jobs, while the service goes on    *)
(* creating jobs, reporting on them and storing what they produce.         *)
(*                                                                         *)
(* A confirmation deletes the objects one by one, then the rows in one     *)
(* transaction, whose statements each see what is committed by then; a row *)
(* that refers to a job holds the job.  It may be repeated, by a client    *)
(* that got no answer even while the first one is still at work.           *)
(***************************************************************************)
EXTENDS Naturals, FiniteSets

CONSTANTS
    JobId,          \* jobs ever created in the workspace
    ArtifactId,     \* artifacts ever stored; also the keys of their objects
    Request,        \* cleanup requests
    Confirmer,      \* threads that serve confirmations
    Nothing,
    MaxReports      \* bound: rows of a job's events and the like

ASSUME CleanupAssumption ==
    /\ Nothing \notin JobId \cup ArtifactId \cup Request
    /\ MaxReports \in Nat

VARIABLES
    jobs,           \* rows of jobs
    reports,        \* reports[j]: rows that refer to job j, from 1 upwards
    artifacts,      \* artifacts[a]: the job of the artifact's row, or Nothing
    usage,          \* usage[j]: what the usage recorded for job j refers to
    objects,        \* keys in the storage
    storing,        \* artifacts whose object is written, and their jobs
    cleanup,        \* cleanup[q]: "none", "pending" or "completed"
    conf,           \* conf[c]: where thread c is
    \* bookkeeping
    used,           \* jobs, artifacts and usage that existed at some time
    overlapped      \* two confirmations were at work at once

rows == <<jobs, reports, artifacts, usage>>
vars == <<rows, objects, storing, cleanup, conf, used, overlapped>>

Idle == [pc |-> "idle", request |-> Nothing, keys |-> {}, found |-> {},
         unlinked |-> {}, seen |-> [j \in JobId |-> 0]]
Stored == {a \in ArtifactId : artifacts[a] # Nothing}

Init ==
    /\ jobs = {} /\ reports = [j \in JobId |-> 0]
    /\ artifacts = [a \in ArtifactId |-> Nothing]
    /\ usage = [j \in JobId |-> "none"]
    /\ objects = {} /\ storing = [a \in ArtifactId |-> Nothing]
    /\ cleanup = [q \in Request |-> "none"]
    /\ conf = [c \in Confirmer |-> Idle]
    /\ used = {} /\ overlapped = FALSE
-----------------------------------------------------------------------------
(* create_job_with_outbox(): a job with its first event.                   *)
CreateJob(j) ==
    /\ j \notin used
    /\ jobs' = jobs \cup {j} /\ used' = used \cup {j}
    /\ reports' = [reports EXCEPT ![j] = 1]
    /\ UNCHANGED <<artifacts, usage, objects, storing, cleanup, conf, overlapped>>

(* Another row of an attempt, a stage, a checkpoint, an event, a delivery. *)
Report(j) ==
    /\ j \in jobs /\ reports[j] < MaxReports
    /\ reports' = [reports EXCEPT ![j] = @ + 1]
    /\ UNCHANGED <<jobs, artifacts, usage, objects, storing, cleanup, conf, used, overlapped>>

(* A worker accounts for what the job has used.                            *)
RecordUsage(j) ==
    /\ j \in jobs /\ usage[j] = "none"
    /\ usage' = [usage EXCEPT ![j] = "job"]
    /\ UNCHANGED <<jobs, reports, artifacts, objects, storing, cleanup, conf, used, overlapped>>

(* upload() writes the object under a key of its own; the row follows, and *)
(* is refused when the job is gone.                                        *)
Upload(a, j) ==
    /\ a \notin used /\ j \in jobs
    /\ objects' = objects \cup {a} /\ used' = used \cup {a}
    /\ storing' = [storing EXCEPT ![a] = j]
    /\ UNCHANGED <<rows, cleanup, conf, overlapped>>

InsertArtifact(a) ==
    /\ storing[a] # Nothing
    /\ artifacts' = [artifacts EXCEPT ![a] = IF storing[a] \in jobs THEN storing[a] ELSE Nothing]
    /\ storing' = [storing EXCEPT ![a] = Nothing]
    /\ UNCHANGED <<jobs, reports, usage, objects, cleanup, conf, used, overlapped>>
-----------------------------------------------------------------------------
(* POST /cleanup-requests                                                  *)
PostRequest(q) ==
    /\ cleanup[q] = "none"
    /\ cleanup' = [cleanup EXCEPT ![q] = "pending"]
    /\ UNCHANGED <<rows, objects, storing, conf, used, overlapped>>

(* POST /cleanup-requests/{id}/confirm: a completed request is answered    *)
(* as it is.                                                               *)
Confirm(c, q) ==
    /\ conf[c].pc = "idle" /\ cleanup[q] = "pending"
    /\ conf' = [conf EXCEPT ![c] = [Idle EXCEPT !.pc = "list", !.request = q]]
    /\ overlapped' = (overlapped \/ \E d \in Confirmer : conf[d].pc # "idle")
    /\ UNCHANGED <<rows, objects, storing, cleanup, used>>

ListArtifacts(c) ==
    /\ conf[c].pc = "list"
    /\ conf' = [conf EXCEPT ![c].pc = "objects", ![c].keys = Stored]
    /\ UNCHANGED <<rows, objects, storing, cleanup, used, overlapped>>

(* Fault: an object that is gone already is taken for a failure.           *)
FaultyDeleteObject(c, a) ==
    /\ conf[c].pc = "objects" /\ a \in conf[c].keys \cap objects
    /\ objects' = objects \ {a}
    /\ conf' = [conf EXCEPT ![c].keys = @ \ {a}]
    /\ UNCHANGED <<rows, storing, cleanup, used, overlapped>>

(* A key that is gone already is no error.                                 *)
DeleteObject(c, a) ==
    /\ conf[c].pc = "objects" /\ a \in conf[c].keys
    /\ objects' = objects \ {a}
    /\ conf' = [conf EXCEPT ![c].keys = @ \ {a}]
    /\ UNCHANGED <<rows, storing, cleanup, used, overlapped>>

(* The transaction begins: the rows that refer to jobs are found.          *)
DeleteReports(c) ==
    /\ conf[c].pc = "objects" /\ conf[c].keys = {}
    /\ conf' = [conf EXCEPT ![c].pc = "artifacts", ![c].seen = reports]
    /\ UNCHANGED <<rows, objects, storing, cleanup, used, overlapped>>

DeleteArtifacts(c) ==
    /\ conf[c].pc = "artifacts"
    /\ conf' = [conf EXCEPT ![c].pc = "jobs", ![c].found = Stored,
                            ![c].unlinked = {j \in JobId : usage[j] = "job"}]
    /\ UNCHANGED <<rows, objects, storing, cleanup, used, overlapped>>

(* Rows that were inserted after their turn hold their jobs.               *)
Held(c) == \/ \E j \in jobs : reports[j] > conf[c].seen[j]
           \/ \E j \in jobs \ conf[c].unlinked : usage[j] = "job"
           \/ ~(Stored \subseteq conf[c].found)

(* Usage outlives its job, but refers to it no more.                       *)
UsageAfter(u) == IF u = "job" THEN "kept" ELSE u

(* Fault: the request is completed though the deletion did not go through. *)
FaultyRollBack(c) == cleanup' = [cleanup EXCEPT ![conf[c].request] = "completed"]

RollBack(c) == UNCHANGED cleanup

Commit(c) ==
    /\ conf[c].pc = "jobs"
    /\ IF Held(c)
       THEN RollBack(c) /\ UNCHANGED rows
       ELSE /\ jobs' = {} /\ reports' = [j \in JobId |-> 0]
            /\ artifacts' = [a \in ArtifactId |-> Nothing]
            /\ usage' = [j \in JobId |-> UsageAfter(usage[j])]
            /\ cleanup' = [cleanup EXCEPT ![conf[c].request] = "completed"]
    /\ conf' = [conf EXCEPT ![c] = Idle]
    /\ UNCHANGED <<objects, storing, used, overlapped>>

(* The storage raises, or the process ends.                                *)
Abort(c) ==
    /\ conf[c].pc # "idle"
    /\ RollBack(c)
    /\ conf' = [conf EXCEPT ![c] = Idle]
    /\ UNCHANGED <<rows, objects, storing, used, overlapped>>

Confirmation(c) ==
    \/ ListArtifacts(c) \/ DeleteReports(c) \/ DeleteArtifacts(c) \/ Commit(c)
    \/ \E a \in ArtifactId : DeleteObject(c, a)

Next ==
    \/ \E j \in JobId : CreateJob(j) \/ Report(j) \/ RecordUsage(j)
    \/ \E a \in ArtifactId : InsertArtifact(a) \/ \E j \in JobId : Upload(a, j)
    \/ \E q \in Request : PostRequest(q)
    \/ \E c \in Confirmer : Confirmation(c) \/ Abort(c) \/ \E q \in Request : Confirm(c, q)

Spec == Init /\ [][Next]_vars

(* The user repeats the confirmation of a request that is still pending,   *)
(* the threads run, and from some time on a confirmation only ends with    *)
(* its transaction: storage and processes have ceased to fail.             *)
Fairness ==
    /\ \A q \in Request : WF_vars(\E c \in Confirmer : Confirm(c, q))
    /\ \A c \in Confirmer : WF_vars(Confirmation(c))
    /\ <>[][\A c \in Confirmer : conf'[c] = Idle => conf[c] = Idle \/ Commit(c)]_vars

FairSpec == Spec /\ Fairness
-----------------------------------------------------------------------------
(* A row whose object is gone is the work of a cleanup that can still be   *)
(* repeated, so that what failed halfway is finished later; this needs     *)
(* that the confirmations of the past did not overlap.                     *)
HalfDeletedIsRetryable ==
    Stored \subseteq objects \/ overlapped \/ \E q \in Request : cleanup[q] = "pending"

(* cleanup.py: a failed object deletion leaves the request pending, and    *)
(* "repeating the same confirmation safely resumes it".  Whatever failed   *)
(* halfway, whichever rows held the jobs and whoever else confirmed, a     *)
(* request that is confirmed again and again is completed at last, unless  *)
(* rows keep coming for ever (MaxReports and the identifiers bound them).  *)
CleanupCompletes ==
    \A q \in Request : cleanup[q] = "pending" ~> cleanup[q] = "completed"

(* DATA_MODEL.md: partial storage cleanup remains visible as retryable     *)
(* state, not a silent orphan.  An object is named by a row, on its way to *)
(* one, or in the hands of a cleanup.                                      *)
NoSilentOrphan ==
    \A a \in objects :
        \/ artifacts[a] # Nothing \/ storing[a] # Nothing
        \/ \E q \in Request : cleanup[q] = "pending"
=============================================================================
