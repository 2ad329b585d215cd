---------------------------- MODULE JobLifecycle ----------------------------
(***************************************************************************)
(* jobs/lifecycle.py: the rows of jobs, job_attempts, job_stages and       *)
(* job_checkpoints, and the operations that workers, the HTTP API and the  *)
(* maintenance process apply to them.  Every operation takes the job row   *)
(* FOR UPDATE and runs in one transaction, so it is one action.  The       *)
(* callers are outside the repository class: a worker takes a job, works   *)
(* and calls back, and may at any time go silent, be declared dead by the  *)
(* maintenance process, and come back as a zombie that still calls.        *)
(***************************************************************************)
EXTENDS Integers, FiniteSets

CONSTANTS
    Job, Worker, Stage,
    NoJob, NoWorker, NoStage,
    MaxAttempt,     \* bound: attempts per job
    FullProgress,   \* the progress at which a stage is complete (100)
    MaxUnit         \* bound: units of work a stage's checkpoint counts

ASSUME JobLifecycleAssumption ==
    /\ MaxAttempt \in Nat /\ FullProgress \in Nat /\ MaxUnit \in Nat
    /\ NoJob \notin Job /\ NoWorker \notin Worker /\ NoStage \notin Stage

VARIABLES
    \* the job row
    status, active_attempt, heartbeat, cancel_requested, current,
    \* its child rows
    attempts, stages, checkpoints,
    reported,   \* reported[j]: the status that the latest job event announces
    \* the workers, which the repository does not see
    on,         \* on[w]: the job worker w believes it is executing
    done        \* done[w][s]: units of stage s that w counts as done

rows == <<status, active_attempt, heartbeat, cancel_requested, current,
          attempts, stages, checkpoints, reported>>
vars == <<rows, on, done>>

JobStatus == {"PENDING", "QUEUED", "RUNNING", "SUCCEEDED", "FAILED", "CANCELLED"}
Ended == {"SUCCEEDED", "FAILED", "CANCELLED"}
Final == {"SUCCEEDED", "CANCELLED"}
AttemptStatus == {"RUNNING", "SUCCEEDED", "FAILED", "INTERRUPTED"}

NoAttempt == [status |-> "none", worker |-> NoWorker]
NoProgress == -1
NotRead == -1
NoCheckpoint == [unit |-> 0, attempt |-> 0]

AttemptRow == [status : AttemptStatus, worker : Worker] \cup {NoAttempt}
Checkpoint == [unit : 0..MaxUnit, attempt : 0..MaxAttempt]

(* Fault: a cancelled job can be queued again.                             *)
FaultyTRANSITIONS ==
    [PENDING   |-> {"QUEUED", "CANCELLED"},
     QUEUED    |-> {"RUNNING", "CANCELLED"},
     RUNNING   |-> Ended \cup {"QUEUED"},
     FAILED    |-> {"QUEUED"},
     SUCCEEDED |-> {},
     CANCELLED |-> {"RUNNING"}]

TRANSITIONS ==
    [PENDING   |-> {"QUEUED", "CANCELLED"},
     QUEUED    |-> {"RUNNING", "CANCELLED"},
     RUNNING   |-> Ended \cup {"QUEUED"},
     FAILED    |-> {"QUEUED"},
     SUCCEEDED |-> {},
     CANCELLED |-> {}]
-----------------------------------------------------------------------------
Init ==
    /\ status = [j \in Job |-> "PENDING"]
    /\ active_attempt = [j \in Job |-> 0]
    /\ heartbeat = [j \in Job |-> "none"]
    /\ cancel_requested = [j \in Job |-> FALSE]
    /\ current = [j \in Job |-> [stage |-> NoStage, progress |-> 0]]
    /\ attempts = [j \in Job |-> [n \in 1..MaxAttempt |-> NoAttempt]]
    /\ stages = [j \in Job |-> [s \in Stage |-> NoProgress]]
    /\ checkpoints = [j \in Job |-> [s \in Stage |-> NoCheckpoint]]
    /\ reported = [j \in Job |-> "PENDING"]
    /\ on = [w \in Worker |-> NoJob]
    /\ done = [w \in Worker |-> [s \in Stage |-> NotRead]]

(* The attempt row that active_attempt points at; NoAttempt before any.    *)
Active(j) == IF active_attempt[j] = 0 THEN NoAttempt
                                      ELSE attempts[j][active_attempt[j]]

(* Fault: an ended job that is handed out again starts again.              *)
FaultyAllowed(j, target) ==
    \/ status[j] = target
    \/ target \in TRANSITIONS[status[j]]
    \/ target = "RUNNING" /\ status[j] \in Ended

(* transition(): a repeat changes nothing and writes no event; any other   *)
(* move must be in the table; an ended job loses its heartbeat.            *)
Allowed(j, target) == status[j] = target \/ target \in TRANSITIONS[status[j]]

Transition(j, target) ==
    /\ Allowed(j, target)
    /\ status' = [status EXCEPT ![j] = target]
    /\ reported' = IF status[j] = target THEN reported
                                         ELSE [reported EXCEPT ![j] = target]

(* Fault: only a finished execution clears the heartbeat, not a cancelled one. *)
FaultyHeartbeatAfter(j, target) ==
    IF target \in {"SUCCEEDED", "FAILED"} THEN [heartbeat EXCEPT ![j] = "none"]
                                          ELSE heartbeat

HeartbeatAfter(j, target) ==
    IF status[j] # target /\ target \in Ended
    THEN [heartbeat EXCEPT ![j] = "none"]
    ELSE heartbeat

(* The worker's side of the end of an execution, whatever ended it.        *)
LetGo(w) ==
    /\ on' = [on EXCEPT ![w] = NoJob]
    /\ done' = [done EXCEPT ![w] = [s \in Stage |-> NotRead]]
-----------------------------------------------------------------------------
(* The service releases a new job, or someone retries a failed one.        *)
Enqueue(j) ==
    /\ status[j] \in {"PENDING", "FAILED"}
    /\ Transition(j, "QUEUED")
    /\ heartbeat' = HeartbeatAfter(j, "QUEUED")
    /\ UNCHANGED <<active_attempt, cancel_requested, current, attempts,
                   stages, checkpoints, on, done>>

(* begin_attempt().  On a job that is already RUNNING the transition is an *)
(* idempotent repeat, and a second attempt opens beside the first.         *)
BeginAttempt(w, j) ==
    /\ on[w] = NoJob
    /\ active_attempt[j] < MaxAttempt
    /\ Transition(j, "RUNNING")
    /\ active_attempt' = [active_attempt EXCEPT ![j] = @ + 1]
    /\ heartbeat' = [heartbeat EXCEPT ![j] = "fresh"]
    /\ attempts' = [attempts EXCEPT ![j][active_attempt[j] + 1] =
                        [status |-> "RUNNING", worker |-> w]]
    /\ on' = [on EXCEPT ![w] = j]
    /\ UNCHANGED <<cancel_requested, current, stages, checkpoints, done>>

(* Fault: any worker that ever held an attempt of the job may beat for it. *)
FaultyOwnsActive(w, j) == \E n \in 1..active_attempt[j] : attempts[j][n].worker = w
OwnsActive(w, j) == active_attempt[j] # 0 /\ Active(j).worker = w

(* heartbeat(): refused unless the job runs and w owns its active attempt. *)
Heartbeat(w) ==
    LET j == on[w] IN
    /\ j # NoJob
    /\ status[j] = "RUNNING"
    /\ OwnsActive(w, j)
    /\ heartbeat' = [heartbeat EXCEPT ![j] = "fresh"]
    /\ UNCHANGED <<status, active_attempt, cancel_requested, current, attempts,
                   stages, checkpoints, reported, on, done>>

(* More than the stale threshold passes since the last heartbeat.          *)
HeartbeatExpires(j) ==
    /\ heartbeat[j] = "fresh"
    /\ heartbeat' = [heartbeat EXCEPT ![j] = "stale"]
    /\ UNCHANGED <<status, active_attempt, cancel_requested, current, attempts,
                   stages, checkpoints, reported, on, done>>

OutcomeOf(target) == CASE target = "SUCCEEDED" -> "SUCCEEDED"
                       [] target = "CANCELLED" -> "INTERRUPTED"
                       [] OTHER -> "FAILED"

(* Fault: the late answer of a superseded execution is not refused.        *)
FaultyCanClose(j) == TRUE
CanClose(j) == Active(j).status = "RUNNING"

(* complete_attempt(): closes the active attempt, whoever calls, together  *)
(* with the job.  A job cancelled before its attempt was closed still      *)
(* accepts CANCELLED, the idempotent repeat.                               *)
CompleteAttempt(w, target) ==
    LET j == on[w]
        n == active_attempt[j] IN
    /\ j # NoJob
    /\ n # 0
    /\ CanClose(j)
    /\ Transition(j, target)
    /\ heartbeat' = HeartbeatAfter(j, target)
    /\ attempts' = [attempts EXCEPT ![j][n].status = OutcomeOf(target)]
    /\ LetGo(w)
    /\ UNCHANGED <<active_attempt, cancel_requested, current, stages, checkpoints>>

StageProgress(j, s, p) == IF stages[j][s] > p THEN stages[j][s] ELSE p

(* update_stage(): checks that the job runs, not who calls.                *)
UpdateStage(w, s, p) ==
    LET j == on[w] IN
    /\ j # NoJob
    /\ status[j] = "RUNNING"
    /\ stages' = [stages EXCEPT ![j][s] = StageProgress(j, s, p)]
    /\ current' = [current EXCEPT ![j] =
                       [stage |-> s, progress |-> StageProgress(j, s, p)]]
    /\ UNCHANGED <<status, active_attempt, heartbeat, cancel_requested, attempts,
                   checkpoints, reported, on, done>>

(* checkpoint(): a new execution reads where to resume a stage.            *)
ReadCheckpoint(w, s) ==
    /\ on[w] # NoJob
    /\ done[w][s] = NotRead
    /\ done' = [done EXCEPT ![w][s] = checkpoints[on[w]][s].unit]
    /\ UNCHANGED <<rows, on>>

(* save_checkpoint(): one more unit is durable.  It checks neither the     *)
(* job's status nor who calls, and labels the row with the attempt that is *)
(* active now.                                                             *)
SaveCheckpoint(w, s) ==
    LET j == on[w] IN
    /\ j # NoJob
    /\ done[w][s] \in 0..(MaxUnit - 1)
    /\ done' = [done EXCEPT ![w][s] = @ + 1]
    /\ checkpoints' = [checkpoints EXCEPT ![j][s] =
                           [unit |-> done[w][s] + 1, attempt |-> active_attempt[j]]]
    /\ UNCHANGED <<status, active_attempt, heartbeat, cancel_requested, current,
                   attempts, stages, reported, on>>

(* request_cancellation(), from the API: recorded once, and not at all for *)
(* a job that has ended.                                                   *)
RequestCancellation(j) ==
    /\ status[j] \notin Ended
    /\ ~cancel_requested[j]
    /\ cancel_requested' = [cancel_requested EXCEPT ![j] = TRUE]
    /\ UNCHANGED <<status, active_attempt, heartbeat, current, attempts, stages,
                   checkpoints, reported, on, done>>

(* acknowledge_cancellation(), by the worker that executes the job or by   *)
(* one that is handed it afterwards.  The attempt row is not touched.      *)
AcknowledgeCancellation(w, j) ==
    /\ on[w] \in {j, NoJob}
    /\ cancel_requested[j]
    /\ Transition(j, "CANCELLED")
    /\ heartbeat' = HeartbeatAfter(j, "CANCELLED")
    /\ LetGo(w)
    /\ UNCHANGED <<active_attempt, cancel_requested, current, attempts, stages,
                   checkpoints>>

Stale == {j \in Job : status[j] = "RUNNING" /\ heartbeat[j] = "stale"}

(* Fault: the recovery rewrites the rows without writing its job event.    *)
FaultyReportRecovery == UNCHANGED reported
ReportRecovery ==
    reported' = [j \in Job |-> IF j \in Stale THEN "QUEUED" ELSE reported[j]]

(* recover_interrupted(), one pass of the maintenance process: every stale *)
(* job is queued again and its active attempt interrupted.  A pending      *)
(* request to cancel is not looked at.                                     *)
RecoverInterrupted ==
    /\ Stale # {}
    /\ attempts' = [j \in Job |->
          IF j \in Stale /\ Active(j).status = "RUNNING"
          THEN [attempts[j] EXCEPT ![active_attempt[j]].status = "INTERRUPTED"]
          ELSE attempts[j]]
    /\ status' = [j \in Job |-> IF j \in Stale THEN "QUEUED" ELSE status[j]]
    /\ heartbeat' = [j \in Job |-> IF j \in Stale THEN "none" ELSE heartbeat[j]]
    /\ ReportRecovery
    /\ UNCHANGED <<active_attempt, cancel_requested, current, stages, checkpoints,
                   on, done>>

(* A worker stops executing: it crashed, it was shut down, it was told     *)
(* that its attempt is over (the repeat of complete_attempt that changes   *)
(* nothing), or a call that the repository refused raised out of it.       *)
Abandon(w) ==
    /\ on[w] # NoJob
    /\ LetGo(w)
    /\ UNCHANGED rows
-----------------------------------------------------------------------------
WorkerStep(w) ==
    \/ \E j \in Job : BeginAttempt(w, j) \/ AcknowledgeCancellation(w, j)
    \/ Heartbeat(w)
    \/ \E target \in Ended : CompleteAttempt(w, target)
    \/ \E s \in Stage, p \in 0..FullProgress : UpdateStage(w, s, p)
    \/ \E s \in Stage : ReadCheckpoint(w, s) \/ SaveCheckpoint(w, s)
    \/ Abandon(w)

JobStep(j) == Enqueue(j) \/ RequestCancellation(j) \/ HeartbeatExpires(j)

Next ==
    \/ \E w \in Worker : WorkerStep(w)
    \/ \E j \in Job : JobStep(j)
    \/ RecoverInterrupted

Spec == Init /\ [][Next]_vars

(* Time passes, and the maintenance process keeps making its passes.       *)
(* Nothing is assumed of the workers.                                      *)
Fairness ==
    /\ \A j \in Job : WF_vars(HeartbeatExpires(j))
    /\ WF_vars(RecoverInterrupted)

FairSpec == Spec /\ Fairness
-----------------------------------------------------------------------------
(* The rows hold what their columns can hold.                              *)
TypeOK ==
    /\ status \in [Job -> JobStatus]
    /\ active_attempt \in [Job -> 0..MaxAttempt]
    /\ heartbeat \in [Job -> {"none", "fresh", "stale"}]
    /\ cancel_requested \in [Job -> BOOLEAN]
    /\ current \in [Job -> [stage : Stage \cup {NoStage}, progress : 0..FullProgress]]
    /\ attempts \in [Job -> [1..MaxAttempt -> AttemptRow]]
    /\ stages \in [Job -> [Stage -> {NoProgress} \cup 0..FullProgress]]
    /\ checkpoints \in [Job -> [Stage -> Checkpoint]]
    /\ reported \in [Job -> JobStatus]
    /\ on \in [Worker -> Job \cup {NoJob}]
    /\ done \in [Worker -> [Stage -> {NotRead} \cup 0..MaxUnit]]

(* A job that runs can always be found by the recovery pass and always has *)
(* an open attempt to interrupt: it has a heartbeat, which no other job    *)
(* has, and its active attempt is the one that is running.  (begin_attempt *)
(* / transition / recover_interrupted keep the two rows in step.)          *)
RunningJobIsHeld ==
    \A j \in Job :
        /\ status[j] = "RUNNING" <=> heartbeat[j] # "none"
        /\ status[j] = "RUNNING" => Active(j).status = "RUNNING"

(* However many workers were handed the job, and whichever of them came    *)
(* back late, a job that ended has the outcome of its last attempt, and no *)
(* earlier attempt claims a success.                                       *)
SingleResult ==
    \A j \in Job :
        /\ status[j] \in {"SUCCEEDED", "FAILED"} => Active(j).status = status[j]
        /\ \A n \in 1..MaxAttempt :
               attempts[j][n].status = "SUCCEEDED" =>
                   n = active_attempt[j] /\ status[j] = "SUCCEEDED"

(* begin_attempt numbers the attempts of a job without gaps and without    *)
(* reusing a number, and active_attempt points at the newest of them.      *)
AttemptsAreNumbered ==
    \A j \in Job, n \in 1..MaxAttempt :
        n <= active_attempt[j] <=> attempts[j][n] # NoAttempt

(* The append-only job events, which the API's live view follows, announce *)
(* every change of status: the latest one agrees with the row, though      *)
(* recover_interrupted does not go through transition().                   *)
HistoryMatchesStatus == reported = status

(* The rows that several workers, requests and the recovery pass write     *)
(* stay in step: what runs can be found and interrupted, what ended has    *)
(* one result, and the event log says so.                                  *)
RowsInStep ==
    /\ RunningJobIsHeld
    /\ SingleResult
    /\ HistoryMatchesStatus

(* The inductive invariant: the parts above need one another.              *)
Inv ==
    /\ TypeOK
    /\ RunningJobIsHeld
    /\ SingleResult
    /\ AttemptsAreNumbered
    /\ HistoryMatchesStatus

(* An attempt that was closed keeps its outcome, an attempt keeps its      *)
(* worker, and no attempt number is used twice: late calls of superseded   *)
(* workers and retries only ever touch the active, running one.            *)
ClosedAttemptsAreFinal ==
    [][\A j \in Job, n \in 1..MaxAttempt :
          /\ attempts[j][n].worker # NoWorker =>
                 attempts'[j][n].worker = attempts[j][n].worker
          /\ attempts[j][n].status \in {"SUCCEEDED", "FAILED", "INTERRUPTED"} =>
                 attempts'[j][n] = attempts[j][n]]_vars

(* job_stages keeps "monotonic progress per named stage" over the attempts *)
(* of a job, although a superseded worker still reports its own.           *)
StageProgressNeverLost ==
    [][\A j \in Job, s \in Stage : stages'[j][s] >= stages[j][s]]_vars

(* The job service keeps the contract: the execution whose result stands   *)
(* is the attempt that succeeded.                                          *)
Result(j) == IF \E n \in 1..MaxAttempt : attempts[j][n].status = "SUCCEEDED"
             THEN CHOOSE n \in 1..MaxAttempt : attempts[j][n].status = "SUCCEEDED"
             ELSE 0

Contract == INSTANCE JobContract WITH
    phase <- status, runs <- active_attempt, result <- [j \in Job |-> Result(j)]

KeepsContract == Contract!CSpec

(* A silent worker does not hold a job for ever: an attempt whose worker   *)
(* no longer executes it is interrupted, closed or superseded, however     *)
(* busily the workers of older attempts keep calling.                      *)
Abandoned(j, n) ==
    /\ status[j] = "RUNNING" /\ active_attempt[j] = n
    /\ \A w \in Worker : attempts[j][n].worker = w => on[w] # j

AbandonedAttemptEnds ==
    \A j \in Job, n \in 1..MaxAttempt :
        Abandoned(j, n) ~> (status[j] # "RUNNING" \/ active_attempt[j] # n)

(* "job_attempts: worker ownership and terminal/interrupted outcome"       *)
(* (BE-07 JOB_STATE_MODEL.md): when a job is over, every attempt of it     *)
(* carries its outcome.                                                    *)
EveryAttemptHasAnOutcome ==
    \A j \in Job : status[j] \in Final =>
        \A n \in 1..active_attempt[j] : attempts[j][n].status # "RUNNING"

(* "The next attempt reads the latest checkpoint for its stage and resumes *)
(* after the last durable unit" (BE-07 JOB_STATE_MODEL.md): a unit that a  *)
(* checkpoint counted is counted by every later one.                       *)
DurableUnitsStayCounted ==
    [][\A j \in Job, s \in Stage :
          checkpoints'[j][s].unit >= checkpoints[j][s].unit]_vars
=============================================================================
