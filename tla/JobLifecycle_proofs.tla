------------------------ MODULE JobLifecycle_proofs ------------------------
(***************************************************************************)
(* Theorems about jobs/lifecycle.py for any number of jobs, workers,       *)
(* stages and attempts: the rows keep their types, a running job is always *)
(* held by an open attempt and a heartbeat, a job has one result, closed   *)
(* attempts are final, and the repository implements JobContract.          *)
(***************************************************************************)
EXTENDS JobLifecycle, TLAPS

USE JobLifecycleAssumption DEF JobLifecycleAssumption

(* Closing a running attempt leaves a row of the attempts table.           *)
LEMMA ClosedRow ==
    ASSUME NEW row \in AttemptRow, row.status = "RUNNING", NEW outcome \in AttemptStatus
    PROVE  /\ [row EXCEPT !.status = outcome] \in AttemptRow
           /\ [row EXCEPT !.status = outcome].status = outcome
           /\ [row EXCEPT !.status = outcome].worker = row.worker
<1>1. row # NoAttempt
  BY DEF NoAttempt
<1>2. row \in [status : AttemptStatus, worker : Worker]
  BY <1>1 DEF AttemptRow
<1>3. [row EXCEPT !.status = outcome] \in [status : AttemptStatus, worker : Worker]
  BY <1>2
<1> QED
  BY <1>2, <1>3 DEF AttemptRow

(* Every action keeps every row and every worker's bookkeeping well typed. *)
LEMMA StepTypeOK == TypeOK /\ [Next]_vars => TypeOK'
<1> SUFFICES ASSUME TypeOK, [Next]_vars PROVE TypeOK'
  OBVIOUS
<1> USE DEF TypeOK, JobStatus
<1>1. ASSUME NEW w \in Worker, NEW j \in Job, BeginAttempt(w, j) PROVE TypeOK'
  BY <1>1 DEF BeginAttempt, Transition, AttemptRow, AttemptStatus
<1>2. ASSUME NEW w \in Worker, NEW j \in Job, AcknowledgeCancellation(w, j) PROVE TypeOK'
  BY <1>2 DEF AcknowledgeCancellation, Transition, HeartbeatAfter, LetGo, NotRead
<1>3. ASSUME NEW w \in Worker, Heartbeat(w) PROVE TypeOK'
  BY <1>3 DEF Heartbeat
<1>4. ASSUME NEW w \in Worker, NEW target \in Ended, CompleteAttempt(w, target) PROVE TypeOK'
  <2> DEFINE j == on[w]
             n == active_attempt[j]
             closed == [attempts[j][n] EXCEPT !.status = OutcomeOf(target)]
  <2>1. j \in Job /\ n \in 1..MaxAttempt /\ attempts[j][n] \in AttemptRow
    BY <1>4 DEF CompleteAttempt
  <2>2. attempts[j][n].status = "RUNNING"
    BY <1>4 DEF CompleteAttempt, CanClose, Active
  <2>3. closed \in AttemptRow
    BY <2>1, <2>2, ClosedRow DEF AttemptStatus, OutcomeOf
  <2>4. attempts' = [attempts EXCEPT ![j] = [attempts[j] EXCEPT ![n] = closed]]
    BY <1>4, <2>1 DEF CompleteAttempt
  <2>5. attempts' \in [Job -> [1..MaxAttempt -> AttemptRow]]
    BY <2>1, <2>3, <2>4
  <2> QED
    BY <1>4, <2>1, <2>5
       DEF CompleteAttempt, Transition, HeartbeatAfter, LetGo, NotRead, Ended
<1>5. ASSUME NEW w \in Worker, NEW s \in Stage, NEW p \in 0..FullProgress,
             UpdateStage(w, s, p) PROVE TypeOK'
  BY <1>5 DEF UpdateStage, StageProgress, NoProgress
<1>6. ASSUME NEW w \in Worker, NEW s \in Stage, ReadCheckpoint(w, s) PROVE TypeOK'
  BY <1>6 DEF ReadCheckpoint, rows, NotRead, Checkpoint
<1>7. ASSUME NEW w \in Worker, NEW s \in Stage, SaveCheckpoint(w, s) PROVE TypeOK'
  BY <1>7 DEF SaveCheckpoint, NotRead, Checkpoint
<1>8. ASSUME NEW w \in Worker, Abandon(w) PROVE TypeOK'
  BY <1>8 DEF Abandon, LetGo, rows, NotRead
<1>9. ASSUME NEW j \in Job, Enqueue(j) PROVE TypeOK'
  BY <1>9 DEF Enqueue, Transition, HeartbeatAfter
<1>10. ASSUME NEW j \in Job, RequestCancellation(j) PROVE TypeOK'
  BY <1>10 DEF RequestCancellation
<1>11. ASSUME NEW j \in Job, HeartbeatExpires(j) PROVE TypeOK'
  BY <1>11 DEF HeartbeatExpires
<1>12. ASSUME RecoverInterrupted PROVE TypeOK'
  <2>1. ASSUME NEW j \in Job PROVE attempts'[j] \in [1..MaxAttempt -> AttemptRow]
    <3> DEFINE n == active_attempt[j]
               closed == [attempts[j][n] EXCEPT !.status = "INTERRUPTED"]
    <3>1. CASE j \in Stale /\ Active(j).status = "RUNNING"
      <4>1. n \in 1..MaxAttempt /\ attempts[j][n].status = "RUNNING"
        BY <3>1 DEF Active, NoAttempt
      <4>2. attempts[j][n] \in AttemptRow
        BY <4>1
      <4>3. closed \in AttemptRow
        BY <4>1, <4>2, ClosedRow DEF AttemptStatus
      <4>4. attempts'[j] = [attempts[j] EXCEPT ![n] = closed]
        BY <1>12, <3>1 DEF RecoverInterrupted
      <4> QED
        BY <4>1, <4>3, <4>4
    <3>2. CASE ~(j \in Stale /\ Active(j).status = "RUNNING")
      BY <1>12, <3>2 DEF RecoverInterrupted
    <3> QED
      BY <3>1, <3>2
  <2>2. attempts' \in [Job -> [1..MaxAttempt -> AttemptRow]]
    BY <1>12, <2>1 DEF RecoverInterrupted
  <2> QED
    BY <1>12, <2>2 DEF RecoverInterrupted, ReportRecovery
<1>13. CASE UNCHANGED vars
  BY <1>13 DEF vars, rows
<1> QED
  BY <1>1, <1>2, <1>3, <1>4, <1>5, <1>6, <1>7, <1>8, <1>9, <1>10, <1>11, <1>12, <1>13
     DEF Next, WorkerStep, JobStep

(* The rows hold what their columns can hold, for any number of jobs,      *)
(* workers, stages and attempts: no call ever numbers an attempt beyond    *)
(* the newest or labels it with a worker that never began it.              *)
THEOREM Typing == Spec => []TypeOK
<1>1. Init => TypeOK
  BY DEF Init, TypeOK, JobStatus, AttemptRow, Checkpoint, NoCheckpoint, NoProgress, NotRead
<1> QED
  BY <1>1, StepTypeOK, PTL DEF Spec

-----------------------------------------------------------------------------
(* The invariant of one job, the parts of Inv that speak of it together.   *)
JobInv(j) ==
    /\ reported[j] = status[j]
    /\ status[j] = "RUNNING" <=> heartbeat[j] # "none"
    /\ status[j] = "RUNNING" => Active(j).status = "RUNNING"
    /\ status[j] \in {"SUCCEEDED", "FAILED"} => Active(j).status = status[j]
    /\ \A n \in 1..MaxAttempt :
          /\ attempts[j][n].status = "SUCCEEDED" =>
                 n = active_attempt[j] /\ status[j] = "SUCCEEDED"
          /\ n <= active_attempt[j] <=> attempts[j][n] # NoAttempt

LEMMA InvByJob == Inv <=> TypeOK /\ \A j \in Job : JobInv(j)
  BY DEF Inv, TypeOK, JobInv, RunningJobIsHeld, SingleResult, AttemptsAreNumbered,
         HistoryMatchesStatus

(* A job whose row and attempts a step leaves alone keeps its invariant.   *)
LEMMA Frame ==
    ASSUME NEW j \in Job, JobInv(j),
           status'[j] = status[j], active_attempt'[j] = active_attempt[j],
           heartbeat'[j] = heartbeat[j], attempts'[j] = attempts[j],
           reported'[j] = reported[j]
    PROVE  JobInv(j)'
  BY DEF JobInv, Active

(* Every status a job can be in has its row in the table of moves.         *)
LEMMA Moves ==
    ASSUME TypeOK, NEW j \in Job, NEW target, Allowed(j, target)
    PROVE  \/ status[j] = target
           \/ status[j] = "PENDING" /\ target \in {"QUEUED", "CANCELLED"}
           \/ status[j] = "QUEUED" /\ target \in {"RUNNING", "CANCELLED"}
           \/ status[j] = "RUNNING" /\ target \in Ended \cup {"QUEUED"}
           \/ status[j] = "FAILED" /\ target = "QUEUED"
  BY DEF TypeOK, JobStatus, Allowed, TRANSITIONS

LEMMA StepInv == Inv /\ [Next]_vars => Inv'
<1> SUFFICES ASSUME Inv, [Next]_vars, NEW k \in Job PROVE JobInv(k)'
  <2>1. ASSUME Inv, [Next]_vars PROVE TypeOK'
    BY <2>1, StepTypeOK DEF Inv
  <2>2. TypeOK' /\ (\A j \in Job : JobInv(j)') => Inv'
    BY DEF Inv, TypeOK, JobInv, Active, RunningJobIsHeld, SingleResult, AttemptsAreNumbered,
           HistoryMatchesStatus
  <2> QED
    BY <2>1, <2>2
<1>0. TypeOK /\ JobInv(k)
  BY InvByJob
<1>1. ASSUME NEW w \in Worker, NEW j \in Job, BeginAttempt(w, j) PROVE JobInv(k)'
  <2>1. CASE k # j
    BY <1>0, <1>1, <2>1, Frame DEF BeginAttempt, Transition, TypeOK
  <2>2. CASE k = j
    <3> DEFINE m == active_attempt[k] + 1
               opened == [status |-> "RUNNING", worker |-> w]
    <3>1. m \in 1..MaxAttempt /\ active_attempt'[k] = m
      BY <1>0, <1>1, <2>2 DEF BeginAttempt, TypeOK
    <3>2. attempts'[k] = [attempts[k] EXCEPT ![m] = opened]
      BY <1>0, <1>1, <2>2 DEF BeginAttempt, TypeOK
    <3>3. opened # NoAttempt
      BY DEF NoAttempt
    <3>4. status'[k] = "RUNNING" /\ reported'[k] = "RUNNING" /\ heartbeat'[k] = "fresh"
      BY <1>0, <1>1, <2>2 DEF BeginAttempt, Transition, TypeOK, JobInv
    <3>5. status[k] # "SUCCEEDED"
      BY <1>0, <1>1, <2>2, Moves DEF BeginAttempt, Transition
    <3>6. Active(k)'.status = "RUNNING"
      BY <1>0, <3>1, <3>2 DEF Active, TypeOK
    <3>7. ASSUME NEW n \in 1..MaxAttempt
          PROVE /\ attempts'[k][n].status # "SUCCEEDED"
                /\ n <= m <=> attempts'[k][n] # NoAttempt
      BY <1>0, <3>1, <3>2, <3>3, <3>5 DEF JobInv, TypeOK
    <3> QED
      BY <3>1, <3>4, <3>6, <3>7 DEF JobInv
  <2> QED
    BY <2>1, <2>2
<1>2. ASSUME NEW w \in Worker, NEW target \in Ended, CompleteAttempt(w, target)
      PROVE  JobInv(k)'
  <2> DEFINE j == on[w]
             n == active_attempt[j]
             closed == [attempts[j][n] EXCEPT !.status = OutcomeOf(target)]
  <2>1. j \in Job /\ n \in 1..MaxAttempt /\ attempts[j][n] \in AttemptRow
    BY <1>0, <1>2 DEF CompleteAttempt, TypeOK
  <2>2. CASE k # j
    BY <1>0, <1>2, <2>1, <2>2, Frame DEF CompleteAttempt, Transition, HeartbeatAfter, TypeOK
  <2>3. CASE k = j
    <3>1. attempts[k][n].status = "RUNNING"
      BY <1>2, <2>1, <2>3 DEF CompleteAttempt, CanClose, Active
    <3>2. closed.status = OutcomeOf(target) /\ closed # NoAttempt
      BY <2>1, <2>3, <3>1, ClosedRow DEF OutcomeOf, AttemptStatus, NoAttempt
    <3>3. attempts'[k] = [attempts[k] EXCEPT ![n] = closed] /\ active_attempt'[k] = n
      BY <1>0, <1>2, <2>1, <2>3 DEF CompleteAttempt, TypeOK
    <3>4. Active(k)' = closed
      <4>1. Active(k)' = attempts'[k][n]
        BY <2>1, <3>3 DEF Active
      <4>2. attempts[k] \in [1..MaxAttempt -> AttemptRow]
        BY <1>0 DEF TypeOK
      <4> QED
        BY <2>1, <3>3, <4>1, <4>2
    <3>5. /\ status'[k] = target /\ reported'[k] = target
          /\ status[k] = target => target = "CANCELLED"
          /\ status[k] # "SUCCEEDED"
      <4>1. Active(k).status = "RUNNING" /\ Transition(k, target)
        BY <1>2, <2>3 DEF CompleteAttempt, CanClose
      <4>2. status[k] \notin {"SUCCEEDED", "FAILED"}
        BY <1>0, <4>1 DEF JobInv
      <4> QED
        BY <1>0, <4>1, <4>2 DEF Transition, TypeOK, JobInv, Ended
    <3>6. heartbeat'[k] = "none"
      BY <1>0, <1>2, <2>1, <2>3, <3>5 DEF CompleteAttempt, HeartbeatAfter, TypeOK, JobInv, Ended
    <3>7. ASSUME NEW i \in 1..MaxAttempt
          PROVE /\ attempts'[k][i].status = "SUCCEEDED" => i = n /\ target = "SUCCEEDED"
                /\ i <= n <=> attempts'[k][i] # NoAttempt
      <4>1. CASE i = n
        BY <1>0, <2>1, <2>3, <3>2, <3>3, <4>1 DEF TypeOK, OutcomeOf, Ended
      <4>2. CASE i # n
        BY <1>0, <2>3, <3>3, <3>5, <4>2 DEF TypeOK, JobInv
      <4> QED
        BY <4>1, <4>2
    <3> QED
      BY <2>1, <2>3, <3>2, <3>3, <3>4, <3>5, <3>6, <3>7 DEF JobInv, OutcomeOf, Ended
  <2> QED
    BY <2>2, <2>3
<1>3. ASSUME NEW w \in Worker, NEW j \in Job, AcknowledgeCancellation(w, j) PROVE JobInv(k)'
  <2>1. CASE k # j
    BY <1>0, <1>3, <2>1, Frame DEF AcknowledgeCancellation, Transition, HeartbeatAfter, TypeOK
  <2>2. CASE k = j
    <3>1. status'[k] = "CANCELLED" /\ reported'[k] = "CANCELLED"
      BY <1>0, <1>3, <2>2 DEF AcknowledgeCancellation, Transition, TypeOK, JobInv
    <3>2. heartbeat'[k] = "none" /\ status[k] # "SUCCEEDED"
      BY <1>0, <1>3, <2>2, Moves
         DEF AcknowledgeCancellation, Transition, HeartbeatAfter, TypeOK, JobInv, Ended
    <3> QED
      BY <1>0, <1>3, <2>2, <3>1, <3>2 DEF AcknowledgeCancellation, JobInv
  <2> QED
    BY <2>1, <2>2
<1>4. ASSUME NEW j \in Job, Enqueue(j) PROVE JobInv(k)'
  <2>1. CASE k # j
    BY <1>0, <1>4, <2>1, Frame DEF Enqueue, Transition, HeartbeatAfter, TypeOK
  <2>2. CASE k = j
    <3>1. /\ status'[k] = "QUEUED" /\ reported'[k] = "QUEUED" /\ heartbeat'[k] = "none"
          /\ status[k] # "SUCCEEDED"
      BY <1>0, <1>4, <2>2 DEF Enqueue, Transition, HeartbeatAfter, TypeOK, JobInv, Ended
    <3> QED
      BY <1>0, <1>4, <2>2, <3>1 DEF Enqueue, JobInv
  <2> QED
    BY <2>1, <2>2
<1>5. ASSUME NEW w \in Worker, Heartbeat(w) PROVE JobInv(k)'
  BY <1>0, <1>5 DEF Heartbeat, JobInv, Active, TypeOK
<1>6. ASSUME NEW j \in Job, HeartbeatExpires(j) PROVE JobInv(k)'
  BY <1>0, <1>6 DEF HeartbeatExpires, JobInv, Active, TypeOK
<1>7. ASSUME RecoverInterrupted PROVE JobInv(k)'
  <2>1. CASE k \notin Stale
    BY <1>0, <1>7, <2>1, Frame DEF RecoverInterrupted, ReportRecovery
  <2>2. CASE k \in Stale
    <3> DEFINE n == active_attempt[k]
               closed == [attempts[k][n] EXCEPT !.status = "INTERRUPTED"]
    <3>1. status[k] = "RUNNING" /\ Active(k).status = "RUNNING"
      BY <1>0, <2>2 DEF Stale, JobInv
    <3>2. n \in 1..MaxAttempt /\ attempts[k][n].status = "RUNNING" /\ attempts[k][n] \in AttemptRow
      BY <1>0, <3>1 DEF Active, NoAttempt, TypeOK
    <3>3. closed.status = "INTERRUPTED" /\ closed # NoAttempt
      BY <3>2, ClosedRow DEF AttemptStatus, NoAttempt
    <3>4. attempts'[k] = [attempts[k] EXCEPT ![n] = closed]
      BY <1>7, <2>2, <3>1 DEF RecoverInterrupted
    <3>5. /\ status'[k] = "QUEUED" /\ heartbeat'[k] = "none" /\ reported'[k] = "QUEUED"
          /\ active_attempt'[k] = n
      BY <1>7, <2>2 DEF RecoverInterrupted, ReportRecovery
    <3>6. ASSUME NEW i \in 1..MaxAttempt
          PROVE /\ attempts'[k][i].status # "SUCCEEDED"
                /\ i <= n <=> attempts'[k][i] # NoAttempt
      <4>1. CASE i = n
        BY <1>0, <3>2, <3>3, <3>4, <4>1 DEF TypeOK
      <4>2. CASE i # n
        BY <1>0, <3>1, <3>4, <4>2 DEF TypeOK, JobInv
      <4> QED
        BY <4>1, <4>2
    <3> QED
      BY <3>5, <3>6 DEF JobInv
  <2> QED
    BY <2>1, <2>2
<1>8. ASSUME \/ \E j \in Job : RequestCancellation(j)
             \/ \E w \in Worker, s \in Stage, p \in 0..FullProgress : UpdateStage(w, s, p)
             \/ \E w \in Worker, s \in Stage : ReadCheckpoint(w, s) \/ SaveCheckpoint(w, s)
             \/ \E w \in Worker : Abandon(w)
             \/ UNCHANGED vars
      PROVE  JobInv(k)'
  BY <1>0, <1>8, Frame DEF RequestCancellation, UpdateStage, ReadCheckpoint, SaveCheckpoint,
                           Abandon, vars, rows
<1> QED
  BY <1>1, <1>2, <1>3, <1>4, <1>5, <1>6, <1>7, <1>8 DEF Next, WorkerStep, JobStep

(* Inv is an invariant: with it its parts, for any number of jobs, workers *)
(* and attempts.                                                           *)
THEOREM Safety == Spec => []Inv
<1>1. Init => Inv
  <2>1. Init => TypeOK
    BY DEF Init, TypeOK, JobStatus, AttemptRow, Checkpoint, NoCheckpoint, NoProgress, NotRead
  <2>2. ASSUME Init, NEW j \in Job PROVE JobInv(j)
    BY <2>2 DEF Init, JobInv, NoAttempt
  <2> QED
    BY <2>1, <2>2, InvByJob
<1> QED
  BY <1>1, StepInv, PTL DEF Spec

(* Every running job can be found by the recovery pass, which finds an     *)
(* open attempt there to interrupt.                                        *)
THEOREM RunningJobs == Spec => []RunningJobIsHeld
<1>1. Inv => RunningJobIsHeld
  BY DEF Inv
<1> QED
  BY <1>1, Safety, PTL

(* A job that ended has the outcome of its newest attempt, and at most     *)
(* that one attempt succeeded.                                             *)
THEOREM OneResult == Spec => []SingleResult
<1>1. Inv => SingleResult
  BY DEF Inv
<1> QED
  BY <1>1, Safety, PTL

(* The newest job event of a job tells its status.                         *)
THEOREM History == Spec => []HistoryMatchesStatus
<1>1. Inv => HistoryMatchesStatus
  BY DEF Inv
<1> QED
  BY <1>1, Safety, PTL

(* Whoever writes them and in whatever order: the rows of a job, of its    *)
(* attempts and of its events stay in step with each other.                *)
THEOREM RowsStayInStep == Spec => []RowsInStep
<1>1. Inv => RowsInStep
  BY DEF Inv, RowsInStep
<1> QED
  BY <1>1, Safety, PTL

-----------------------------------------------------------------------------
(* Every outcome an attempt was closed with, and every worker an attempt   *)
(* was given to, stands for ever.                                          *)
LEMMA StepAttempt ==
    ASSUME Inv, [Next]_vars, NEW k \in Job, NEW i \in 1..MaxAttempt
    PROVE  /\ attempts[k][i].worker # NoWorker => attempts'[k][i].worker = attempts[k][i].worker
           /\ attempts[k][i].status \in {"SUCCEEDED", "FAILED", "INTERRUPTED"} =>
                  attempts'[k][i] = attempts[k][i]
<1> DEFINE Kept == attempts'[k][i] = attempts[k][i]
           Closed == /\ attempts[k][i].worker # NoWorker =>
                            attempts'[k][i].worker = attempts[k][i].worker
                     /\ attempts[k][i].status \in {"SUCCEEDED", "FAILED", "INTERRUPTED"} => Kept
<1>0. TypeOK /\ JobInv(k)
  BY InvByJob
<1>1. ASSUME NEW w \in Worker, NEW j \in Job, BeginAttempt(w, j) PROVE Closed
  <2>1. CASE j = k /\ i = active_attempt[j] + 1
    <3>1. attempts[k][i] = NoAttempt
      BY <1>0, <2>1 DEF TypeOK, JobInv
    <3> QED
      BY <3>1 DEF NoAttempt
  <2>2. CASE ~(j = k /\ i = active_attempt[j] + 1)
    BY <1>0, <1>1, <2>2 DEF BeginAttempt, TypeOK
  <2> QED
    BY <2>1, <2>2
<1>2. ASSUME NEW w \in Worker, NEW target \in Ended, CompleteAttempt(w, target) PROVE Closed
  <2> DEFINE j == on[w]
             n == active_attempt[j]
  <2>1. j \in Job /\ n \in 1..MaxAttempt /\ attempts[j][n] \in AttemptRow
    BY <1>0, <1>2 DEF CompleteAttempt, TypeOK
  <2>2. CASE j = k /\ i = n
    <3>1. attempts[k][i].status = "RUNNING" /\ attempts[k][i] \in AttemptRow
      BY <1>2, <2>1, <2>2 DEF CompleteAttempt, CanClose, Active
    <3>2. attempts'[k][i] = [attempts[k][i] EXCEPT !.status = OutcomeOf(target)]
      BY <1>0, <1>2, <2>1, <2>2 DEF CompleteAttempt, TypeOK
    <3> QED
      BY <3>1, <3>2, ClosedRow DEF OutcomeOf, AttemptStatus
  <2>3. CASE ~(j = k /\ i = n)
    BY <1>0, <1>2, <2>1, <2>3 DEF CompleteAttempt, TypeOK
  <2> QED
    BY <2>2, <2>3
<1>3. ASSUME RecoverInterrupted PROVE Closed
  <2> DEFINE n == active_attempt[k]
  <2>1. CASE k \in Stale /\ Active(k).status = "RUNNING"
    <3>1. n \in 1..MaxAttempt /\ attempts[k][n].status = "RUNNING" /\ attempts[k][n] \in AttemptRow
      BY <1>0, <2>1 DEF Active, NoAttempt, TypeOK
    <3>2. attempts'[k] = [attempts[k] EXCEPT ![n] =
                             [attempts[k][n] EXCEPT !.status = "INTERRUPTED"]]
      BY <1>3, <2>1 DEF RecoverInterrupted
    <3>3. CASE i = n
      <4>1. attempts'[k][i] = [attempts[k][i] EXCEPT !.status = "INTERRUPTED"]
        BY <1>0, <3>1, <3>2, <3>3 DEF TypeOK
      <4> QED
        BY <3>1, <3>3, <4>1, ClosedRow DEF AttemptStatus
    <3>4. CASE i # n
      BY <1>0, <3>2, <3>4 DEF TypeOK
    <3> QED
      BY <3>3, <3>4
  <2>2. CASE ~(k \in Stale /\ Active(k).status = "RUNNING")
    BY <1>3, <2>2 DEF RecoverInterrupted
  <2> QED
    BY <2>1, <2>2
<1>4. ASSUME UNCHANGED attempts PROVE Closed
  BY <1>4
<1> QED
  BY <1>1, <1>2, <1>3, <1>4
     DEF Next, WorkerStep, JobStep, Enqueue, AcknowledgeCancellation, Heartbeat, UpdateStage,
         ReadCheckpoint, SaveCheckpoint, Abandon, RequestCancellation, HeartbeatExpires, rows, vars

(* A closed attempt keeps its outcome and its worker, however many workers *)
(* still call for the job (complete_attempt, recover_interrupted).         *)
THEOREM AttemptsAreFinal == Spec => ClosedAttemptsAreFinal
<1>1. Inv /\ [Next]_vars =>
        [\A j \in Job, n \in 1..MaxAttempt :
            /\ attempts[j][n].worker # NoWorker =>
                   attempts'[j][n].worker = attempts[j][n].worker
            /\ attempts[j][n].status \in {"SUCCEEDED", "FAILED", "INTERRUPTED"} =>
                   attempts'[j][n] = attempts[j][n]]_vars
  BY StepAttempt
<1> QED
  BY <1>1, Safety, PTL DEF Spec, ClosedAttemptsAreFinal

-----------------------------------------------------------------------------
(* No step makes a stage lose progress, whichever worker reports.          *)
LEMMA StepProgress ==
    ASSUME TypeOK, [Next]_vars, NEW k \in Job, NEW x \in Stage
    PROVE  stages'[k][x] >= stages[k][x]
<1>0. stages[k][x] \in Int
  BY DEF TypeOK, NoProgress
<1>1. ASSUME NEW w \in Worker, NEW s \in Stage, NEW p \in 0..FullProgress, UpdateStage(w, s, p)
      PROVE  stages'[k][x] >= stages[k][x]
  <2>0. on[w] \in Job /\ stages[on[w]][s] \in Int
    BY <1>1 DEF UpdateStage, TypeOK, NoProgress
  <2>1. StageProgress(on[w], s, p) >= stages[on[w]][s]
    BY <2>0 DEF StageProgress
  <2>2. stages' = [stages EXCEPT ![on[w]][s] = StageProgress(on[w], s, p)]
    BY <1>1 DEF UpdateStage
  <2>3. stages \in [Job -> [Stage -> {NoProgress} \cup 0..FullProgress]]
    BY DEF TypeOK
  <2> QED
    BY <1>0, <2>0, <2>1, <2>2, <2>3
<1>2. ASSUME UNCHANGED stages PROVE stages'[k][x] >= stages[k][x]
  BY <1>0, <1>2
<1> QED
  BY <1>1, <1>2
     DEF Next, WorkerStep, JobStep, BeginAttempt, CompleteAttempt, Enqueue, Heartbeat,
         AcknowledgeCancellation, ReadCheckpoint, SaveCheckpoint, Abandon, RequestCancellation,
         HeartbeatExpires, RecoverInterrupted, rows, vars

(* The progress of a named stage is monotonic over all attempts of a job,  *)
(* though update_stage does not look at who calls.                         *)
THEOREM StageProgressIsMonotonic == Spec => StageProgressNeverLost
<1>1. TypeOK /\ [Next]_vars =>
        [\A j \in Job, s \in Stage : stages'[j][s] >= stages[j][s]]_vars
  BY StepProgress
<1> QED
  BY <1>1, Typing, PTL DEF Spec, StageProgressNeverLost

-----------------------------------------------------------------------------
(* The attempt that succeeded is the active one of a job that succeeded.   *)
LEMMA ResultIs ==
    ASSUME NEW j \in Job, TypeOK, JobInv(j)
    PROVE  Result(j) = IF status[j] = "SUCCEEDED" THEN active_attempt[j] ELSE 0
<1>1. CASE status[j] = "SUCCEEDED"
  <2>1. active_attempt[j] \in 1..MaxAttempt /\ attempts[j][active_attempt[j]].status = "SUCCEEDED"
    BY <1>1 DEF JobInv, TypeOK, Active, NoAttempt
  <2>2. \A n \in 1..MaxAttempt : attempts[j][n].status = "SUCCEEDED" => n = active_attempt[j]
    BY DEF JobInv
  <2> QED
    BY <1>1, <2>1, <2>2 DEF Result
<1>2. CASE status[j] # "SUCCEEDED"
  BY <1>2 DEF JobInv, Result
<1> QED
  BY <1>1, <1>2

(* Every step of the repository is a step of the contract, or changes      *)
(* nothing that the contract speaks of.                                    *)
LEMMA StepContract == Inv /\ Inv' /\ [Next]_vars => [Contract!CNext]_(Contract!cvars)
<1> SUFFICES ASSUME Inv, Inv', [Next]_vars PROVE [Contract!CNext]_(Contract!cvars)
  OBVIOUS
<1> DEFINE result == [j \in Job |-> Result(j)]
           Same == UNCHANGED <<status, active_attempt>>
<1>0. TypeOK /\ TypeOK' /\ \A j \in Job : JobInv(j)
  BY InvByJob DEF Inv
<1>1. result = [j \in Job |-> IF status[j] = "SUCCEEDED" THEN active_attempt[j] ELSE 0]
  BY <1>0, ResultIs
<1>2. result' = [j \in Job |-> IF status'[j] = "SUCCEEDED" THEN active_attempt'[j] ELSE 0]
  <2>1. ASSUME NEW j \in Job
        PROVE  Result(j)' = IF status'[j] = "SUCCEEDED" THEN active_attempt'[j] ELSE 0
    <3>1. CASE status'[j] = "SUCCEEDED"
      <4>1. /\ active_attempt'[j] \in 1..MaxAttempt
            /\ attempts'[j][active_attempt'[j]].status = "SUCCEEDED"
        BY <1>0, <3>1 DEF Inv, SingleResult, TypeOK, Active, NoAttempt
      <4>2. \A n \in 1..MaxAttempt : attempts'[j][n].status = "SUCCEEDED" => n = active_attempt'[j]
        BY DEF Inv, SingleResult
      <4> QED
        BY <3>1, <4>1, <4>2 DEF Result
    <3>2. CASE status'[j] # "SUCCEEDED"
      BY <3>2 DEF Inv, SingleResult, Result
    <3> QED
      BY <3>1, <3>2
  <2> QED
    BY <2>1
<1>3. ASSUME Same PROVE UNCHANGED Contract!cvars
  BY <1>1, <1>2, <1>3 DEF Contract!cvars
<1>4. ASSUME NEW w \in Worker, NEW j \in Job, BeginAttempt(w, j) PROVE Contract!Start(j)
  <2>1. status[j] \in {"QUEUED", "RUNNING"} /\ status' = [status EXCEPT ![j] = "RUNNING"]
    BY <1>0, <1>4, Moves DEF BeginAttempt, Transition
  <2>2. active_attempt' = [active_attempt EXCEPT ![j] = @ + 1]
    BY <1>4 DEF BeginAttempt
  <2>3. result' = result
    BY <1>0, <1>1, <1>2, <2>1, <2>2 DEF TypeOK
  <2> QED
    BY <2>1, <2>2, <2>3 DEF Contract!Start
<1>5. ASSUME NEW w \in Worker, NEW target \in Ended, CompleteAttempt(w, target)
      PROVE  Contract!CNext \/ UNCHANGED Contract!cvars
  <2> DEFINE j == on[w]
  <2>1. /\ j \in Job /\ Allowed(j, target) /\ status' = [status EXCEPT ![j] = target]
        /\ active_attempt' = active_attempt
    BY <1>0, <1>5 DEF CompleteAttempt, Transition, TypeOK
  <2>2. CASE status[j] = target
    BY <1>0, <1>3, <2>1, <2>2 DEF TypeOK
  <2>3. CASE status[j] # target /\ target = "SUCCEEDED"
    <3>1. status[j] = "RUNNING"
      BY <1>0, <2>1, <2>3, Moves
    <3>2. result' = [result EXCEPT ![j] = active_attempt[j]]
      BY <1>0, <1>1, <1>2, <2>1, <2>3 DEF TypeOK
    <3> QED
      BY <2>1, <2>3, <3>1, <3>2 DEF Contract!CNext, Contract!Succeed
  <2>4. CASE status[j] # target /\ target # "SUCCEEDED"
    <3>1. status[j] \in {"PENDING", "QUEUED", "RUNNING"}
      BY <1>0, <2>1, <2>4, Moves DEF Ended
    <3>2. target = "FAILED" => status[j] = "RUNNING"
      BY <1>0, <2>1, <2>4, Moves
    <3>3. result' = result
      BY <1>0, <1>1, <1>2, <2>1, <2>4, <3>1 DEF TypeOK
    <3> QED
      BY <2>1, <2>4, <3>1, <3>2, <3>3
         DEF Contract!CNext, Contract!Fail, Contract!Cancel, Ended
  <2> QED
    BY <2>2, <2>3, <2>4
<1>6. ASSUME NEW w \in Worker, NEW j \in Job, AcknowledgeCancellation(w, j)
      PROVE  Contract!Cancel(j) \/ UNCHANGED Contract!cvars
  <2>1. /\ Allowed(j, "CANCELLED") /\ status' = [status EXCEPT ![j] = "CANCELLED"]
        /\ active_attempt' = active_attempt
    BY <1>6 DEF AcknowledgeCancellation, Transition
  <2>2. CASE status[j] = "CANCELLED"
    BY <1>0, <1>3, <2>1, <2>2 DEF TypeOK
  <2>3. CASE status[j] # "CANCELLED"
    <3>1. status[j] \in {"PENDING", "QUEUED", "RUNNING"}
      BY <1>0, <2>1, <2>3, Moves
    <3>2. result' = result
      BY <1>0, <1>1, <1>2, <2>1, <3>1 DEF TypeOK
    <3> QED
      BY <2>1, <3>1, <3>2 DEF Contract!Cancel
  <2> QED
    BY <2>2, <2>3
<1>7. ASSUME NEW j \in Job, Enqueue(j) PROVE Contract!Ready(j)
  <2>1. /\ status[j] \in {"PENDING", "FAILED"} /\ status' = [status EXCEPT ![j] = "QUEUED"]
        /\ active_attempt' = active_attempt
    BY <1>7 DEF Enqueue, Transition
  <2>2. result' = result
    BY <1>0, <1>1, <1>2, <2>1 DEF TypeOK
  <2> QED
    BY <2>1, <2>2 DEF Contract!Ready
<1>8. ASSUME RecoverInterrupted PROVE Contract!ReadyTogether
  <2>1. /\ Stale \in SUBSET Job /\ \A j \in Stale : status[j] = "RUNNING"
        /\ status' = [j \in Job |-> IF j \in Stale THEN "QUEUED" ELSE status[j]]
        /\ active_attempt' = active_attempt
    BY <1>8 DEF RecoverInterrupted, Stale
  <2>2. result' = result
    BY <1>0, <1>1, <1>2, <2>1 DEF TypeOK
  <2> QED
    BY <2>1, <2>2 DEF Contract!ReadyTogether
<1>9. ASSUME \/ \E j \in Job : RequestCancellation(j) \/ HeartbeatExpires(j)
             \/ \E w \in Worker : Heartbeat(w) \/ Abandon(w)
             \/ \E w \in Worker, s \in Stage, p \in 0..FullProgress : UpdateStage(w, s, p)
             \/ \E w \in Worker, s \in Stage : ReadCheckpoint(w, s) \/ SaveCheckpoint(w, s)
             \/ UNCHANGED vars
      PROVE  Same
  BY <1>9 DEF RequestCancellation, HeartbeatExpires, Heartbeat, Abandon, UpdateStage,
              ReadCheckpoint, SaveCheckpoint, rows, vars
<1> QED
  BY <1>3, <1>4, <1>5, <1>6, <1>7, <1>8, <1>9 DEF Next, WorkerStep, JobStep, Contract!CNext

(* The repository keeps the contract of JobContract.                       *)
THEOREM Implements == Spec => KeepsContract
<1>1. Init => Contract!CInit
  <2>1. ASSUME Init, NEW j \in Job PROVE Result(j) = 0
    BY <2>1 DEF Init, Result, NoAttempt
  <2> QED
    BY <2>1 DEF Init, Contract!CInit
<1> QED
  BY <1>1, StepContract, Safety, PTL DEF Spec, KeepsContract, Contract!CSpec
=============================================================================
