---------------------------- MODULE JobContract ----------------------------
(***************************************************************************)
(* What the job service promises about one execution of a job, without     *)
(* heartbeats, workers, attempt rows, stages or checkpoints: the state     *)
(* machine of jobs/lifecycle.py seen from the API, in which a job runs as  *)
(* a numbered series of executions and at most one of them, the one that   *)
(* is current when the job ends, provides the result.                      *)
(***************************************************************************)
EXTENDS Naturals

CONSTANT Job

VARIABLES
    phase,      \* phase[j]: the status the API reports
    runs,       \* runs[j]: how many executions of the job have started
    result      \* result[j]: the execution whose result stands, 0 for none

cvars == <<phase, runs, result>>

CInit ==
    /\ phase = [j \in Job |-> "PENDING"]
    /\ runs = [j \in Job |-> 0]
    /\ result = [j \in Job |-> 0]

(* A job is made ready: its first release, an explicit retry of a failure, *)
(* or the recovery of an execution whose worker went silent.               *)
Ready(j) ==
    /\ phase[j] \in {"PENDING", "FAILED", "RUNNING"}
    /\ phase' = [phase EXCEPT ![j] = "QUEUED"]
    /\ UNCHANGED <<runs, result>>

(* An execution starts; a redelivery may start one more over a running one.*)
Start(j) ==
    /\ phase[j] \in {"QUEUED", "RUNNING"}
    /\ phase' = [phase EXCEPT ![j] = "RUNNING"]
    /\ runs' = [runs EXCEPT ![j] = @ + 1]
    /\ UNCHANGED result

Succeed(j) ==
    /\ phase[j] = "RUNNING"
    /\ phase' = [phase EXCEPT ![j] = "SUCCEEDED"]
    /\ result' = [result EXCEPT ![j] = runs[j]]
    /\ UNCHANGED runs

Fail(j) ==
    /\ phase[j] = "RUNNING"
    /\ phase' = [phase EXCEPT ![j] = "FAILED"]
    /\ UNCHANGED <<runs, result>>

Cancel(j) ==
    /\ phase[j] \in {"PENDING", "QUEUED", "RUNNING"}
    /\ phase' = [phase EXCEPT ![j] = "CANCELLED"]
    /\ UNCHANGED <<runs, result>>

(* One maintenance pass readies every stale job it selected at once.       *)
ReadyTogether ==
    \E S \in SUBSET Job :
        /\ \A j \in S : phase[j] = "RUNNING"
        /\ phase' = [j \in Job |-> IF j \in S THEN "QUEUED" ELSE phase[j]]
        /\ UNCHANGED <<runs, result>>

CNext ==
    \/ \E j \in Job : Ready(j) \/ Start(j) \/ Succeed(j) \/ Fail(j) \/ Cancel(j)
    \/ ReadyTogether

CSpec == CInit /\ [][CNext]_cvars
=============================================================================
