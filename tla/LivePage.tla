------------------------------- MODULE LivePage -------------------------------
(***************************************************************************)
(* ui/app/components/search-interface.tsx, the page of the local profile,  *)
(* over what server.py publishes of its current run.  The page follows a   *)
(* run by a stream of server-sent events and by requests of its own every  *)
(* second; both replace all that it shows, in the order in which they      *)
(* arrive.  The stream's messages are snapshots made under run_lock.  The  *)
(* answer to GET /api/status is not: the endpoint returns current_run      *)
(* itself, whose fields are read in turn after the lock is released.       *)
(* Other windows start runs too.  Revisions are in module RunServer.       *)
(***************************************************************************)
EXTENDS Naturals

CONSTANTS
    Slot,           \* bound: the requests for the status under way
    Starter,        \* the request of a start that was accepted
    MaxRuns,        \* bound: runs
    MaxIncidents    \* bound: starts, requests and streams that are lost

ASSUME LivePageAssumption ==
    /\ Starter \notin Slot
    /\ MaxRuns \in Nat /\ MaxIncidents \in Nat

VARIABLES
    current,        \* current_run: status, run_id and context
    thread,         \* thread[r]: where the pipeline of run r is
    page,           \* what the page shows
    sse,            \* its event stream is open
    request,        \* request[q]: a request for the status
    starting,       \* where handleStartGeneration is
    incidents       \* how many starts, requests and streams were lost

serverVars == <<current, thread>>
pageVars == <<serverVars, page, sse, request, starting, incidents>>

Run == 1..MaxRuns
RunStatus == {"IDLE", "RUNNING", "COMPLETED", "FAILED"}
Busy == {"STARTING", "RUNNING"}

(* The sections: of which run, and whether they are its result.            *)
Text == [of : 0..MaxRuns, stage : {"draft", "final"}]
Draft(r) == [of |-> r, stage |-> "draft"]
Final(r) == [of |-> r, stage |-> "final"]

(* An answer.  of is the run that the status was read of.                  *)
Answer == [status : RunStatus \cup {"STARTING"}, of : 0..MaxRuns, text : Text, run : 0..MaxRuns]
Empty(status) == [status |-> status, of |-> 0, text |-> Draft(0), run |-> 0]
Payload == [status |-> current.status, of |-> current.run,
            text |-> current.text, run |-> current.run]

Free == [pc |-> "free", answer |-> Empty("IDLE")]
Asked == [Free EXCEPT !.pc = "asked"]

InitPage ==
    /\ current = [status |-> "IDLE", run |-> 0, text |-> Draft(0)]
    /\ thread = [r \in Run |-> "none"]
    /\ page = Empty("IDLE") /\ sse = FALSE
    /\ \E mount \in Slot :
           request = [q \in Slot \cup {Starter} |-> IF q = mount THEN Asked ELSE Free]
    /\ starting = "no" /\ incidents = 0
-----------------------------------------------------------------------------
(* The server.  POST /api/run resets everything under run_lock; from then  *)
(* on the text is a draft of this run, more or less of it.  (An answer     *)
(* that is read meanwhile mixes two runs, like one begun before it.)       *)
Begins ==
    /\ current.status # "RUNNING"
    /\ current' = [status |-> "RUNNING", run |-> current.run + 1, text |-> Draft(current.run + 1)]
    /\ thread' = [thread EXCEPT ![current.run + 1] = "executing"]

(* Started from another window, while there is a run left for this one.    *)
BeginsElsewhere ==
    /\ current.run + (IF starting = "posted" THEN 1 ELSE 0) < MaxRuns
    /\ Begins
    /\ UNCHANGED <<page, sse, request, starting, incidents>>

(* Fault: the status is published before the text.                         *)
FaultyCompletes(r) ==
    \/ /\ thread[r] = "executing"
       /\ current' = [current EXCEPT !.status = "COMPLETED"]
       /\ thread' = [thread EXCEPT ![r] = "completing"]
       /\ UNCHANGED <<page, sse, request, starting, incidents>>
    \/ /\ thread[r] = "completing"
       /\ current' = [current EXCEPT !.text = Final(r)]
       /\ thread' = [thread EXCEPT ![r] = "saving"]
       /\ UNCHANGED <<page, sse, request, starting, incidents>>

(* run_pipeline() returns: status and text change under one lock.          *)
Completes(r) ==
    /\ thread[r] = "executing"
    /\ current' = [current EXCEPT !.status = "COMPLETED",
                                  !.text = Final(r)]
    /\ thread' = [thread EXCEPT ![r] = "saving"]
    /\ UNCHANGED <<page, sse, request, starting, incidents>>

(* It is cancelled or fails: FAILED stands for both, as the page does the  *)
(* same for both.                                                          *)
Stops(r) ==
    /\ thread[r] = "executing"
    /\ current' = [current EXCEPT !.status = "FAILED"]
    /\ thread' = [thread EXCEPT ![r] = "ended"]
    /\ UNCHANGED <<page, sse, request, starting, incidents>>

(* The record is written after that, without a look at what runs by then.  *)
SavesRecord(r) ==
    /\ thread[r] = "saving"
    /\ \E status \in {current.status, "FAILED"} : current' = [current EXCEPT !.status = status]
    /\ thread' = [thread EXCEPT ![r] = "ended"]
    /\ UNCHANGED <<page, sse, request, starting, incidents>>
-----------------------------------------------------------------------------
(* GET /api/status: the fields are read in their order in current_run, so  *)
(* context and run_id after status.                                        *)
ReadStatus(q) ==
    /\ request[q].pc = "asked"
    /\ request' = [request EXCEPT ![q] =
           [pc |-> "reading", answer |-> [Empty(current.status) EXCEPT !.of = current.run]]]
    /\ UNCHANGED <<serverVars, page, sse, starting, incidents>>

ReadRest(q) ==
    LET read == request[q].answer IN
    /\ request[q].pc = "reading"
    /\ request' = [request EXCEPT ![q] = [pc |-> "answered", answer |->
           [status |-> read.status, of |-> read.of, text |-> current.text, run |-> current.run]]]
    /\ UNCHANGED <<serverVars, page, sse, starting, incidents>>
-----------------------------------------------------------------------------
(* setStatus().  The effect runs again when the status is another one: the *)
(* stream and the timer end, and a RUNNING page gets new ones.             *)
Show(answer) ==
    /\ page' = answer
    /\ IF answer.status = page.status THEN UNCHANGED sse
       ELSE sse' = (answer.status = "RUNNING")

(* A message of GET /api/status/stream.  It is received as it is sent; the *)
(* answers to requests show what arrives late.                             *)
ReceiveStatus ==
    /\ sse
    /\ Show(Payload)
    /\ UNCHANGED <<serverVars, request, starting, incidents>>

ReceiveAnswerTo(q) ==
    /\ q \in Slot /\ request[q].pc = "answered"
    /\ Show(request[q].answer)
    /\ request' = [request EXCEPT ![q] = Free]
    /\ UNCHANGED <<serverVars, starting, incidents>>

(* The interval, beside the stream.                                        *)
PollStatus(q) ==
    /\ page.status = "RUNNING"
    /\ q \in Slot /\ request[q] = Free
    /\ request' = [request EXCEPT ![q] = Asked]
    /\ UNCHANGED <<serverVars, page, sse, starting, incidents>>

(* The effect depends on the language too.                                 *)
SwitchLanguage ==
    /\ page.status = "RUNNING"
    /\ sse' = TRUE
    /\ UNCHANGED <<serverVars, page, request, starting, incidents>>
-----------------------------------------------------------------------------
(* handleStartGeneration(): the page shows nothing until the server has    *)
(* answered.  The button is off while a run is shown as busy.              *)
PressStart ==
    /\ page.status \notin Busy /\ starting = "no"
    /\ current.run < MaxRuns
    /\ starting' = "posted"
    /\ Show(Empty("STARTING"))
    /\ UNCHANGED <<serverVars, request, incidents>>

(* An accepted start is followed by a request for the status.              *)
ServeStart ==
    /\ starting = "posted"
    /\ IF current.status = "RUNNING"
       THEN starting' = "refused" /\ UNCHANGED <<serverVars, request>>
       ELSE /\ Begins
            /\ starting' = "accepted"
            /\ request' = [request EXCEPT ![Starter] = Asked]
    /\ UNCHANGED <<page, sse, incidents>>

StartFails ==
    /\ starting = "refused"
    /\ starting' = "no"
    /\ Show([page EXCEPT !.status = "FAILED"])
    /\ UNCHANGED <<serverVars, request, incidents>>

(* Fault: the page shows what it is told, ended or not yet begun.          *)
FaultyShowStarted(answer) == Show(answer)

(* Whatever the answer says, the page begins to follow.                    *)
ShowStarted(answer) == Show([answer EXCEPT !.status = "RUNNING"])

ReceiveStarted ==
    /\ request[Starter].pc = "answered"
    /\ starting' = "no"
    /\ ShowStarted(request[Starter].answer)
    /\ request' = [request EXCEPT ![Starter] = Free]
    /\ UNCHANGED <<serverVars, incidents>>
-----------------------------------------------------------------------------
Incident == incidents < MaxIncidents /\ incidents' = incidents + 1

(* The network: a start or its answer, a request for the status, or the    *)
(* stream is lost.                                                         *)
StartIsLost ==
    /\ Incident
    /\ starting # "no"
    /\ starting' = "no"
    /\ request' = [request EXCEPT ![Starter] = Free]
    /\ Show([page EXCEPT !.status = "FAILED"])
    /\ UNCHANGED <<serverVars>>

RequestIsLost(q) ==
    /\ Incident
    /\ request[q] # Free
    /\ request' = [request EXCEPT ![q] = Free]
    /\ IF q = Starter THEN starting' = "no" /\ ShowStarted(page)
                      ELSE UNCHANGED <<starting, page, sse>>
    /\ UNCHANGED <<serverVars>>

(* onerror closes the stream, and nothing opens it again.                  *)
StreamIsLost ==
    /\ Incident
    /\ sse
    /\ sse' = FALSE
    /\ UNCHANGED <<serverVars, page, request, starting>>
-----------------------------------------------------------------------------
NextPage ==
    \/ BeginsElsewhere
    \/ \E r \in Run : Completes(r) \/ Stops(r) \/ SavesRecord(r)
    \/ \E q \in Slot \cup {Starter} : ReadStatus(q) \/ ReadRest(q) \/ RequestIsLost(q)
    \/ \E q \in Slot : ReceiveAnswerTo(q) \/ PollStatus(q)
    \/ ReceiveStatus \/ StreamIsLost \/ SwitchLanguage
    \/ PressStart \/ ServeStart \/ StartFails \/ ReceiveStarted \/ StartIsLost
-----------------------------------------------------------------------------
PageTypeOK ==
    /\ current \in [status : RunStatus, run : 0..MaxRuns, text : Text]
    /\ thread \in [Run -> {"none", "executing", "completing", "saving", "ended"}]
    /\ page \in Answer
    /\ sse \in BOOLEAN
    /\ request \in [Slot \cup {Starter} ->
                       [pc : {"free", "asked", "reading", "answered"}, answer : Answer]]
    /\ starting \in {"no", "posted", "accepted", "refused"}
    /\ incidents \in 0..MaxIncidents

(* A page that says COMPLETED shows the whole text of that run, which is   *)
(* what its export buttons send: although answers are read in pieces,      *)
(* overtake each other and come from two channels, an unfinished text is   *)
(* never shown as a result.  Excepted is an answer that mixes two runs (of *)
(* and run differ).                                                        *)
CompletedIsWhole ==
    page.status = "COMPLETED" /\ page.of = page.run => page.text # Draft(page.run)

(* A page that shows a run as starting or running shows some day that it   *)
(* has ended, whatever becomes of the stream, of single requests and of    *)
(* the start, and whichever answers overtake each other; only then can the *)
(* user start another.                                                     *)
StartedRunIsFollowed == page.status \in Busy ~> page.status \notin Busy
=============================================================================
