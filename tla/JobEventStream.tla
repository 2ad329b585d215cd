--------------------------- MODULE JobEventStream ---------------------------
(***************************************************************************)
(* jobs/router.py: the server-sent events of a job, from the job_events    *)
(* rows that its changes of status commit to the job that a browser shows. *)
(* The server's generator polls the rows, remembers which it has seen, and *)
(* sends each new one together with a snapshot of the job.  The client is  *)
(* ui/app/components/jobs-workspace.tsx: it loads snapshots, opens a       *)
(* stream for the selected job, resumes it after the last event it got,    *)
(* and polls while there is no stream.  A job changes as JobContract says, *)
(* which jobs/lifecycle.py implements (module JobLifecycle).               *)
(***************************************************************************)
EXTENDS Naturals, FiniteSets, Sequences, SequencesExt, Functions

CONSTANTS
    Job,
    NoJob,
    MaxChanges,     \* bound: changes of all jobs
    MaxAnswers,     \* bound: answers to snapshot requests under way
    MaxErrors       \* bound: errors of the connection and of requests

ASSUME JobEventStreamAssumption ==
    /\ NoJob \notin Job
    /\ MaxChanges \in Nat /\ MaxAnswers \in Nat \ {0} /\ MaxErrors \in Nat

VARIABLES
    \* the database; the n-th event of a job is the one committed n-th
    history,    \* history[j][n]: the status that the n-th event announces
    listed,     \* listed[j]: the events in the order of created_at
    \* the connection
    stream,     \* the server's generator, or Closed
    wire,       \* the messages sent and not yet received
    \* the client
    selected,   \* the job whose details are shown
    view,       \* view[j]: how many events old the shown snapshot of j is
    lastEvent,  \* the event received last, on any stream
    live,       \* the connection has reported that it is open
    polling, retrying,  \* the timers that poll and that reconnect
    asked,      \* requests for a snapshot: of a job, or of all with NoJob
    answers,    \* answers under way, with what the server read
    failed,     \* the client shows an error, with a button to try again
    errors      \* how many errors there have been

database == <<history, listed>>
connection == <<stream, wire, live, polling, retrying>>
client == <<selected, view, lastEvent, asked, answers, failed>>
vars == <<database, connection, client, errors>>

JobStatus == {"PENDING", "QUEUED", "RUNNING", "SUCCEEDED", "FAILED", "CANCELLED"}
terminal == {"SUCCEEDED", "FAILED", "CANCELLED"}

MaxEvents == MaxChanges + 1

Event == [job : Job, n : 1..MaxEvents]
NoEvent == [job |-> NoJob, n |-> 0]
Message == [event : Event, version : 1..MaxEvents]

(* loaded: the version of the job that the poll's session has read, once   *)
(* it has; batch: the rows that the poll has still to send.                *)
Stream == [pc : {"closed", "new", "polling", "sending"}, job : Job \cup {NoJob},
           resume : Event \cup {NoEvent}, seen : SUBSET (1..MaxEvents),
           batch : Seq(1..MaxEvents), loaded : 0..MaxEvents, polled : BOOLEAN]
Fresh(pc, j, resume) == [pc |-> pc, job |-> j, resume |-> resume, seen |-> {},
                         batch |-> <<>>, loaded |-> 0, polled |-> FALSE]
Closed == Fresh("closed", NoJob, NoEvent)

Version(j) == Len(history[j])

Init ==
    /\ history = [j \in Job |-> <<"PENDING">>]
    /\ listed = [j \in Job |-> <<1>>]
    /\ stream = Closed /\ wire = <<>>
    /\ selected = NoJob /\ view = [j \in Job |-> 0]
    /\ lastEvent = NoEvent
    /\ live = FALSE /\ polling = FALSE /\ retrying = FALSE
    /\ asked \in {{j} : j \in Job \cup {NoJob}}
    /\ answers = {} /\ failed = FALSE /\ errors = 0
-----------------------------------------------------------------------------
(* The job as its contract sees it.                                        *)
Runs(h) == Cardinality({n \in DOMAIN h : h[n] = "RUNNING"})

Contract == INSTANCE JobContract WITH
    phase <- [j \in Job |-> Last(history[j])],
    runs <- [j \in Job |-> Runs(history[j])],
    result <- [j \in Job |-> IF Last(history[j]) = "SUCCEEDED" THEN Runs(history[j]) ELSE 0]

(* A change of status commits with its event.  created_at is the start of  *)
(* the transaction, so the new event may be listed before one that was     *)
(* committed earlier; job.created precedes them all.                       *)
Commit(j) ==
    /\ FoldFunction(+, 0, [k \in Job |-> Version(k) - 1]) < MaxChanges
    /\ \E status \in JobStatus \ {Last(history[j])} :
           history' = [history EXCEPT ![j] = Append(@, status)]
    /\ Contract!CNext
    /\ \E i \in {Version(j), Version(j) + 1} \ {1} :
           listed' = [listed EXCEPT ![j] = InsertAt(@, i, Version(j) + 1)]
    /\ UNCHANGED <<connection, client, errors>>
-----------------------------------------------------------------------------
(* Fault: a resume point that was reached is not forgotten.                *)
FaultyResumeAfter(rows) == stream.resume

(* The rows up to the resume point are taken for seen, or all of them if   *)
(* it is not there.                                                        *)
ResumeAt(rows) == IF stream.resume.job = stream.job /\ stream.resume.n \in ToSet(rows)
                  THEN CHOOSE i \in DOMAIN rows : rows[i] = stream.resume.n
                  ELSE 0

ResumeAfter(rows) == IF ResumeAt(rows) = 0 THEN stream.resume ELSE NoEvent

SeenBefore(rows) ==
    IF stream.resume # NoEvent
    THEN stream.seen \cup
         IF ResumeAt(rows) = 0 THEN ToSet(rows) ELSE ToSet(SubSeq(rows, 1, ResumeAt(rows)))
    ELSE IF stream.seen = {} THEN ToSet(rows) ELSE stream.seen

(* The rows that the loop has before it: it passes over what it has seen.  *)
Unseen(rows, seen) == {i \in DOMAIN rows : rows[i] \notin seen}
From(rows, seen) ==
    IF Unseen(rows, seen) = {} THEN <<>> ELSE SubSeq(rows, Min(Unseen(rows, seen)), Len(rows))

(* One turn of the generator's loop, in a session of its own.              *)
Poll ==
    LET rows == listed[stream.job]
        seen == SeenBefore(rows)
        batch == From(rows, seen) IN
    /\ stream.pc \in {"new", "polling"}
    /\ stream' = [stream EXCEPT !.pc = IF batch = <<>> THEN "polling" ELSE "sending",
                                !.resume = ResumeAfter(rows), !.seen = seen,
                                !.batch = batch, !.polled = TRUE]
    /\ UNCHANGED <<database, wire, live, polling, retrying, client, errors>>

(* The session reads the job for the first row and keeps it for the rest.  *)
Loaded == IF stream.loaded = 0 THEN Version(stream.job) ELSE stream.loaded

(* Fault: one session serves all polls, so the job is read only once.      *)
FaultyKept(rest) == Loaded
Kept(rest) == IF rest = <<>> THEN 0 ELSE Loaded

Send ==
    LET n == Head(stream.batch)
        seen == stream.seen \cup {n}
        rest == From(Tail(stream.batch), seen) IN
    /\ stream.pc = "sending"
    /\ wire' = Append(wire, [event |-> [job |-> stream.job, n |-> n], version |-> Loaded])
    /\ stream' = [stream EXCEPT !.pc = IF rest = <<>> THEN "polling" ELSE "sending",
                                !.seen = seen, !.batch = rest, !.loaded = Kept(rest)]
    /\ UNCHANGED <<database, live, polling, retrying, client, errors>>

(* GET /api/jobs and GET /api/jobs/{job_id}.                               *)
Serve(x) ==
    /\ x \in asked
    /\ Cardinality(answers) < MaxAnswers
    /\ asked' = asked \ {x}
    /\ answers' = answers \cup
           {[of |-> x, versions |-> [j \in Job |-> IF x \in {j, NoJob} THEN Version(j) ELSE 0]]}
    /\ UNCHANGED <<database, connection, selected, view, lastEvent, failed, errors>>
-----------------------------------------------------------------------------
Shown(sel, v) == IF sel = NoJob THEN "none" ELSE history[sel][v[sel]]
Active(sel, v) == sel # NoJob /\ Shown(sel, v) \notin terminal

(* connect(): the stream resumes after the event received last.            *)
Connect(sel) == stream' = Fresh("new", sel, lastEvent')

(* The client shows another job or another snapshot.  The effect runs      *)
(* again if the selected job or its status changed: its stream and timers  *)
(* are given up, and an active job gets a new stream.                      *)
Render(sel, v) ==
    /\ selected' = sel /\ view' = v
    /\ IF sel = selected /\ Shown(sel, v) = Shown(selected, view)
       THEN UNCHANGED connection
       ELSE /\ wire' = <<>> /\ live' = FALSE /\ polling' = FALSE /\ retrying' = FALSE
            /\ IF Active(sel, v) THEN Connect(sel) ELSE stream' = Closed

(* The user selects a job of the list, or tries again after an error.      *)
Select(j) ==
    /\ view[j] # 0 /\ j # selected
    /\ UNCHANGED lastEvent
    /\ Render(j, view)
    /\ UNCHANGED <<database, asked, answers, failed, errors>>

TryAgain ==
    /\ failed
    /\ failed' = FALSE
    /\ asked' = asked \cup {selected}
    /\ UNCHANGED <<database, connection, selected, view, lastEvent, answers, errors>>

(* load(): the snapshot replaces the shown one, and its job is selected;   *)
(* the list selects a remembered, an active or the first job.              *)
ReceiveAnswer(a) ==
    /\ a \in answers
    /\ answers' = answers \ {a}
    /\ UNCHANGED lastEvent
    /\ IF a.of = NoJob
       THEN \E j \in Job : Render(j, a.versions)
       ELSE Render(a.of, [view EXCEPT ![a.of] = a.versions[a.of]])
    /\ UNCHANGED <<database, asked, failed, errors>>

RequestFails(x) ==
    /\ x \in asked
    /\ errors < MaxErrors /\ errors' = errors + 1
    /\ asked' = asked \ {x}
    /\ failed' = TRUE
    /\ UNCHANGED <<database, connection, selected, view, lastEvent, answers>>

OnOpen ==
    /\ stream.pc # "closed" /\ ~live
    /\ live' = TRUE /\ polling' = FALSE
    /\ UNCHANGED <<database, stream, wire, retrying, client, errors>>

(* onmessage: a repetition of the last event is ignored.                   *)
OnMessage ==
    LET m == Head(wire) IN
    /\ live /\ wire # <<>>
    /\ lastEvent' = m.event
    /\ IF m.event # lastEvent /\ Shown(selected, [view EXCEPT ![m.event.job] = m.version])
                                     # Shown(selected, view)
       THEN Render(selected, [view EXCEPT ![m.event.job] = m.version])
       ELSE /\ wire' = Tail(wire)
            /\ view' = IF m.event = lastEvent THEN view
                                              ELSE [view EXCEPT ![m.event.job] = m.version]
            /\ UNCHANGED <<stream, live, polling, retrying, selected>>
    /\ UNCHANGED <<database, asked, answers, failed, errors>>

(* Fault: only a stream that had been opened is connected again.           *)
FaultyOnError ==
    /\ stream.pc # "closed"
    /\ errors < MaxErrors /\ errors' = errors + 1
    /\ stream' = Closed /\ wire' = <<>> /\ live' = FALSE
    /\ polling' = TRUE /\ retrying' = live
    /\ asked' = asked \cup {selected}
    /\ UNCHANGED <<database, selected, view, lastEvent, answers, failed>>

(* onerror: the stream is closed, the client polls and sets the timer that *)
(* connects again.                                                         *)
OnError ==
    /\ stream.pc # "closed"
    /\ errors < MaxErrors /\ errors' = errors + 1
    /\ stream' = Closed /\ wire' = <<>> /\ live' = FALSE
    /\ polling' = TRUE /\ retrying' = TRUE
    /\ asked' = asked \cup {selected}
    /\ UNCHANGED <<database, selected, view, lastEvent, answers, failed>>

Retry ==
    /\ retrying
    /\ retrying' = FALSE
    /\ UNCHANGED lastEvent
    /\ Connect(selected)
    /\ UNCHANGED <<database, wire, live, polling, selected, view, asked, answers, failed, errors>>

PollTimer ==
    /\ polling
    /\ asked' = asked \cup {selected}
    /\ UNCHANGED <<database, connection, selected, view, lastEvent, answers, failed, errors>>
-----------------------------------------------------------------------------
Next ==
    \/ \E j \in Job : Commit(j) \/ Select(j)
    \/ \E x \in Job \cup {NoJob} : Serve(x) \/ RequestFails(x)
    \/ \E a \in answers : ReceiveAnswer(a)
    \/ Poll \/ Send
    \/ TryAgain \/ OnOpen \/ OnMessage \/ OnError \/ Retry \/ PollTimer

Spec == Init /\ [][Next]_vars

(* The server's loop turns, and the browser dispatches what arrives.       *)
(* Nothing is assumed of the user, the jobs and the network's errors.      *)
FairSpec ==
    /\ Spec
    /\ WF_vars(Poll) /\ WF_vars(Send)
    /\ WF_vars(OnOpen) /\ WF_vars(OnMessage) /\ WF_vars(Retry) /\ WF_vars(PollTimer)
    /\ \A x \in Job \cup {NoJob} : WF_vars(Serve(x))
    /\ WF_vars(\E a \in answers : ReceiveAnswer(a))
-----------------------------------------------------------------------------
TypeOK ==
    /\ history \in [Job -> Seq(JobStatus)]
    /\ \A j \in Job : Version(j) <= MaxEvents /\ ToSet(listed[j]) = 1..Version(j)
    /\ stream \in Stream
    /\ wire \in Seq(Message)
    /\ selected \in Job \cup {NoJob}
    /\ view \in [Job -> 0..MaxEvents]
    /\ lastEvent \in Event \cup {NoEvent}
    /\ failed \in BOOLEAN /\ live \in BOOLEAN /\ polling \in BOOLEAN /\ retrying \in BOOLEAN
    /\ asked \subseteq Job \cup {NoJob}
    /\ answers \subseteq [of : Job \cup {NoJob}, versions : [Job -> 0..MaxEvents]]
    /\ errors \in 0..MaxErrors

(* "Events are always tied to one job" (FE-03 PLAN.md), and the job that   *)
(* is sent with an event shows at least what the event announces; within a *)
(* stream no event is sent twice and no message shows an older job than    *)
(* the one before it, in whatever order the rows are listed.               *)
StreamIsCurrent ==
    \A i \in DOMAIN wire :
        /\ wire[i].event.job = stream.job
        /\ wire[i].version >= wire[i].event.n
        /\ \A k \in 1..(i - 1) :
               wire[k].event # wire[i].event /\ wire[k].version <= wire[i].version

(* "Live update has fallback polling/reconnect" (FE-03 PLAN.md): while the *)
(* selected job is active the client has a stream of that job, or polls    *)
(* and is going to connect again; otherwise it has neither.                *)
ClientKeepsWatch ==
    IF Active(selected, view)
    THEN stream.job = selected \/ (polling /\ retrying)
    ELSE stream = Closed /\ ~polling /\ ~retrying

(* "GET /api/jobs/{job_id}/events: every data contains a JobEvent" (job-   *)
(* api.md): once a stream has polled, every event that is committed        *)
(* reaches the client, wherever it is listed, unless the stream is closed. *)
Owed(j, n) == /\ stream.job = j /\ stream.polled
              /\ n <= Version(j) /\ n \notin stream.seen

Received(j, n) == lastEvent = [job |-> j, n |-> n] \/ stream.job # j \/ ~stream.polled

NewsIsReceived ==
    \A j \in Job, n \in 1..MaxEvents : Owed(j, n) ~> Received(j, n)

(* The same of the streams that resume after an event of their own job, as *)
(* after a reconnection, or that have no resume point.                     *)
OwnNewsIsReceived ==
    \A j \in Job, n \in 1..MaxEvents :
        (Owed(j, n) /\ stream.resume.job \in {NoJob, j}) ~> Received(j, n)

(* "On opening, the client reads the jobs and resumes with snapshot + SSE" *)
(* (job-api.md): an active job that is shown as it was is shown as it is   *)
(* some day.                                                               *)
Outdated(j, v) == selected = j /\ view[j] = v /\ v < Version(j) /\ Active(j, view)

ShownJobIsRefreshed ==
    \A j \in Job, v \in 1..MaxEvents : Outdated(j, v) ~> ~Outdated(j, v)
=============================================================================
