----------------------------- MODULE WebInterface -----------------------------
(***************************************************************************)
(* ui/app/page.tsx: one web interface with two ways to follow the work,    *)
(* chosen when it is built.  The service profile follows jobs (module      *)
(* JobEventStream), the local profile the server's current run (LivePage). *)
(***************************************************************************)
EXTENDS JobEventStream, LivePage

VARIABLE profile    \* editorRuntimeProfile()

webVars == <<vars, pageVars, profile>>

WebInit ==
    /\ Init /\ InitPage
    /\ \/ profile = "service"
       \/ profile = "local" /\ asked = {NoJob}

WebNext ==
    \/ /\ profile = "service" /\ Next
       /\ UNCHANGED <<pageVars, profile>>
    \/ /\ profile = "local" /\ NextPage
       /\ UNCHANGED <<vars, profile>>

InService(A) == profile = "service" /\ A /\ UNCHANGED <<pageVars, profile>>
Locally(A) == profile = "local" /\ A /\ UNCHANGED <<vars, profile>>

(* The server's loops turn, requests are answered, the browser dispatches  *)
(* what arrives and fires its timers; a pipeline ends, which is Terminates *)
(* of module Orchestrator.  Nothing is assumed of the users, the jobs, the *)
(* network's errors, and the stream of the local profile.                  *)
WebSpec ==
    /\ WebInit /\ [][WebNext]_webVars
    /\ WF_webVars(InService(Poll)) /\ WF_webVars(InService(Send))
    /\ WF_webVars(InService(OnOpen)) /\ WF_webVars(InService(OnMessage))
    /\ WF_webVars(InService(Retry)) /\ WF_webVars(InService(PollTimer))
    /\ \A x \in Job \cup {NoJob} : WF_webVars(InService(Serve(x)))
    /\ WF_webVars(InService(\E a \in answers : ReceiveAnswer(a)))
    /\ \A r \in Run : WF_webVars(Locally(Completes(r) \/ Stops(r)))
    /\ \A q \in Slot \cup {Starter} : WF_webVars(Locally(ReadStatus(q) \/ ReadRest(q)))
    /\ \A q \in Slot : (/\ WF_webVars(Locally(PollStatus(q)))
                        /\ WF_webVars(Locally(ReceiveAnswerTo(q))))
    /\ WF_webVars(Locally(ServeStart \/ StartFails \/ ReceiveStarted))
=============================================================================
