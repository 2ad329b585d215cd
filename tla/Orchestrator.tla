---------------------------- MODULE Orchestrator ----------------------------
(***************************************************************************)
(* core/orchestrator.py: one execution of Orchestrator.run_pipeline(), its *)
(* finite state machine, its loops and retries, and the cancellation that  *)
(* another thread requests at any moment.                                  *)
(*                                                                         *)
(* The document is abstracted to what decides the control flow: whether    *)
(* the present text would pass the deterministic gates, whether reviewers  *)
(* approved that very text, and which sections have text at all.  A call   *)
(* of an agent and the code up to the next test of the cancel event are    *)
(* one step: a request that arrives during the call is seen at that test.  *)
(***************************************************************************)
EXTENDS Naturals

CONSTANTS
    MaxSections,    \* bound: sections of a document
    MaxRounds,      \* max_retries of the review loop (3)
    MaxTries,       \* max_sandbox_retries, of drafts and of fallbacks (3)
    VerifyTries     \* attempts of the self-verification of a section (2)

ASSUME OrchestratorAssumption ==
    /\ MaxSections \in Nat
    /\ MaxRounds \in Nat \ {0} /\ MaxTries \in Nat \ {0} /\ VerifyTries \in Nat \ {0}

VARIABLES
    config,     \* what the run was started with
    state,      \* self._state
    pc,         \* where run_pipeline is
    count,      \* how many sections the pipeline has
    sec, try,   \* the section of the running loop, the failed tries on it
    round,      \* the attempt of the review loop
    written,    \* the sections with exportable text
    sound,      \* the gates would pass the present text
    approved,   \* the reviewers approved the present text
    asked,      \* where the run was when its cancel event was set
    extra,      \* agents' turns begun since then
    registry,   \* the status of the run in the registry
    outcome     \* how run_pipeline ended

document == <<count, written, sound, approved>>
vars == <<config, state, pc, document, sec, try, round, asked, extra, registry,
          outcome>>

PipelineState == {"INIT", "PLANNING", "DRAFTING", "ASSEMBLING", "VALIDATING",
                  "REVIEWING", "RENDERING", "DONE", "FAILED"}

DefaultTransitions ==
    [INIT |-> {"PLANNING", "DRAFTING"}, PLANNING |-> {"DRAFTING"},
     DRAFTING |-> {"ASSEMBLING", "REVIEWING"}, ASSEMBLING |-> {"VALIDATING"},
     VALIDATING |-> {"REVIEWING"}, REVIEWING |-> {"DRAFTING", "RENDERING"},
     RENDERING |-> {"DONE"}, DONE |-> {}, FAILED |-> {}]

Places == {"start", "begin", "queries", "research", "plan", "merge", "draft", "assemble",
           "validate", "review", "editorial", "revise", "fallback", "verify", "gate",
           "render", "ended"}

(* research: web search is off, on and configured, or on without a planner *)
(* or a researcher of its own.  reviewers: the agents that are configured. *)
Config == [research : {"off", "ready", "unconfigured"}, continuation : BOOLEAN,
           reviewers : SUBSET {"reviewer", "evidence", "editorial"}, sandbox : BOOLEAN]

Init ==
    /\ config \in Config
    /\ state = "INIT" /\ pc = "start"
    /\ count \in 0..MaxSections
    /\ sec = 1 /\ try = 0 /\ round = 1
    /\ written = {} /\ sound = FALSE /\ approved = FALSE
    /\ asked = "no" /\ extra = 0
    /\ registry = "absent" /\ outcome = "none"
-----------------------------------------------------------------------------
(* The exception handlers.  The registry is told on a best-effort basis;   *)
(* a PipelineError leaves the state as it is.                              *)
Ends(how, newState, status) ==
    /\ pc' = "ended" /\ outcome' = how /\ state' = newState
    /\ registry' \in IF registry = "absent" THEN {registry} ELSE {registry, status}

Raises(how) ==
    CASE how = "cancelled"      -> Ends(how, "FAILED", "cancelled")
      [] how = "pipeline_error" -> Ends(how, state, "failed")
      [] OTHER                  -> Ends(how, "FAILED", "failed")

(* transition_to(), followed by the code at the next place.                *)
TransitionTo(target, place) ==
    IF target \in DefaultTransitions[state]
    THEN state' = target /\ pc' = place /\ UNCHANGED <<outcome, registry>>
    ELSE Raises("illegal_transition")

Continue(place) == pc' = place /\ UNCHANGED <<state, outcome, registry>>

cancelled == asked # "no"

Calls(n) == extra' = IF cancelled THEN extra + n ELSE extra

Section(i, t) == sec' = i /\ try' = t

(* _set_section_content(): the text of the section is now another one.     *)
NewText ==
    /\ sound' \in BOOLEAN
    /\ approved' = FALSE

SetSectionContent ==
    /\ NewText
    /\ written' \in {written \cup {sec}, written \ {sec}}
    /\ UNCHANGED count

(* Fault: the event is tested once per loop, not for every section.        *)
SparseAtCheck ==
    \/ pc \in {"draft", "revise", "verify"} /\ sec = 1 /\ try = 0 /\ sec <= count
    \/ pc = "review"

(* The places where _check_cancelled() is called before anything else.     *)
AtCheck ==
    \/ pc = "draft" /\ sec <= count
    \/ pc = "review"
    \/ pc \in {"revise", "fallback"} /\ sec <= count
    \/ pc = "verify" /\ sec <= count /\ try = 0

At(place) == pc = place /\ ~(cancelled /\ AtCheck)

CheckCancelled ==
    /\ AtCheck /\ cancelled
    /\ Raises("cancelled")
    /\ UNCHANGED <<config, document, sec, try, round, asked, extra>>

(* orch.cancel(), from the thread that serves POST /api/cancel.            *)
Cancel ==
    /\ ~cancelled /\ pc # "ended"
    /\ asked' = pc
    /\ UNCHANGED <<config, state, pc, document, sec, try, round, extra, registry, outcome>>

(* An agent, the sandbox, the renderer or the gates raise something else.  *)
Breaks ==
    /\ pc \notin {"start", "begin", "ended"} /\ ~(cancelled /\ AtCheck)
    /\ Raises("broken")
    /\ UNCHANGED <<config, document, sec, try, round, asked, extra>>
-----------------------------------------------------------------------------
(* The run is registered if the registry can be written.                   *)
Register ==
    /\ At("start")
    /\ registry' \in {"absent", "running"}
    /\ pc' = "begin"
    /\ UNCHANGED <<config, state, document, sec, try, round, asked, extra, outcome>>

Begin ==
    /\ At("begin")
    /\ TransitionTo("PLANNING", IF config.research = "off" THEN "plan" ELSE "queries")
    /\ UNCHANGED <<config, document, sec, try, round, asked, extra>>

RefuseResearch ==
    /\ At("queries")
    /\ config.research = "unconfigured"
    /\ Raises("pipeline_error")
    /\ UNCHANGED <<config, document, sec, try, round, asked, extra>>

(* The planner's model is asked for queries; without any (it may fail, or  *)
(* answer nothing that looks like one) there is no search.                 *)
GenerateQueries ==
    /\ At("queries")
    /\ config.research = "ready"
    /\ Calls(1)
    /\ Continue("research") \/ Continue("plan")
    /\ UNCHANGED <<config, document, sec, try, round, asked>>

(* run_research(): the pool searches, and the researcher curates what was  *)
(* found, if anything was.                                                 *)
RunResearch ==
    /\ At("research")
    /\ Calls(1) \/ Calls(0)
    /\ Continue("plan")
    /\ UNCHANGED <<config, document, sec, try, round, asked>>

Plan ==
    /\ At("plan")
    /\ TransitionTo("DRAFTING", "merge")
    /\ Calls(1)
    /\ UNCHANGED <<config, document, sec, try, round, asked>>

(* _draft_with_merge_operations(): a continuation is merged in one call,   *)
(* which replaces the sections of the pipeline, or falls back to drafting. *)
Merge ==
    /\ At("merge")
    /\ config.continuation
    /\ Calls(1)
    /\ count' \in 0..MaxSections
    /\ written' \in SUBSET (1..count')
    /\ NewText
    /\ Section(count' + 1, 0)
    /\ Continue("draft")
    /\ UNCHANGED <<config, round, asked>>

DraftFromScratch ==
    /\ At("merge")
    /\ Continue("draft")
    /\ \/ Calls(0)
       \/ config.continuation /\ Calls(1)
    /\ UNCHANGED <<config, document, sec, try, round, asked>>

DraftSection ==
    /\ At("draft") /\ sec <= count
    /\ Calls(1)
    /\ SetSectionContent
    /\ Section(sec + 1, 0)
    /\ Continue("draft")
    /\ UNCHANGED <<config, round, asked>>

(* The code block of a draft fails in the sandbox.                         *)
DraftFails ==
    /\ At("draft") /\ sec <= count
    /\ config.sandbox
    /\ Calls(1)
    /\ IF try + 1 = MaxTries
       THEN Raises("pipeline_error") /\ UNCHANGED <<sec, try>>
       ELSE Continue("draft") /\ Section(sec, try + 1)
    /\ UNCHANGED <<config, document, round, asked>>

(* _ensure_drafted_content_exists(), then on to the assembly.              *)
EnsureContent ==
    /\ At("draft") /\ sec > count
    /\ IF written = {} THEN Raises("pipeline_error")
                       ELSE TransitionTo("ASSEMBLING", "assemble")
    /\ UNCHANGED <<config, document, sec, try, round, asked, extra>>

(* assemble_document() replaces the context or refuses the sections.       *)
Assemble ==
    /\ At("assemble")
    /\ \/ NewText /\ TransitionTo("VALIDATING", "validate")
       \/ UNCHANGED <<sound, approved>> /\ Raises("pipeline_error")
    /\ UNCHANGED <<config, count, written, sec, try, round, asked, extra>>

(* The gates run, and what they find is only logged.                       *)
Validate ==
    /\ At("validate")
    /\ TransitionTo("REVIEWING", "review")
    /\ UNCHANGED <<config, document, sec, try, round, asked, extra>>
-----------------------------------------------------------------------------
SkipReview ==
    /\ At("review")
    /\ config.reviewers = {}
    /\ Continue("gate")
    /\ UNCHANGED <<config, document, sec, try, round, asked, extra>>

(* Only a text that passes the gates is shown to the reviewers.            *)
MayApprove == sound

TwoSpecialists == {"evidence", "editorial"} \subseteq config.reviewers

(* The evidence reviewer's turn, with the editorial reviewer's to follow.  *)
EvidenceReview ==
    /\ At("review")
    /\ TwoSpecialists
    /\ MayApprove
    /\ Calls(1)
    /\ Continue("editorial")
    /\ UNCHANGED <<config, document, sec, try, round, asked>>

(* The last turn of a review: of the second specialist, of the only one,   *)
(* or of the general reviewer where there is no specialist.                *)
LastReview ==
    /\ \/ At("editorial")
       \/ At("review") /\ config.reviewers # {} /\ ~TwoSpecialists
    /\ MayApprove
    /\ Calls(1)

Approve ==
    /\ LastReview
    /\ approved' = TRUE
    /\ Continue("gate")
    /\ UNCHANGED <<config, count, written, sound, sec, try, round, asked>>

(* Fault: the loop ends one round early.                                   *)
FaultyRoundsLeft == round + 1 < MaxRounds

RoundsLeft == round < MaxRounds

(* The gates reject without a turn of a reviewer.                          *)
GatesReject == At("review") /\ config.reviewers # {} /\ ~sound /\ Calls(0)

(* The gates or the reviewers reject: back to the writer, or after the     *)
(* last round on with the text as it is.                                   *)
Reject ==
    /\ GatesReject \/ LastReview
    /\ Section(1, 0)
    /\ IF RoundsLeft THEN TransitionTo("DRAFTING", "revise") ELSE Continue("gate")
    /\ UNCHANGED <<config, document, round, asked>>

(* A revised section is taken over: the patch applied, ran and kept to the *)
(* section, or the full-section fallback did.                              *)
ReviseSection ==
    /\ At("revise") \/ At("fallback")
    /\ sec <= count
    /\ Calls(1)
    /\ SetSectionContent
    /\ Section(sec + 1, 0)
    /\ Continue("revise")
    /\ UNCHANGED <<config, round, asked>>

PatchFails ==
    /\ At("revise") /\ sec <= count
    /\ Calls(1)
    /\ Continue("fallback")
    /\ UNCHANGED <<config, document, sec, try, round, asked>>

FallbackFails ==
    /\ At("fallback")
    /\ Calls(1)
    /\ IF try + 1 = MaxTries
       THEN Raises("pipeline_error") /\ UNCHANGED <<sec, try>>
       ELSE Continue("fallback") /\ Section(sec, try + 1)
    /\ UNCHANGED <<config, document, round, asked>>

NextRound ==
    /\ TransitionTo("REVIEWING", "review")
    /\ round' = round + 1
    /\ Section(1, 0)

(* All sections are revised; the writer checks them against the reason, if *)
(* the rejection came with one.                                            *)
Revised ==
    /\ At("revise") /\ sec > count
    /\ \/ Continue("verify") /\ Section(1, 0) /\ UNCHANGED round
       \/ NextRound
    /\ UNCHANGED <<config, document, asked, extra>>

VerifySection ==
    /\ At("verify") /\ sec <= count
    /\ Calls(1)
    /\ Section(sec + 1, 0)
    /\ Continue("verify")
    /\ UNCHANGED <<config, document, round, asked>>

(* The writer corrects the section instead.  The correction is taken over  *)
(* even if its code fails in the sandbox, and is looked at once more.      *)
CorrectSection ==
    /\ At("verify") /\ sec <= count
    /\ Calls(1)
    /\ SetSectionContent
    /\ IF try + 1 = VerifyTries THEN Section(sec + 1, 0) ELSE Section(sec, try + 1)
    /\ Continue("verify")
    /\ UNCHANGED <<config, round, asked>>

(* Fault: a refused answer starts the attempts on the section anew.        *)
FaultyVerifyOutOfScope ==
    /\ At("verify") /\ sec <= count
    /\ Calls(1)
    /\ Continue("verify")
    /\ Section(sec, 0)
    /\ UNCHANGED <<config, document, round, asked>>

(* The answer is not one section: once more, then the run fails.           *)
VerifyOutOfScope ==
    /\ At("verify") /\ sec <= count
    /\ Calls(1)
    /\ IF try + 1 = VerifyTries
       THEN Raises("pipeline_error") /\ UNCHANGED <<sec, try>>
       ELSE Continue("verify") /\ Section(sec, try + 1)
    /\ UNCHANGED <<config, document, round, asked>>

Verified ==
    /\ At("verify") /\ sec > count
    /\ NextRound
    /\ UNCHANGED <<config, document, asked, extra>>
-----------------------------------------------------------------------------
(* The final gates, on the text that would be rendered.                    *)
QualityGate ==
    /\ At("gate")
    /\ IF sound THEN TransitionTo("RENDERING", "render") ELSE Raises("pipeline_error")
    /\ UNCHANGED <<config, document, sec, try, round, asked, extra>>

Render ==
    /\ At("render")
    /\ IF "DONE" \in DefaultTransitions[state]
       THEN Ends("returned", "DONE", "succeeded")
       ELSE Raises("illegal_transition")
    /\ UNCHANGED <<config, document, sec, try, round, asked, extra>>

Step ==
    \/ Register \/ Begin \/ RefuseResearch \/ GenerateQueries \/ RunResearch \/ Plan
    \/ Merge \/ DraftFromScratch
    \/ DraftSection \/ DraftFails \/ EnsureContent \/ Assemble \/ Validate
    \/ SkipReview \/ EvidenceReview \/ Approve \/ Reject
    \/ ReviseSection \/ PatchFails \/ FallbackFails \/ Revised
    \/ VerifySection \/ CorrectSection \/ VerifyOutOfScope \/ Verified
    \/ QualityGate \/ Render
    \/ CheckCancelled \/ Breaks

Next == Step \/ Cancel

Spec == Init /\ [][Next]_vars

(* The thread that runs the pipeline is scheduled, and every call of an    *)
(* agent returns or raises some day (the agents' clients time out).        *)
FairSpec == Spec /\ WF_vars(Step)
-----------------------------------------------------------------------------
TypeOK ==
    /\ config \in Config /\ state \in PipelineState /\ pc \in Places
    /\ count \in 0..MaxSections /\ sec \in 1..(MaxSections + 1)
    /\ try \in 0..(MaxTries + VerifyTries) /\ round \in 1..MaxRounds
    /\ written \subseteq 1..MaxSections
    /\ sound \in BOOLEAN /\ approved \in BOOLEAN
    /\ asked \in Places \cup {"no"} /\ extra \in Nat
    /\ registry \in {"absent", "running", "succeeded", "failed", "cancelled"}
    /\ outcome \in {"none", "returned", "cancelled", "pipeline_error", "broken",
                    "illegal_transition"}

(* What is rendered passes the gates as it stands, after every revision    *)
(* and correction; and where there are reviewers, either they approved     *)
(* exactly this text or the review rounds are exhausted.                   *)
RenderedIsChecked ==
    state \in {"RENDERING", "DONE"} =>
        /\ sound
        /\ config.reviewers # {} => approved \/ round = MaxRounds

(* The turns that may still begin when the run is asked to stop at a       *)
(* place: the planning is not tested (queries, curation, plan and merge),  *)
(* nor are the second of two special reviewers and the tries left of one   *)
(* section's self-verification.                                            *)
TurnsLeft(place) ==
    CASE place \in {"start", "begin", "queries"} -> 4
      [] place = "research" -> 3
      [] place = "plan" -> 2
      [] place \in {"merge", "editorial"} -> 1
      [] place = "verify" -> VerifyTries - 1
      [] OTHER -> 0

(* A cancelled run stops soon: no more turns of agents begin than those    *)
(* left of the planning, of the running review or of one section's self-   *)
(* verification; and a run that was cancelled before the last review turn  *)
(* delivers no document.                                                   *)
CancelIsPrompt ==
    cancelled =>
        /\ extra <= TurnsLeft(asked)
        /\ state \in {"RENDERING", "DONE"} => asked \in {"editorial", "gate", "render"}

(* Every run ends: rounds, retries and fallbacks are bounded, whatever the *)
(* agents answer; and none ends because transition_to refuses a way that   *)
(* run_pipeline takes through its states (InvalidTransitionError).         *)
Terminates == <>(pc = "ended" /\ outcome # "illegal_transition")

(* docs/ORCHESTRATION.md, state FAILED: "error or cancellation"; every     *)
(* state has an edge "error/cancel" to it.                                 *)
ErrorsEndInFailed ==
    pc = "ended" /\ outcome # "returned" => state = "FAILED"
=============================================================================
