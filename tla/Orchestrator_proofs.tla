-------------------------- MODULE Orchestrator_proofs --------------------------
(***************************************************************************)
(* Theorems about Orchestrator.run_pipeline() for any number of sections,  *)
(* rounds and tries: what is rendered was judged as it stands, no way      *)
(* through the loops leaves the table of transitions, and a cancelled run  *)
(* begins no more than the turns that CancelIsPrompt allows.               *)
(***************************************************************************)
EXTENDS Orchestrator, TLAPS

USE OrchestratorAssumption DEF OrchestratorAssumption

Planning == {"start", "begin", "queries", "research", "plan", "merge"}
Rewriting == {"revise", "fallback", "verify"}

(* The place where the run is determines its state, but for the end.       *)
StateAt ==
    /\ pc \in {"start", "begin"} => state = "INIT"
    /\ pc \in {"queries", "research", "plan"} => state = "PLANNING"
    /\ pc \in {"merge", "draft"} \cup Rewriting => state = "DRAFTING"
    /\ pc = "assemble" => state = "ASSEMBLING"
    /\ pc = "validate" => state = "VALIDATING"
    /\ pc \in {"review", "editorial", "gate"} => state = "REVIEWING"
    /\ pc = "render" => state = "RENDERING"

(* Tries and rounds that are left where they are counted.                  *)
Counted ==
    /\ pc \notin {"verify", "ended"} => try < MaxTries
    /\ pc = "verify" => try < VerifyTries
    /\ pc \in Rewriting => round < MaxRounds
    /\ pc = "fallback" => sec <= count

(* What the review decided still holds of the text at the final gate.      *)
Judged ==
    (pc = "gate" \/ state \in {"RENDERING", "DONE"}) /\ config.reviewers # {} =>
        approved \/ round = MaxRounds

(* No transition of run_pipeline is refused.                               *)
RouteIsLegal == outcome # "illegal_transition"

(* A request during the planning ends the run before the first round, and  *)
(* what was left of the planning is used up on the way; one that comes     *)
(* later counts the turn of the review or the tries of the verification it *)
(* interrupts, and finds no other.                                         *)
Interrupted ==
    /\ pc \in Planning => asked \in Planning \cup {"no"}
    /\ IF cancelled THEN extra <= TurnsLeft(asked) ELSE extra = 0
    /\ asked \in Planning /\ pc \in Planning => extra + TurnsLeft(pc) <= TurnsLeft(asked)
    /\ cancelled /\ pc = "verify" /\ try > 0 => asked = "verify" /\ extra <= try - 1
    /\ cancelled /\ pc = "editorial" => asked = "editorial" /\ extra = 0
    /\ cancelled /\ (pc \in {"gate", "render"} \/ state \in {"RENDERING", "DONE"}) =>
           asked \in {"editorial", "gate", "render"}

IInv == TypeOK /\ StateAt /\ Counted /\ RenderedIsChecked /\ Judged /\ RouteIsLegal /\ Interrupted

(* The loops over the sections of a document end just past its last one.   *)
LEMMA PastTheLast == ASSUME NEW n \in 0..MaxSections PROVE n + 1 \in 1..MaxSections + 1
OBVIOUS

(* Every step keeps the invariant, shown per action and, under it, for the *)
(* types, for the route with its counters, for what was judged, and for    *)
(* the turns after a request to cancel.                                    *)
LEMMA StepIInv == IInv /\ [Next]_vars => IInv'
<1> SUFFICES ASSUME IInv, [Next]_vars PROVE IInv'
  OBVIOUS
<1> USE DEF IInv, Planning, Rewriting, document, TypeOK, Places, Raises, Ends, TransitionTo, Continue,
            Calls, Section, NewText, SetSectionContent, DefaultTransitions, StateAt, At, NextRound
<1>1. CASE Register
  <2>1. TypeOK'
    BY <1>1 DEF Register, Config, PipelineState, Counted, RoundsLeft
  <2>2. StateAt' /\ Counted' /\ RouteIsLegal'
    BY <1>1 DEF Register, Counted, RouteIsLegal, RoundsLeft
  <2>3. RenderedIsChecked' /\ Judged'
    BY <1>1 DEF Register, RoundsLeft, RenderedIsChecked, Judged, MayApprove
  <2>4. Interrupted'
    BY <1>1 DEF Register, Counted, AtCheck, cancelled, Interrupted, TurnsLeft
  <2> QED
    BY <2>1, <2>2, <2>3, <2>4
<1>2. CASE Begin
  <2>1. TypeOK'
    BY <1>2 DEF Begin, Config, PipelineState, Counted, RoundsLeft
  <2>2. StateAt' /\ Counted' /\ RouteIsLegal'
    BY <1>2 DEF Begin, Counted, RouteIsLegal, RoundsLeft
  <2>3. RenderedIsChecked' /\ Judged'
    BY <1>2 DEF Begin, RoundsLeft, RenderedIsChecked, Judged, MayApprove
  <2>4. Interrupted'
    BY <1>2 DEF Begin, Counted, AtCheck, cancelled, Interrupted, TurnsLeft
  <2> QED
    BY <2>1, <2>2, <2>3, <2>4
<1>3. CASE RefuseResearch
  <2>1. TypeOK'
    BY <1>3 DEF RefuseResearch, Config, PipelineState, Counted, RoundsLeft
  <2>2. StateAt' /\ Counted' /\ RouteIsLegal'
    BY <1>3 DEF RefuseResearch, Counted, RouteIsLegal, RoundsLeft
  <2>3. RenderedIsChecked' /\ Judged'
    BY <1>3 DEF RefuseResearch, RoundsLeft, RenderedIsChecked, Judged, MayApprove
  <2>4. Interrupted'
    BY <1>3 DEF RefuseResearch, Counted, AtCheck, cancelled, Interrupted, TurnsLeft
  <2> QED
    BY <2>1, <2>2, <2>3, <2>4
<1>4. CASE GenerateQueries
  <2>1. TypeOK'
    BY <1>4 DEF GenerateQueries, Config, PipelineState, Counted, RoundsLeft
  <2>2. StateAt' /\ Counted' /\ RouteIsLegal'
    BY <1>4 DEF GenerateQueries, Counted, RouteIsLegal, RoundsLeft
  <2>3. RenderedIsChecked' /\ Judged'
    BY <1>4 DEF GenerateQueries, RoundsLeft, RenderedIsChecked, Judged, MayApprove
  <2>4. Interrupted'
    BY <1>4 DEF GenerateQueries, Counted, AtCheck, cancelled, Interrupted, TurnsLeft
  <2> QED
    BY <2>1, <2>2, <2>3, <2>4
<1>5. CASE RunResearch
  <2>1. TypeOK'
    BY <1>5 DEF RunResearch, Config, PipelineState, Counted, RoundsLeft
  <2>2. StateAt' /\ Counted' /\ RouteIsLegal'
    BY <1>5 DEF RunResearch, Counted, RouteIsLegal, RoundsLeft
  <2>3. RenderedIsChecked' /\ Judged'
    BY <1>5 DEF RunResearch, RoundsLeft, RenderedIsChecked, Judged, MayApprove
  <2>4. Interrupted'
    BY <1>5 DEF RunResearch, Counted, AtCheck, cancelled, Interrupted, TurnsLeft
  <2> QED
    BY <2>1, <2>2, <2>3, <2>4
<1>6. CASE Plan
  <2>1. TypeOK'
    BY <1>6 DEF Plan, Config, PipelineState, Counted, RoundsLeft
  <2>2. StateAt' /\ Counted' /\ RouteIsLegal'
    BY <1>6 DEF Plan, Counted, RouteIsLegal, RoundsLeft
  <2>3. RenderedIsChecked' /\ Judged'
    BY <1>6 DEF Plan, RoundsLeft, RenderedIsChecked, Judged, MayApprove
  <2>4. Interrupted'
    BY <1>6 DEF Plan, Counted, AtCheck, cancelled, Interrupted, TurnsLeft
  <2> QED
    BY <2>1, <2>2, <2>3, <2>4
<1>7. CASE Merge
  <2>1. TypeOK'
    <3>1. sound' \in BOOLEAN /\ approved' \in BOOLEAN
      BY <1>7 DEF Merge
    <3>2. config' \in Config /\ state' \in PipelineState /\ asked' \in Places \cup {"no"}
      BY <1>7 DEF Merge, PipelineState
    <3>3. count' \in 0..MaxSections /\ sec' \in 1..MaxSections + 1 /\ written' \subseteq 1..MaxSections
      <4>1. count' \in 0..MaxSections /\ sec' = count' + 1
        BY <1>7 DEF Merge
      <4>2. written' \in SUBSET (1..count')
        BY <1>7 DEF Merge
      <4>3. 1..count' \subseteq 1..MaxSections
        BY <4>1
      <4>4. written' \subseteq 1..MaxSections
        BY <4>2, <4>3
      <4>5. sec' \in 1..MaxSections + 1
        BY <4>1, PastTheLast
      <4> QED
        BY <4>1, <4>4, <4>5
    <3>4. try' \in 0..MaxTries + VerifyTries /\ round' \in 1..MaxRounds /\ extra' \in Nat
      BY <1>7 DEF Merge, Counted
    <3> QED
      BY <1>7, <3>1, <3>2, <3>3, <3>4 DEF Merge
  <2>2. StateAt' /\ Counted' /\ RouteIsLegal'
    BY <1>7 DEF Merge, Counted, RouteIsLegal, RoundsLeft
  <2>3. RenderedIsChecked' /\ Judged'
    BY <1>7 DEF Merge, RoundsLeft, RenderedIsChecked, Judged, MayApprove
  <2>4. Interrupted'
    BY <1>7 DEF Merge, Counted, AtCheck, cancelled, Interrupted, TurnsLeft
  <2> QED
    BY <2>1, <2>2, <2>3, <2>4
<1>8. CASE DraftFromScratch
  <2>1. TypeOK'
    BY <1>8 DEF DraftFromScratch, Config, PipelineState, Counted, RoundsLeft
  <2>2. StateAt' /\ Counted' /\ RouteIsLegal'
    BY <1>8 DEF DraftFromScratch, Counted, RouteIsLegal, RoundsLeft
  <2>3. RenderedIsChecked' /\ Judged'
    BY <1>8 DEF DraftFromScratch, RoundsLeft, RenderedIsChecked, Judged, MayApprove
  <2>4. Interrupted'
    BY <1>8 DEF DraftFromScratch, Counted, AtCheck, cancelled, Interrupted, TurnsLeft
  <2> QED
    BY <2>1, <2>2, <2>3, <2>4
<1>9. CASE DraftSection
  <2>1. TypeOK'
    <3>1. sound' \in BOOLEAN /\ approved' \in BOOLEAN
      BY <1>9 DEF DraftSection
    <3>2. config' \in Config /\ state' \in PipelineState /\ asked' \in Places \cup {"no"}
      BY <1>9 DEF DraftSection, PipelineState
    <3>3. count' \in 0..MaxSections /\ sec' \in 1..MaxSections + 1 /\ written' \subseteq 1..MaxSections
      BY <1>9 DEF DraftSection
    <3>4. try' \in 0..MaxTries + VerifyTries /\ round' \in 1..MaxRounds /\ extra' \in Nat
      BY <1>9 DEF DraftSection, Counted
    <3> QED
      BY <1>9, <3>1, <3>2, <3>3, <3>4 DEF DraftSection
  <2>2. StateAt' /\ Counted' /\ RouteIsLegal'
    BY <1>9 DEF DraftSection, Counted, RouteIsLegal, RoundsLeft
  <2>3. RenderedIsChecked' /\ Judged'
    BY <1>9 DEF DraftSection, RoundsLeft, RenderedIsChecked, Judged, MayApprove
  <2>4. Interrupted'
    BY <1>9 DEF DraftSection, Counted, AtCheck, cancelled, Interrupted, TurnsLeft
  <2> QED
    BY <2>1, <2>2, <2>3, <2>4
<1>10. CASE DraftFails
  <2>1. TypeOK'
    BY <1>10 DEF DraftFails, Config, PipelineState, Counted, RoundsLeft
  <2>2. StateAt' /\ Counted' /\ RouteIsLegal'
    BY <1>10 DEF DraftFails, Counted, RouteIsLegal, RoundsLeft
  <2>3. RenderedIsChecked' /\ Judged'
    BY <1>10 DEF DraftFails, RoundsLeft, RenderedIsChecked, Judged, MayApprove
  <2>4. Interrupted'
    BY <1>10 DEF DraftFails, Counted, AtCheck, cancelled, Interrupted, TurnsLeft
  <2> QED
    BY <2>1, <2>2, <2>3, <2>4
<1>11. CASE EnsureContent
  <2>1. TypeOK'
    BY <1>11 DEF EnsureContent, Config, PipelineState, Counted, RoundsLeft
  <2>2. StateAt' /\ Counted' /\ RouteIsLegal'
    BY <1>11 DEF EnsureContent, Counted, RouteIsLegal, RoundsLeft
  <2>3. RenderedIsChecked' /\ Judged'
    BY <1>11 DEF EnsureContent, RoundsLeft, RenderedIsChecked, Judged, MayApprove
  <2>4. Interrupted'
    BY <1>11 DEF EnsureContent, Counted, AtCheck, cancelled, Interrupted, TurnsLeft
  <2> QED
    BY <2>1, <2>2, <2>3, <2>4
<1>12. CASE Assemble
  <2>1. TypeOK'
    <3>1. sound' \in BOOLEAN /\ approved' \in BOOLEAN
      BY <1>12 DEF Assemble
    <3>2. config' \in Config /\ state' \in PipelineState /\ asked' \in Places \cup {"no"}
      BY <1>12 DEF Assemble, PipelineState
    <3>3. count' \in 0..MaxSections /\ sec' \in 1..MaxSections + 1 /\ written' \subseteq 1..MaxSections
      BY <1>12 DEF Assemble
    <3>4. try' \in 0..MaxTries + VerifyTries /\ round' \in 1..MaxRounds /\ extra' \in Nat
      BY <1>12 DEF Assemble, Counted
    <3> QED
      BY <1>12, <3>1, <3>2, <3>3, <3>4 DEF Assemble
  <2>2. StateAt' /\ Counted' /\ RouteIsLegal'
    BY <1>12 DEF Assemble, Counted, RouteIsLegal, RoundsLeft
  <2>3. RenderedIsChecked' /\ Judged'
    BY <1>12 DEF Assemble, RoundsLeft, RenderedIsChecked, Judged, MayApprove
  <2>4. Interrupted'
    BY <1>12 DEF Assemble, Counted, AtCheck, cancelled, Interrupted, TurnsLeft
  <2> QED
    BY <2>1, <2>2, <2>3, <2>4
<1>13. CASE Validate
  <2>1. TypeOK'
    BY <1>13 DEF Validate, Config, PipelineState, Counted, RoundsLeft
  <2>2. StateAt' /\ Counted' /\ RouteIsLegal'
    BY <1>13 DEF Validate, Counted, RouteIsLegal, RoundsLeft
  <2>3. RenderedIsChecked' /\ Judged'
    BY <1>13 DEF Validate, RoundsLeft, RenderedIsChecked, Judged, MayApprove
  <2>4. Interrupted'
    BY <1>13 DEF Validate, Counted, AtCheck, cancelled, Interrupted, TurnsLeft
  <2> QED
    BY <2>1, <2>2, <2>3, <2>4
<1>14. CASE SkipReview
  <2>1. TypeOK'
    BY <1>14 DEF SkipReview, Config, PipelineState, Counted, RoundsLeft
  <2>2. StateAt' /\ Counted' /\ RouteIsLegal'
    BY <1>14 DEF SkipReview, Counted, RouteIsLegal, RoundsLeft
  <2>3. RenderedIsChecked' /\ Judged'
    BY <1>14 DEF SkipReview, RoundsLeft, RenderedIsChecked, Judged, MayApprove
  <2>4. Interrupted'
    BY <1>14 DEF SkipReview, Counted, AtCheck, cancelled, Interrupted, TurnsLeft
  <2> QED
    BY <2>1, <2>2, <2>3, <2>4
<1>15. CASE EvidenceReview
  <2>1. TypeOK'
    BY <1>15 DEF EvidenceReview, TwoSpecialists, Config, PipelineState, Counted, RoundsLeft
  <2>2. StateAt' /\ Counted' /\ RouteIsLegal'
    BY <1>15 DEF EvidenceReview, TwoSpecialists, Counted, RouteIsLegal, RoundsLeft
  <2>3. RenderedIsChecked' /\ Judged'
    BY <1>15 DEF EvidenceReview, TwoSpecialists, RoundsLeft, RenderedIsChecked, Judged, MayApprove
  <2>4. Interrupted'
    BY <1>15 DEF EvidenceReview, TwoSpecialists, Counted, AtCheck, cancelled, Interrupted, TurnsLeft
  <2> QED
    BY <2>1, <2>2, <2>3, <2>4
<1>16. CASE Approve
  <2>1. TypeOK'
    BY <1>16 DEF Approve, LastReview, GatesReject, MayApprove, Config, PipelineState, Counted, RoundsLeft
  <2>2. StateAt' /\ Counted' /\ RouteIsLegal'
    BY <1>16 DEF Approve, LastReview, GatesReject, MayApprove, Counted, RouteIsLegal, RoundsLeft
  <2>3. RenderedIsChecked' /\ Judged'
    BY <1>16 DEF Approve, LastReview, GatesReject, MayApprove, RoundsLeft, RenderedIsChecked, Judged
  <2>4. Interrupted'
    BY <1>16 DEF Approve, LastReview, GatesReject, MayApprove, Counted, AtCheck, cancelled, Interrupted, TurnsLeft
  <2> QED
    BY <2>1, <2>2, <2>3, <2>4
<1>17. CASE Reject
  <2>1. TypeOK'
    BY <1>17 DEF Reject, LastReview, GatesReject, MayApprove, Config, PipelineState, Counted, RoundsLeft
  <2>2. StateAt' /\ Counted' /\ RouteIsLegal'
    BY <1>17 DEF Reject, LastReview, GatesReject, MayApprove, Counted, RouteIsLegal, RoundsLeft
  <2>3. RenderedIsChecked' /\ Judged'
    BY <1>17 DEF Reject, LastReview, GatesReject, MayApprove, RoundsLeft, RenderedIsChecked, Judged
  <2>4. Interrupted'
    BY <1>17 DEF Reject, LastReview, GatesReject, MayApprove, Counted, AtCheck, cancelled, Interrupted, TurnsLeft
  <2> QED
    BY <2>1, <2>2, <2>3, <2>4
<1>18. CASE ReviseSection
  <2>1. TypeOK'
    <3>1. sound' \in BOOLEAN /\ approved' \in BOOLEAN
      BY <1>18 DEF ReviseSection
    <3>2. config' \in Config /\ state' \in PipelineState /\ asked' \in Places \cup {"no"}
      BY <1>18 DEF ReviseSection, PipelineState
    <3>3. count' \in 0..MaxSections /\ sec' \in 1..MaxSections + 1 /\ written' \subseteq 1..MaxSections
      BY <1>18 DEF ReviseSection
    <3>4. try' \in 0..MaxTries + VerifyTries /\ round' \in 1..MaxRounds /\ extra' \in Nat
      BY <1>18 DEF ReviseSection, Counted
    <3> QED
      BY <1>18, <3>1, <3>2, <3>3, <3>4 DEF ReviseSection
  <2>2. StateAt' /\ Counted' /\ RouteIsLegal'
    BY <1>18 DEF ReviseSection, Counted, RouteIsLegal, RoundsLeft
  <2>3. RenderedIsChecked' /\ Judged'
    BY <1>18 DEF ReviseSection, RoundsLeft, RenderedIsChecked, Judged, MayApprove
  <2>4. Interrupted'
    BY <1>18 DEF ReviseSection, Counted, AtCheck, cancelled, Interrupted, TurnsLeft
  <2> QED
    BY <2>1, <2>2, <2>3, <2>4
<1>19. CASE PatchFails
  <2>1. TypeOK'
    BY <1>19 DEF PatchFails, Config, PipelineState, Counted, RoundsLeft
  <2>2. StateAt' /\ Counted' /\ RouteIsLegal'
    BY <1>19 DEF PatchFails, Counted, RouteIsLegal, RoundsLeft
  <2>3. RenderedIsChecked' /\ Judged'
    BY <1>19 DEF PatchFails, RoundsLeft, RenderedIsChecked, Judged, MayApprove
  <2>4. Interrupted'
    BY <1>19 DEF PatchFails, Counted, AtCheck, cancelled, Interrupted, TurnsLeft
  <2> QED
    BY <2>1, <2>2, <2>3, <2>4
<1>20. CASE FallbackFails
  <2>1. TypeOK'
    BY <1>20 DEF FallbackFails, Config, PipelineState, Counted, RoundsLeft
  <2>2. StateAt' /\ Counted' /\ RouteIsLegal'
    BY <1>20 DEF FallbackFails, Counted, RouteIsLegal, RoundsLeft
  <2>3. RenderedIsChecked' /\ Judged'
    BY <1>20 DEF FallbackFails, RoundsLeft, RenderedIsChecked, Judged, MayApprove
  <2>4. Interrupted'
    BY <1>20 DEF FallbackFails, Counted, AtCheck, cancelled, Interrupted, TurnsLeft
  <2> QED
    BY <2>1, <2>2, <2>3, <2>4
<1>21. CASE Revised
  <2>1. TypeOK'
    BY <1>21 DEF Revised, Config, PipelineState, Counted, RoundsLeft
  <2>2. StateAt' /\ Counted' /\ RouteIsLegal'
    BY <1>21 DEF Revised, Counted, RouteIsLegal, RoundsLeft
  <2>3. RenderedIsChecked' /\ Judged'
    BY <1>21 DEF Revised, RoundsLeft, RenderedIsChecked, Judged, MayApprove
  <2>4. Interrupted'
    BY <1>21 DEF Revised, Counted, AtCheck, cancelled, Interrupted, TurnsLeft
  <2> QED
    BY <2>1, <2>2, <2>3, <2>4
<1>22. CASE VerifySection
  <2>1. TypeOK'
    BY <1>22 DEF VerifySection, Config, PipelineState, Counted, RoundsLeft
  <2>2. StateAt' /\ Counted' /\ RouteIsLegal'
    BY <1>22 DEF VerifySection, Counted, RouteIsLegal, RoundsLeft
  <2>3. RenderedIsChecked' /\ Judged'
    BY <1>22 DEF VerifySection, RoundsLeft, RenderedIsChecked, Judged, MayApprove
  <2>4. Interrupted'
    BY <1>22 DEF VerifySection, Counted, AtCheck, cancelled, Interrupted, TurnsLeft
  <2> QED
    BY <2>1, <2>2, <2>3, <2>4
<1>23. CASE CorrectSection
  <2>1. TypeOK'
    <3>1. sound' \in BOOLEAN /\ approved' \in BOOLEAN
      BY <1>23 DEF CorrectSection
    <3>2. config' \in Config /\ state' \in PipelineState /\ asked' \in Places \cup {"no"}
      BY <1>23 DEF CorrectSection, PipelineState
    <3>3. count' \in 0..MaxSections /\ sec' \in 1..MaxSections + 1 /\ written' \subseteq 1..MaxSections
      BY <1>23 DEF CorrectSection
    <3>4. try' \in 0..MaxTries + VerifyTries /\ round' \in 1..MaxRounds /\ extra' \in Nat
      BY <1>23 DEF CorrectSection, Counted
    <3> QED
      BY <1>23, <3>1, <3>2, <3>3, <3>4 DEF CorrectSection
  <2>2. StateAt' /\ Counted' /\ RouteIsLegal'
    BY <1>23 DEF CorrectSection, Counted, RouteIsLegal, RoundsLeft
  <2>3. RenderedIsChecked' /\ Judged'
    BY <1>23 DEF CorrectSection, RoundsLeft, RenderedIsChecked, Judged, MayApprove
  <2>4. Interrupted'
    BY <1>23 DEF CorrectSection, Counted, AtCheck, cancelled, Interrupted, TurnsLeft
  <2> QED
    BY <2>1, <2>2, <2>3, <2>4
<1>24. CASE VerifyOutOfScope
  <2>1. TypeOK'
    BY <1>24 DEF VerifyOutOfScope, Config, PipelineState, Counted, RoundsLeft
  <2>2. StateAt' /\ Counted' /\ RouteIsLegal'
    BY <1>24 DEF VerifyOutOfScope, Counted, RouteIsLegal, RoundsLeft
  <2>3. RenderedIsChecked' /\ Judged'
    BY <1>24 DEF VerifyOutOfScope, RoundsLeft, RenderedIsChecked, Judged, MayApprove
  <2>4. Interrupted'
    BY <1>24 DEF VerifyOutOfScope, Counted, AtCheck, cancelled, Interrupted, TurnsLeft
  <2> QED
    BY <2>1, <2>2, <2>3, <2>4
<1>25. CASE Verified
  <2>1. TypeOK'
    BY <1>25 DEF Verified, Config, PipelineState, Counted, RoundsLeft
  <2>2. StateAt' /\ Counted' /\ RouteIsLegal'
    BY <1>25 DEF Verified, Counted, RouteIsLegal, RoundsLeft
  <2>3. RenderedIsChecked' /\ Judged'
    BY <1>25 DEF Verified, RoundsLeft, RenderedIsChecked, Judged, MayApprove
  <2>4. Interrupted'
    BY <1>25 DEF Verified, Counted, AtCheck, cancelled, Interrupted, TurnsLeft
  <2> QED
    BY <2>1, <2>2, <2>3, <2>4
<1>26. CASE QualityGate
  <2>1. TypeOK'
    BY <1>26 DEF QualityGate, Config, PipelineState, Counted, RoundsLeft
  <2>2. StateAt' /\ Counted' /\ RouteIsLegal'
    BY <1>26 DEF QualityGate, Counted, RouteIsLegal, RoundsLeft
  <2>3. RenderedIsChecked' /\ Judged'
    BY <1>26 DEF QualityGate, RoundsLeft, RenderedIsChecked, Judged, MayApprove
  <2>4. Interrupted'
    BY <1>26 DEF QualityGate, Counted, AtCheck, cancelled, Interrupted, TurnsLeft
  <2> QED
    BY <2>1, <2>2, <2>3, <2>4
<1>27. CASE Render
  <2>1. TypeOK'
    BY <1>27 DEF Render, Config, PipelineState, Counted, RoundsLeft
  <2>2. StateAt' /\ Counted' /\ RouteIsLegal'
    BY <1>27 DEF Render, Counted, RouteIsLegal, RoundsLeft
  <2>3. RenderedIsChecked' /\ Judged'
    BY <1>27 DEF Render, RoundsLeft, RenderedIsChecked, Judged, MayApprove
  <2>4. Interrupted'
    BY <1>27 DEF Render, Counted, AtCheck, cancelled, Interrupted, TurnsLeft
  <2> QED
    BY <2>1, <2>2, <2>3, <2>4
<1>28. CASE CheckCancelled
  <2>1. TypeOK'
    BY <1>28 DEF CheckCancelled, Config, PipelineState, Counted, RoundsLeft
  <2>2. StateAt' /\ Counted' /\ RouteIsLegal'
    BY <1>28 DEF CheckCancelled, Counted, RouteIsLegal, RoundsLeft
  <2>3. RenderedIsChecked' /\ Judged'
    BY <1>28 DEF CheckCancelled, RoundsLeft, RenderedIsChecked, Judged, MayApprove
  <2>4. Interrupted'
    BY <1>28 DEF CheckCancelled, Counted, AtCheck, cancelled, Interrupted, TurnsLeft
  <2> QED
    BY <2>1, <2>2, <2>3, <2>4
<1>29. CASE Breaks
  <2>1. TypeOK'
    BY <1>29 DEF Breaks, Config, PipelineState, Counted, RoundsLeft
  <2>2. StateAt' /\ Counted' /\ RouteIsLegal'
    BY <1>29 DEF Breaks, Counted, RouteIsLegal, RoundsLeft
  <2>3. RenderedIsChecked' /\ Judged'
    BY <1>29 DEF Breaks, RoundsLeft, RenderedIsChecked, Judged, MayApprove
  <2>4. Interrupted'
    BY <1>29 DEF Breaks, Counted, AtCheck, cancelled, Interrupted, TurnsLeft
  <2> QED
    BY <2>1, <2>2, <2>3, <2>4
<1>30. CASE Cancel
  <2>1. TypeOK' /\ StateAt' /\ Counted' /\ RouteIsLegal'
    BY <1>30 DEF Cancel, Counted, RouteIsLegal
  <2>2. RenderedIsChecked' /\ Judged'
    BY <1>30 DEF Cancel, RenderedIsChecked, Judged
  <2>3. Interrupted'
    BY <1>30 DEF Cancel, AtCheck, cancelled, Interrupted, TurnsLeft
  <2> QED
    BY <2>1, <2>2, <2>3
<1>31. CASE UNCHANGED vars
  BY <1>31 DEF vars, Counted, Judged, RenderedIsChecked, RouteIsLegal, Interrupted, cancelled
<1> QED
  BY <1>1, <1>2, <1>3, <1>4, <1>5, <1>6, <1>7, <1>8, <1>9, <1>10, <1>11, <1>12, <1>13, <1>14,
     <1>15, <1>16, <1>17, <1>18, <1>19, <1>20, <1>21, <1>22, <1>23, <1>24, <1>25, <1>26,
     <1>27, <1>28, <1>29, <1>30, <1>31
     DEF Next, Step

LEMMA Inductive == Spec => []IInv
<1>1. Init => TypeOK
  <2>1. Init => sound \in BOOLEAN /\ approved \in BOOLEAN
    BY DEF Init
  <2> QED
    BY <2>1 DEF Init, TypeOK, PipelineState, Places
<1>2. Init => StateAt /\ Counted /\ RenderedIsChecked /\ Judged /\ RouteIsLegal /\ Interrupted
  BY DEF Init, StateAt, Counted, RenderedIsChecked, Judged, RouteIsLegal, Interrupted, cancelled,
         Planning, Rewriting
<1> QED
  BY <1>1, <1>2, StepIInv, PTL DEF Spec, IInv

(* The variables keep their types; in particular the loops of rounds,      *)
(* tries and sections never leave their bounds.                            *)
THEOREM Typing == Spec => []TypeOK
BY Inductive, PTL DEF IInv

(* What is rendered passes the gates as it stands, and was approved unless *)
(* the review rounds are exhausted, whatever revised it in between.        *)
THEOREM RenderedIsJudged == Spec => []RenderedIsChecked
BY Inductive, PTL DEF IInv

(* transition_to() never refuses a way that run_pipeline takes: no run     *)
(* ends with InvalidTransitionError.                                       *)
THEOREM TransitionsAreLegal == Spec => []RouteIsLegal
BY Inductive, PTL DEF IInv

(* However many rounds and tries are configured, a cancelled run begins no *)
(* more turns than those left of the planning, of the running review or of *)
(* one section's self-verification, and delivers no document unless it was *)
(* cancelled after its last review turn began.                             *)
THEOREM CancelStopsSoon == Spec => []CancelIsPrompt
<1>1. IInv => CancelIsPrompt
  BY DEF IInv, CancelIsPrompt, Interrupted
<1> QED
  BY <1>1, Inductive, PTL
=============================================================================
