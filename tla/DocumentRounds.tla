--------------------------- MODULE DocumentRounds ---------------------------
(***************************************************************************)
(* The rounds a document goes through: it is continued by a pipeline run,  *)
(* which resolves the contract of its artifact, may search the web, merges *)
(* or drafts, assembles, reviews and gates a new version (the path of      *)
(* core/orchestrator.py through manifests/, core/researcher.py,            *)
(* core/merge_operations.py, core/document_assembly.py, contracts/drift.py *)
(* and core/quality_gate.py), or it is revised in place by line patches    *)
(* (core/revision.py).  A refused round leaves the document as it was.     *)
(***************************************************************************)
EXTENDS DocumentEditing, QualityGate, ArtifactContracts, ResearchPool, Reviewing

CONSTANTS
    FirstVersions,   \* versions a document may start from: [doc, ledger, calcs,
                     \* artifact, uploaded, hints]
    Requests,        \* continuations that may be asked for: [override, groups,
                     \* artifact, text, mode, search]
    WriterPlans,     \* operations the writer may send; <<>> keeps the default
    Outputs,         \* functions from content roles to text
    DraftTexts,      \* what the writer may draft for a section
    Batches,         \* sets of calculation records one sandbox run may emit
    Patches,         \* sequences of replacement blocks; <<>> changes nothing
    Answers,         \* what a reviewer may answer
    RevisionRequests,\* revisions that may be asked for: [affected, named, calculates]
    MaxRounds,       \* bound on the rounds of one document
    MaxTries         \* review attempts of each of these rounds (3 in the code)

(***************************************************************************)
(* A document starts as what an earlier run published, which its gate has  *)
(* let pass, or as an upload, which has no record and shows no result.  A  *)
(* sandbox run emits finitely many records.  Cues are counted, and the     *)
(* metadata of an upload names no artifact.  A document has sections, each *)
(* with a name of its own; the names of terminal sections are those of     *)
(* continuation.py, which has references among them and no empty one.      *)
(***************************************************************************)
VersionFields == {"doc", "ledger", "calcs", "artifact", "uploaded", "hints"}

ASSUME RoundsAssumption ==
    /\ \A v \in FirstVersions :
          /\ DOMAIN v = VersionFields
          /\ IsDocument(v.doc) /\ v.doc # <<>>
          /\ v.uploaded => v.artifact = NoArtifact
          /\ IsFiniteSet(v.calcs) /\ LedgerIsValid(v.calcs) /\ Calculations(v.doc, v.calcs) = {}
    /\ \A b \in Batches : IsFiniteSet(b)
    /\ \A r \in Requests :
          r.override \in Intents \cup {None} /\ \A id \in DOMAIN r.text : r.text[id] \in Nat
    /\ \A p \in WriterPlans : IsSequence(p)
    /\ \A o \in Outputs : \A role \in DOMAIN o : IsSequence(o[role])
    /\ \A t \in DraftTexts : IsSequence(t)
    /\ \A p \in Patches : \A i \in DOMAIN p : IsSequence(p[i].lines)
    /\ "references" \in TerminalNames /\ "" \notin TerminalNames
    /\ Len(CueOrder) \in Nat /\ DOMAIN CueOrder = 1..Len(CueOrder)

VARIABLES
    version,   \* the published version
    stage,     \* where the run is: ready, researching, drafting, assembling,
               \* reviewing, revising, verifying, gate
    turn,      \* the section it is at, and the corrections made to it
    request,   \* the continuation the run was asked for
    contract,  \* the contract of the run
    source,    \* the document state the run extracted from the version
    plan,      \* the operations the run applied; <<>> when it drafted instead
    draft,     \* the document the run is making: doc, ledger, claims and calcs
    tries,     \* review attempts made
    rounds     \* rounds so far

roundVars == <<version, stage, turn, request, contract, source, plan, draft, tries, rounds, pool>>

FirstTurn == [section |-> 1, corrections |-> 0]

NoSource == [names |-> {}, terminals |-> {}, registry |-> <<>>, language |-> "unknown"]
NoRequest == [override |-> None, groups |-> {}, artifact |-> NoArtifact, text |-> <<>>,
              mode |-> "standard", search |-> FALSE]
Empty    == [doc |-> <<>>, ledger |-> <<>>, claims |-> {}, calcs |-> {}]

InitRounds ==
    /\ version \in FirstVersions
    /\ stage = "ready" /\ turn = FirstTurn /\ source = NoSource /\ plan = <<>> /\ draft = Empty
    /\ request = NoRequest /\ contract = NoContract /\ pool = Closed /\ tries = 0 /\ rounds = 0

(***************************************************************************)
(* The end of a run: what it kept in memory is gone.                       *)
(***************************************************************************)
EndRun ==
    /\ stage' = "ready" /\ turn' = FirstTurn /\ source' = NoSource /\ plan' = <<>> /\ draft' = Empty
    /\ request' = NoRequest /\ contract' = NoContract /\ pool' = Closed
    /\ tries' = 0 /\ rounds' = rounds + 1

-----------------------------------------------------------------------------
(***************************************************************************)
(* ledger_from_references: the cards of a continuation are the references  *)
(* of its source, in their order; the ledger of the source is not read.    *)
(* No two references of a source are alike, so each becomes a card.        *)
(***************************************************************************)
FromReferences(registry) == [i \in DOMAIN registry |-> [title |-> registry[i].key, url |-> ""]]

Continue(r) ==
    /\ stage = "ready" /\ rounds < MaxRounds
    /\ request' = r
    /\ contract' = ContractFor(r.artifact, r.text, SourceMetadata(version), r.mode)
    /\ source' = Extract(version.doc)
    /\ plan' = DefaultPlan(Intent(r.override, r.groups, version.doc), Terminals(version.doc))
    /\ draft' = [Empty EXCEPT !.ledger = FromReferences(Registry(version.doc))]
    /\ IF r.search THEN stage' = "researching" /\ pool' = Opened
                   ELSE stage' = "drafting" /\ pool' = Closed
    /\ tries' = 0 /\ turn' = FirstTurn
    /\ UNCHANGED <<version, rounds>>

(***************************************************************************)
(* The pool searches; when it is done, what the researcher makes of its    *)
(* files is registered.  Nothing reads the files after that.               *)
(***************************************************************************)
SearchWeb(q) ==
    /\ stage = "researching" /\ Research(q)
    /\ UNCHANGED <<version, stage, turn, request, contract, source, plan, draft, tries, rounds>>

Curate(answer, mock) ==
    LET curation == Curated(answer, mock)
        ledger   == WithCards(draft.ledger, curation)
    IN  /\ stage = "researching" /\ Over
        /\ draft' = IF Registrable
                    THEN [draft EXCEPT !.ledger = ledger, !.claims = Claimed(ledger, curation)]
                    ELSE draft
        /\ stage' = "drafting" /\ pool' = Closed
        /\ UNCHANGED <<version, turn, request, contract, source, plan, tries, rounds>>

(***************************************************************************)
(* The writer answers with a payload that is complete and whose targets    *)
(* all exist: the operations are applied to the source.                    *)
(***************************************************************************)
Mergeable(p, outputs) ==
    /\ version.doc # <<>>
    /\ \A role \in RequiredRoles(p) : role \in DOMAIN outputs /\ Full(outputs[role]) # {}
    /\ \A i \in DOMAIN p : TargetIsValid(p[i], version.doc, Terminals(version.doc))

Merge(writerPlan, outputs) ==
    LET p == IF writerPlan = <<>> THEN plan ELSE writerPlan
    IN  /\ stage = "drafting" /\ turn = FirstTurn
        /\ Mergeable(p, outputs)
        /\ plan' = p
        /\ draft' = [draft EXCEPT !.doc = Applied(version.doc, p, outputs)]
        /\ stage' = "assembling"
        /\ UNCHANGED <<version, turn, request, contract, source, tries, rounds, pool>>

(***************************************************************************)
(* The next section, or the next stage after the last one.                 *)
(***************************************************************************)
Advance(last, next) ==
    IF turn.section < last
    THEN turn' = [section |-> turn.section + 1, corrections |-> 0] /\ UNCHANGED stage
    ELSE turn' = FirstTurn /\ stage' = next

(***************************************************************************)
(* The sandbox, where the contract has it run code, may record a batch of  *)
(* calculations for the section; what the ledger refuses is an error.      *)
(***************************************************************************)
Recordable(batch) == batch # {} => SandboxEnabled(contract, request.mode)

(***************************************************************************)
(* Any other answer of the writer: the sections are drafted one by one.    *)
(***************************************************************************)
DraftSection(text, batch) ==
    LET n == version.doc[turn.section].name
    IN  /\ stage = "drafting" /\ Recordable(batch)
        /\ IF CanUpsert(draft.calcs, n, batch)
           THEN /\ draft' = [draft EXCEPT !.doc = Append(@, Section(n, text)),
                                          !.calcs = Upserted(@, batch)]
                /\ Advance(Len(version.doc), "assembling") /\ plan' = <<>>
                /\ UNCHANGED <<request, contract, source, tries, rounds, pool>>
           ELSE EndRun
        /\ UNCHANGED version

Assemble ==
    /\ stage = "assembling"
    /\ IF \A s \in ToSet(draft.doc) : Full(s.text) = {}
       THEN EndRun
       ELSE /\ draft' = [draft EXCEPT !.doc = Assembled(@, Names(@))]
            /\ stage' = "reviewing"
            /\ UNCHANGED <<turn, request, contract, source, plan, tries, rounds, pool>>
    /\ UNCHANGED version

-----------------------------------------------------------------------------
DraftIssues ==
    RunAll(draft.doc, source, draft.ledger, draft.calcs) \cup Drift(contract, draft.doc)

(***************************************************************************)
(* A review attempt: the gate and the drift checks reject by themselves,   *)
(* the reviewers are asked only when both pass, and the answer of one of   *)
(* the special reviewers that is malformed ends the run; without reviewers *)
(* there is no attempt.  The last rejection goes on to the final gate.     *)
(***************************************************************************)
Review(answers) ==
    /\ stage = "reviewing"
    /\ IF DraftIssues = {} /\ Consulted # {"general"} /\ Malformed(answers)
       THEN EndRun
       ELSE /\ tries' = IF Consulted = {} THEN tries ELSE tries + 1
            /\ stage' = IF \/ Consulted = {}
                           \/ DraftIssues = {} /\ AllApprove(answers)
                           \/ tries' = MaxTries[rounds + 1] THEN "gate" ELSE "revising"
            /\ UNCHANGED <<turn, request, contract, source, plan, draft, rounds, pool>>
    /\ UNCHANGED version

(***************************************************************************)
(* Every section is revised: by a patch, or by its whole text again when   *)
(* the patch or what its code records is refused.                          *)
(***************************************************************************)
Here == draft.doc[turn.section].name

PatchDraft(blocks, batch) ==
    /\ stage = "revising" /\ Recordable(batch)
    /\ PatchIsValid(TextOf(draft.doc, Here), blocks) /\ CanUpsert(draft.calcs, Here, batch)
    /\ draft' = [draft EXCEPT !.doc = Put(@, Here, Patched(TextOf(@, Here), blocks)),
                              !.calcs = Upserted(@, batch)]
    /\ Advance(Len(draft.doc), "verifying")
    /\ UNCHANGED <<version, request, contract, source, plan, tries, rounds, pool>>

RewriteDraft(text, batch) ==
    /\ stage = "revising" /\ Recordable(batch)
    /\ IF CanUpsert(draft.calcs, Here, batch)
       THEN /\ draft' = [draft EXCEPT !.doc = Put(@, Here, text), !.calcs = Upserted(@, batch)]
            /\ Advance(Len(draft.doc), "verifying")
            /\ UNCHANGED <<request, contract, source, plan, tries, rounds, pool>>
       ELSE EndRun
    /\ UNCHANGED version

(***************************************************************************)
(* Then the writer verifies every section: it leaves it, or corrects it up *)
(* to twice.  Calculations that are refused here are only logged.          *)
(***************************************************************************)
Verified ==
    /\ stage = "verifying" /\ Advance(Len(draft.doc), "reviewing")
    /\ UNCHANGED <<version, request, contract, source, plan, draft, tries, rounds, pool>>

Correct(text, batch) ==
    /\ stage = "verifying" /\ Recordable(batch)
    /\ draft' = [draft EXCEPT !.doc = Put(@, Here, text),
                              !.calcs = IF CanUpsert(@, Here, batch) THEN Upserted(@, batch) ELSE @]
    /\ IF turn.corrections = 0 THEN turn' = [turn EXCEPT !.corrections = 1] /\ UNCHANGED stage
                               ELSE Advance(Len(draft.doc), "reviewing")
    /\ UNCHANGED <<version, request, contract, source, plan, tries, rounds, pool>>

(***************************************************************************)
(* A run is cancelled, or the writer never sends code that runs or a text  *)
(* of the one section it was asked for.                                    *)
(***************************************************************************)
GiveUp ==
    /\ stage \in {"drafting", "reviewing", "revising", "verifying"}
    /\ EndRun
    /\ UNCHANGED version

(***************************************************************************)
(* The final gate publishes the draft, with the manifest of the run in its *)
(* metadata (hints are kept of an upload only), or fails the run.          *)
(***************************************************************************)
Published ==
    [doc |-> draft.doc, ledger |-> draft.ledger, calcs |-> draft.calcs,
     artifact |-> contract.artifact, uploaded |-> FALSE, hints |-> NoHints]

Gate ==
    /\ stage = "gate"
    /\ version' = IF DraftIssues = {} THEN Published ELSE version
    /\ EndRun

-----------------------------------------------------------------------------
(***************************************************************************)
(* execute_patch_revision: each affected section is patched against its    *)
(* own text, and the version is replaced only if every patch is valid, the *)
(* gate passes with the ledgers of the version and, when anything changed, *)
(* the reviewers agree.                                                    *)
(***************************************************************************)
ChangesApproved(old, new, answers) == new = old \/ AllApprove(answers)

ReviseVersion(affected, blocks, answers) ==
    LET old == TextContext(version.doc)
        new == [i \in DOMAIN old |->
                   IF old[i].name \in affected
                   THEN Section(old[i].name, Patched(old[i].text, blocks[old[i].name])) ELSE old[i]]
        done == /\ old # <<>> /\ affected \subseteq NameSet(old)
                /\ \A n \in affected : PatchIsValid(TextOf(old, n), blocks[n])
                /\ RunAll(new, Extract(old), version.ledger, version.calcs) = {}
                /\ ChangesApproved(old, new, answers)
    IN  /\ stage = "ready" /\ rounds < MaxRounds
        /\ version' = IF done THEN [version EXCEPT !.doc = new] ELSE version
        /\ EndRun

Revise(r, answers) ==
    LET affected == Selected(r, TextContext(version.doc))
    IN  \E blocks \in [affected -> Patches] : ReviseVersion(affected, blocks, answers)

NextRounds ==
    \/ \E r \in Requests : Continue(r)
    \/ \E q \in DOMAIN pool.workers : SearchWeb(q)
    \/ \E a \in Curations, m \in BOOLEAN : Curate(a, m)
    \/ \E p \in WriterPlans, o \in Outputs : Merge(p, o)
    \/ \E t \in DraftTexts, b \in Batches : DraftSection(t, b)
    \/ Assemble
    \/ \E a \in [Consulted -> Answers] : Review(a)
    \/ \E p \in Patches, b \in Batches : PatchDraft(p, b)
    \/ \E t \in DraftTexts, b \in Batches : RewriteDraft(t, b)
    \/ Verified
    \/ \E t \in DraftTexts, b \in Batches : Correct(t, b)
    \/ GiveUp
    \/ Gate
    \/ \E r \in RevisionRequests, a \in [Consulted -> Answers] : Revise(r, a)

RoundsSpec == InitRounds /\ [][NextRounds]_roundVars

-----------------------------------------------------------------------------
(***************************************************************************)
(* A line of the source is in the merged and assembled document, unless an *)
(* operation of the plan replaces the place it stood in or it repeats a    *)
(* reference: merging and assembling lose nothing else, whatever the       *)
(* operations and their order (apply_merge_operations, assemble_document). *)
(***************************************************************************)
MayMeet(target, n) ==
    \/ target = n
    \/ target = "last_body_section" /\ n \notin TerminalNames
    \/ target \in {"references", "terminal_sections"} /\ n \in TerminalNames

Replaced(o, n) ==
    \/ o.op = "replace_range" /\ (o.target = "existing_body" \/ MayMeet(o.target, n))
    \/ o.op = "replace_tail" /\ MayMeet(o.target, n)

NothingElseIsLost ==
    stage = "reviewing" /\ tries = 0 /\ plan # <<>> =>
        \A s \in ToSet(version.doc) :
            \/ \E i \in DOMAIN plan : Replaced(plan[i], s.name)
            \/ \A l \in ToSet(Lines(s.text)) :
                  \/ Has(l, "refheading")
                  \/ \E t \in ToSet(draft.doc) : \E k \in ToSet(t.text) : k.key = l.key

(***************************************************************************)
(* Terminal sections stay last, although assembly and the final gate each  *)
(* go by names of their own and the gate knows the terminal sections of    *)
(* the source only: a round makes a version with text after a terminal     *)
(* section only if it added that section itself, and if assembly either    *)
(* does not move that section or moves the other one as well.              *)
(***************************************************************************)
TextAfterTerminal(doc) ==
    {p \in (DOMAIN doc) \X (DOMAIN doc) :
        /\ p[1] < p[2] /\ \A k \in {p[1], p[2]} : Full(doc[k].text) # {}
        /\ IsTerminal(doc[p[1]].name) /\ ~IsTerminal(doc[p[2]].name)}

TerminalsStayLast ==
    [][\A new \in {version'} \ {version} : \A p \in TextAfterTerminal(new.doc) :
          LET terminal == new.doc[p[1]].name
              body     == new.doc[p[2]].name
          IN  terminal \notin NameSet(version.doc) /\ (terminal \in LastNames => body \in LastNames)]_version

(***************************************************************************)
(* Every result a version shows is that of a record that follows from its  *)
(* inputs: the records of a version are consistent whatever drafts and     *)
(* revisions recorded on the way.                                          *)
(***************************************************************************)
ShownResultsHold ==
    \A s \in ToSet(version.doc) : \A m \in MarksIn(s.text, "calc") :
        \E e \in Grounded(version.calcs) : e.id = m[2] /\ e.value = m[3]

(***************************************************************************)
(* A document stays the kind of artifact it is, whatever was said in       *)
(* earlier runs: it becomes another only in a run that was asked for with  *)
(* cues of the new one or with an override (ArtifactManifestResolver).  A  *)
(* run whose manifest is refused leaves the document without one.          *)
(***************************************************************************)
ArtifactIsInherited ==
    [][\/ version.artifact \notin ManifestIds
       \/ version'.artifact \in {version.artifact, NoArtifact, request.artifact}
                                 \cup DOMAIN request.text]_version

(***************************************************************************)
(* A claim the ledger calls supported rests on pages that a search of the  *)
(* run found and wrote down, whatever the researcher answered and however  *)
(* the threads of the pool ended.                                          *)
(***************************************************************************)
SupportedIsFound ==
    [][\A c \in draft'.claims \ draft.claims : c.status = "supported" =>
          /\ c.sources # {}
          /\ \A i \in c.sources : \E w \in Findings : w.url = draft'.ledger[i].url]_draft

(***************************************************************************)
(* A line that a new version keeps cites the same work as before: "one     *)
(* source_id keeps one meaning in the whole document" (dev_docs/13).       *)
(***************************************************************************)
CitationsKeepTheirSource ==
    [][\A s \in ToSet(version.doc) : \A l \in ToSet(s.text) :
          l \in ToSet(TextOf(version'.doc, s.name)) =>
            \A m \in Found(l, "src") :
               m[2] \in DOMAIN version.ledger /\ m[2] \in DOMAIN version'.ledger =>
                  version'.ledger[m[2]].title = version.ledger[m[2]].title]_version
=============================================================================
