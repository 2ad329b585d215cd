-------------------------- MODULE ArtifactContracts --------------------------
(***************************************************************************)
(* Which kind of artifact a run makes and what it may not contain: the     *)
(* manifest resolver (manifests/), the contract compiled from a manifest   *)
(* (contracts/compiler.py) and the drift checks against it                 *)
(* (contracts/drift.py).  A text the resolver reads is a function from the *)
(* ids whose cues it contains to the number of cues.  What a drift check   *)
(* finds in a line is one of its marks.                                    *)
(***************************************************************************)
EXTENDS DocumentText

CONSTANTS
    ManifestFile,    \* the manifests in the order of the file
    CueOrder,        \* ids in the order of _ARTIFACT_CUES
    ReservedNames,   \* names a contract may not contain
    TitleLines       \* lines in which a title page is looked for

NoArtifact == "none"
Freeform   == "unknown_freeform"

(***************************************************************************)
(* The file is refused when it names an id twice or has none to fall back  *)
(* to; whatever it refuses, the run goes on without a contract.            *)
(***************************************************************************)
Readable == /\ ManifestFile # <<>>
            /\ \A i, j \in DOMAIN ManifestFile : ManifestFile[i].id = ManifestFile[j].id => i = j
ManifestIds == {m.id : m \in ToSet(ManifestFile)}
Manifest(id) == ManifestFile[CHOOSE i \in DOMAIN ManifestFile : ManifestFile[i].id = id]
Fallback == IF Freeform \in ManifestIds THEN Freeform ELSE ManifestFile[1].id

-----------------------------------------------------------------------------
(***************************************************************************)
(* What a text selects: the id with the most cues, the first one on a tie. *)
(* The evidence is [id, confidence, matched, noted]: how sure, how many    *)
(* cues, and whether there is an ambiguity to note.                        *)
(***************************************************************************)
Selection(id, confidence, matched, noted) ==
    [id |-> id, confidence |-> confidence, matched |-> matched, noted |-> noted]

AtMost(limit, n) == IF n > limit THEN limit ELSE n
Score(n) == AtMost(950, 550 + 150 * n)
Cued(text) == {i \in DOMAIN CueOrder : CueOrder[i] \in ManifestIds \cap DOMAIN text}

SelectManifest(text) ==
    LET cued == Cued(text)
        cues(i) == text[CueOrder[i]]
        best == CHOOSE i \in cued : \A j \in cued : cues(j) < cues(i) \/ (cues(j) = cues(i) /\ i <= j)
    IN  IF cued = {} THEN Selection(Fallback, 250, 0, TRUE)
        ELSE Selection(CueOrder[best], Score(cues(best)), cues(best), Cardinality(cued) > 1)

(***************************************************************************)
(* The resolution: an override, then cues of the request that name another *)
(* artifact than the previous one, then the previous one, then the first   *)
(* hint of a source without a manifest, each trusted up to its cap.        *)
(***************************************************************************)
NoHints == <<>>
Hinted(hints) == {i \in DOMAIN hints : Cued(hints[i].text) # {}}

\* Fault: what the previous version was is not consulted.
FaultyResolveArtifact(override, text, previous, hints) ==
    IF override \in ManifestIds THEN Selection(override, 1000, 1, TRUE) ELSE SelectManifest(text)

ResolveArtifact(override, text, previous, hints) ==
    LET now   == SelectManifest(text)
        first == hints[Min(Hinted(hints))]
        then  == SelectManifest(first.text)
    IN  IF override \in ManifestIds THEN Selection(override, 1000, 1, TRUE)
        ELSE IF now.matched > 0 /\ now.id # previous THEN now
        ELSE IF previous \in ManifestIds THEN Selection(previous, 900, 1, TRUE)
        ELSE IF Hinted(hints) # {}
             THEN Selection(then.id, AtMost(first.cap, then.confidence), then.matched, TRUE)
        ELSE now

-----------------------------------------------------------------------------
(***************************************************************************)
(* The contract.  A manifest says "yes", "no" or nothing ("unset") of the  *)
(* requirement for visualization; the overlay of an execution mode adds    *)
(* its own.  The extra requirements of a continuation that is hardly       *)
(* recognised make the requirement count again over the overlay's policy.  *)
(***************************************************************************)
NoOverlay == [forbid |-> {}, visual |-> "unset", policy |-> "unset"]
Overlay(m, mode) == IF mode \in DOMAIN m.modes THEN m.modes[mode] ELSE NoOverlay

Visual(m, o, preserve) ==
    LET asked == IF o.visual # "unset" THEN o.visual ELSE m.visual
    IN  IF preserve /\ asked # "unset" THEN asked = "yes"
        ELSE IF o.policy = "unset" THEN m.visual = "yes" ELSE o.policy = "required"

Compile(id, mode, preserve) ==
    LET m == Manifest(id)
        o == Overlay(m, mode)
    IN  [artifact |-> id, mode |-> mode, preserve |-> preserve,
         forbid |-> m.forbid \cup o.forbid, visual |-> Visual(m, o, preserve)]

NoContract == [artifact |-> NoArtifact, mode |-> "standard", preserve |-> FALSE,
               forbid |-> {}, visual |-> FALSE]

Valid(contract) == ReservedNames \cap ({contract.artifact, contract.mode} \cup contract.forbid) = {}

(***************************************************************************)
(* _continuation_manifest_metadata: the metadata of a generated document   *)
(* names its artifact or none; only an upload is searched for hints.       *)
(***************************************************************************)
SourceMetadata(v) ==
    IF v.uploaded THEN [previous |-> NoArtifact, hints |-> v.hints]
                  ELSE [previous |-> v.artifact, hints |-> NoHints]

(***************************************************************************)
(* A continuation whose artifact is hardly recognised preserves the order, *)
(* the voice and the sections of its source.                               *)
(***************************************************************************)
Preserved(e) == e.confidence < 650

(***************************************************************************)
(* _apply_artifact_manifest_metadata: a file or a contract that is refused *)
(* leaves the run without one, and without its checks.                     *)
(***************************************************************************)
ContractFor(override, text, metadata, mode) ==
    LET e == ResolveArtifact(override, text, metadata.previous, metadata.hints)
        c == Compile(e.id, mode, Preserved(e))
    IN  IF Readable /\ Valid(c) THEN c ELSE NoContract

(***************************************************************************)
(* Code blocks run only under a contract that requires visualization, or,  *)
(* without a contract, in academic mode.                                   *)
(***************************************************************************)
SandboxEnabled(contract, mode) ==
    IF contract = NoContract THEN mode = "academic" ELSE contract.visual

-----------------------------------------------------------------------------
(***************************************************************************)
(* The drift checks, as the set of <<check, section>>: each looks for      *)
(* marks, or for a kind of them.                                           *)
(***************************************************************************)
Drifting(check, doc, kinds) ==
    {<<check, s.name>> : s \in {t \in ToSet(doc) :
        \E l \in ToSet(t.text) : \E m \in l.marks : SubSeq(m, 1, 1) \in kinds \/ m \in kinds}}

FirstLines(doc) ==
    [i \in DOMAIN doc |->
        Section(doc[i].name, SubSeq(doc[i].text, 1, AtMost(TitleLines, Len(doc[i].text))))]

Drift(contract, doc) ==
    LET forbids(names) == names \cap contract.forbid # {}
        Check(on, check, where, kinds) == IF on THEN Drifting(check, where, kinds) ELSE {}
    IN  UNION {
          Check(forbids({"ai_markers"}), "ai_markers", doc, {<<"ai">>}),
          Check(TRUE, "genre", doc, {<<"genre", contract.artifact>>}),
          Check(forbids({"academic_drift", "research_paper_structure"}), "academic", doc,
                {<<"academic">>, <<"refheading">>}),
          Check(~contract.visual /\ forbids({"forced_visualization"}), "visualization", doc, {<<"figure">>}),
          Check(forbids({"citations"}), "apparatus", doc, {<<"cite">>, <<"refheading">>}),
          Check(forbids({"title_page"}), "title_page", FirstLines(doc), {<<"title">>}),
          Check(forbids({"rubric"}), "rubric", doc, {<<"rubric">>}) }
=============================================================================
