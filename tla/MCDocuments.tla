----------------------------- MODULE MCDocuments -----------------------------
(***************************************************************************)
(* Small documents, what a search may find for them and a writer may       *)
(* answer about them, and two rounds.                                      *)
(***************************************************************************)
EXTENDS DocumentRounds

L(k, m) == [key |-> k, marks |-> m]
Ref(k, i) == L(k, {<<"ref">>, <<"number", i>>})

Prose   == L("prose", {<<"src", 2>>})
Table   == L("table", {<<"label", "table 1">>})
Closing == L("closing", {<<"closing">>, <<"cite", 2>>})
Shown   == L("shown", {<<"calc", "C2", 3>>})

Overlaid(forbid, visual, policy) == [forbid |-> forbid, visual |-> visual, policy |-> policy]

MCManifestFile ==
    << [id |-> "creative_story", visual |-> "unset",
        forbid |-> {"academic_drift", "title_page", "citations", "forced_visualization", "ai_markers"},
        modes  |-> [academic |-> Overlaid({"research_paper_structure"}, "unset", "forbidden")]],
       [id |-> "academic_paper", visual |-> "unset", forbid |-> {"ai_markers"},
        modes  |-> [academic |-> Overlaid({}, "yes", "required")]],
       [id |-> "unknown_freeform", visual |-> "unset",
        forbid |-> {"academic_drift", "title_page", "citations", "rubric", "ai_markers"},
        modes  |-> [academic |-> Overlaid({}, "unset", "compatible_only")]] >>

MCCueOrder == <<"creative_story", "academic_paper", "report">>

Hint(cap, text) == [cap |-> cap, text |-> text]

\* A paper with references, one with a calculation, an uploaded story without
\* either, and an uploaded paper with two lists of references.  Only continuation
\* takes author_notes for a terminal section, only assembly data_sources and
\* glossary_of_terms.
MCFirstVersions ==
    { [doc |-> << Section("intro", <<Prose, Blank, Closing>>),
                  Section("references", <<Ref("A", 1), Ref("B", 2)>>),
                  Section("appendix", <<Table>>) >>,
       ledger |-> << [title |-> "B", url |-> ""], [title |-> "A", url |-> "a.org"] >>,
       calcs |-> {}, artifact |-> "academic_paper", uploaded |-> FALSE, hints |-> NoHints],
      [doc |-> << Section("intro", <<L("prose", {}), Shown>>) >>,
       ledger |-> << >>,
       calcs |-> { [id |-> "C1", owner |-> "intro", deps |-> {}, base |-> 1, unit |-> "m", value |-> 1],
                   [id |-> "C2", owner |-> "intro", deps |-> {"C1"}, base |-> 2, unit |-> "m", value |-> 3]},
       artifact |-> "academic_paper", uploaded |-> FALSE, hints |-> NoHints],
      [doc |-> << Section("part_one", <<L("story", {})>>), Section("glossary_of_terms", <<L("term", {})>>),
                  Section("summary", <<L("moral", {})>>) >>,
       ledger |-> << >>, calcs |-> {}, artifact |-> NoArtifact, uploaded |-> TRUE,
       hints |-> << Hint(650, [creative_story |-> 1]) >>],
      [doc |-> << Section("intro", <<L("prose", {})>>), Section("data_sources", <<Ref("A", 1)>>),
                  Section("references", <<Ref("A", 1), Ref("D", 2)>>),
                  Section("author_notes", <<L("thanks", {})>>) >>,
       ledger |-> << >>, calcs |-> {}, artifact |-> NoArtifact, uploaded |-> TRUE,
       hints |-> << Hint(750, [x \in {} |-> 0]), Hint(650, [academic_paper |-> 3, creative_story |-> 1]) >>] }

Asked(override, groups, artifact, text, mode, search) ==
    [override |-> override, groups |-> groups, artifact |-> artifact, text |-> text,
     mode |-> mode, search |-> search]

MCRequests ==
    { Asked(None, {"restructure"}, NoArtifact, [academic_paper |-> 1], "academic", FALSE),
      Asked(None, {"complete"}, NoArtifact, <<>>, "standard", FALSE),
      Asked(None, {"expand"}, NoArtifact, [creative_story |-> 1, academic_paper |-> 1], "standard", FALSE),
      Asked(None, {"references"}, "unknown", <<>>, "academic", TRUE),
      Asked(None, {"continue"}, "unknown_freeform", [academic_paper |-> 2], "standard", FALSE),
      Asked(None, {"revise", "references"}, NoArtifact, <<>>, "standard", FALSE),
      Asked("continue_append", {"restructure"}, NoArtifact, <<>>, "academic", FALSE) }

W == [title |-> "W", url |-> "w.org"]
V == [title |-> "V", url |-> "v.org"]

Answered(primary, order, fallback) == [primary |-> primary, order |-> order, fallback |-> fallback]

MCSearches ==
    { Answered(<<>>, {}, << [title |-> "ad", url |-> ""] >>),
      Answered(<< [title |-> "ad", url |-> ""], W, V >>,
               {[place |-> 1, score |-> 2], [place |-> 2, score |-> 7], [place |-> 3, score |-> 9]}, <<>>) }

MCCrawls ==
    { [answers |-> <<"retryable", "text">>, reader |-> <<>>],
      [answers |-> <<"refused">>, reader |-> <<"retryable", "raised">>] }

MCCurations ==
    { NoCuration,
      [cards |-> <<W, [title |-> "X", url |-> "x.org"], V>>,
       claims |-> << [urls |-> {"v.org", "x.org"}, status |-> "supported"],
                     [urls |-> {"x.org"}, status |-> "supported"] >>] }

MCWriterPlans ==
    { <<>>,
      << Op("append_after", "last_body_section", "continuation", 0),
         Op("update_references", "references", "references", 0),
         Op("move_terminal_sections_to_end", "", "", 0) >>,
      << Op("insert_before", "appendix", "continuation", 0),
         Op("replace_tail", "last_body_section", "smooth_bridge", 1) >>,
      << Op("replace_range", "intro", "revision", 0), Op("expand_section", "intro", "expansion", 0),
         Op("rename_heading", "intro", "", 0) >>,
      << Op("insert_before", "glossary_of_terms", "references", 0) >>,
      << Op("update_references", "references", "references", 0),
         Op("expand_section", "requested_section", "expansion", 0) >> }

MCOutputs ==
    { [r \in {"smooth_bridge", "continuation", "references", "expansion", "missing_section",
              "revision", "restructured_body"} |->
         CASE r = "references" -> << L("new references", {<<"refheading">>}), Ref("B", 1), Ref("C", 2) >>
           [] r = "continuation" -> << L("more", {<<"cite", 2>>}) >>
           [] OTHER -> << L(r, {}) >>],
      [r \in {"continuation", "smooth_bridge"} |-> << L("flawed", {<<"flaw", "leakage">>}) >>] }

MCDraftTexts == { <<L("drafted", {}), Shown>> }

MCBatches ==
    { {}, { [id |-> "C1", owner |-> "intro", deps |-> {}, base |-> 1, unit |-> "m", value |-> 1],
            [id |-> "C2", owner |-> "intro", deps |-> {"C1"}, base |-> 2, unit |-> "m", value |-> 3] },
      { [id |-> "C2", owner |-> "intro", deps |-> {"C1"}, base |-> 2, unit |-> "s", value |-> 3],
        [id |-> "C1", owner |-> "intro", deps |-> {"C2"}, base |-> 1, unit |-> "m", value |-> 1] } }

MCPatches ==
    { <<>>,
      << [first |-> 1, last |-> 1, lines |-> <<L("edited", {}), L("added", {})>>],
         [first |-> 2, last |-> 3, lines |-> <<L("joined", {})>>] >> }

Answer(form, role, approved, material) ==
    [form |-> form, role |-> role, approved |-> approved, material |-> material]

MCAnswers ==
    { Answer("approved", "general", TRUE, FALSE), Answer("text", "general", FALSE, TRUE),
      Answer("json", "evidence", TRUE, FALSE) }

MCRevisionRequests ==
    { [affected |-> {"intro"}, named |-> {}, calculates |-> FALSE],
      [affected |-> {}, named |-> {"references", "summary"}, calculates |-> TRUE],
      [affected |-> {}, named |-> {"summary"}, calculates |-> FALSE] }

\* A draft is revised in the first round; in the second it is reviewed once.
MCMaxTries == <<2, 1>>
=============================================================================
