----------------------------- MODULE QualityGate -----------------------------
(***************************************************************************)
(* core/quality_gate.py: the deterministic checks a document must pass     *)
(* before it is exported.  A check yields the set of its issues.           *)
(***************************************************************************)
EXTENDS DocumentText, CalculationLedger

CONSTANT MinLines      \* what the volume check asks of a section

SectionsWith(doc, Flawed(_)) == {doc[i].name : i \in {j \in DOMAIN doc : Flawed(doc[j])}}
Issues(check, names) == {<<check, n>> : n \in names}
MarksIn(text, kind) == UNION {Found(l, kind) : l \in ToSet(text)}

Volume(doc) == Issues("volume", SectionsWith(doc, LAMBDA s : Len(s.text) < MinLines))

(***************************************************************************)
(* LaTeX that does not balance, Markdown wrappers, broken characters and   *)
(* prompt text: <<"flaw", check>> marks a line one of these checks finds.  *)
(***************************************************************************)
Flaws(doc) ==
    UNION {{<<m[2], s.name>> : m \in MarksIn(s.text, "flaw")} : s \in ToSet(doc)}

(***************************************************************************)
(* Citations of ledger cards.  The ledger is a sequence of works: the card *)
(* SRC-00n is its n-th entry.  URLs are checked once the ledger has any.   *)
(***************************************************************************)
Evidence(doc, ledger) ==
    LET urls == {ledger[i].url : i \in DOMAIN ledger} \ {""}
        bad(l) == \/ \E m \in Found(l, "src") : m[2] \notin DOMAIN ledger
                  \/ urls # {} /\ \E m \in Found(l, "url") : m[2] \notin urls
    IN  Issues("evidence", SectionsWith(doc, LAMBDA s : \E l \in ToSet(s.text) : bad(l)))

(***************************************************************************)
(* Every record must hold, and every result shown must be a result of one. *)
(***************************************************************************)
\* Fault: what is shown is compared with what was recorded, not recomputed.
FaultyCalculations(doc, calcs) ==
    LET shown(l) == \A m \in Found(l, "calc") : \E e \in calcs : e.id = m[2] /\ e.value = m[3]
    IN  Issues("calculation", SectionsWith(doc, LAMBDA s : \E l \in ToSet(s.text) : ~shown(l)))

Calculations(doc, calcs) ==
    LET done == Evaluated(calcs)
        shown(l) == \A m \in Found(l, "calc") : \E e \in done : e.id = m[2] /\ e.value = m[3]
    IN  {<<"calculation", e.id>> : e \in calcs \ done}
        \cup Issues("calculation",
                    SectionsWith(doc, LAMBDA s : \E l \in ToSet(s.text) : ~shown(l)))

(***************************************************************************)
(* A table, figure or formula label used in two sections.                  *)
(***************************************************************************)
Labels(doc) ==
    Issues("structure",
        SectionsWith(doc, LAMBDA s : \E t \in ToSet(doc) :
            t.name # s.name /\ MarksIn(t.text, "label") \cap MarksIn(s.text, "label") # {}))

-----------------------------------------------------------------------------
(***************************************************************************)
(* The checks of a continuation, against the state of its source.          *)
(***************************************************************************)
BodyAfterTerminal(doc, source) ==
    Issues("placement", {doc[i].name : i \in {j \in DOMAIN doc :
        /\ Full(doc[j].text) # {} /\ doc[j].name \notin source.terminals
        /\ \E k \in 1..(j - 1) : doc[k].name \in source.terminals /\ Full(doc[k].text) # {}}})

Internal(doc) ==
    Issues("internal", SectionsWith(doc, LAMBDA s : \E l \in ToSet(s.text) : Has(l, "internal")))

HeadingKinds == {"introduction", "conclusion", "references"}
Aliases(kind) == CASE kind = "introduction" -> {"introduction", "intro"}
                   [] kind = "conclusion"   -> {"conclusion", "summary"}
                   [] OTHER                 -> {"references", "bibliography", "works_cited"}

DuplicateHeadings(doc, source) ==
    LET places(kind) ==
            {<<n>> : n \in source.names \cap Aliases(kind)}
            \cup UNION {{<<s.name, m[2]>> : m \in {h \in MarksIn(s.text, "heading") :
                                                    h[2] \in Aliases(kind)}} : s \in ToSet(doc)}
    IN  Issues("headings", {k \in HeadingKinds : Cardinality(places(k)) > 1})

Citations(doc, source) ==
    LET cited == {m[2] : m \in UNION {MarksIn(s.text, "cite") : s \in ToSet(doc)}}
    IN  Issues("citations", {n \in cited : source.registry # <<>> /\ n > Len(source.registry)})

LanguageDrift(doc, source) ==
    LET now == LanguageHint(BodyText(doc, source.terminals))
    IN  IF {now, source.language} = {"en", "ru"} THEN {<<"language", now>>} ELSE {}

Continuation(doc, source) ==
    UNION {BodyAfterTerminal(doc, source), Internal(doc), DuplicateHeadings(doc, source),
           Labels(doc), Citations(doc, source), LanguageDrift(doc, source)}

RunAll(doc, source, ledger, calcs) ==
    UNION {Volume(doc), Flaws(doc), Evidence(doc, ledger), Calculations(doc, calcs),
           Labels(doc), Continuation(doc, source)}
=============================================================================
