----------------------------- MODULE ResearchPool -----------------------------
(***************************************************************************)
(* The research of a run: a pool of threads searches the web and crawls    *)
(* what it finds (core/researcher.py with the clients of                   *)
(* routing/retrieval.py), each query leaves a file in the directory of the *)
(* run, and the researcher turns the files into cards and claims           *)
(* (agents/researcher.py), which the run registers in its ledger           *)
(* (core/orchestrator.py, core/document_ledger.py).  A work is a record    *)
(* [title, url].                                                           *)
(***************************************************************************)
EXTENDS Naturals, Sequences, SequencesExt, FiniteSets, FiniteSetsExt

CONSTANTS
    Queries,         \* number of queries the planner generated
    PoolSize,        \* threads of the pool
    MostHits,        \* pages crawled for a query
    Searches,        \* answers [primary, order, fallback] of the search services
    Crawls,          \* answers [answers, reader] to fetching a page
    Curations        \* what the researcher may answer, as [cards, claims]

VARIABLE pool        \* [workers, files, returned]

Queued == [pc |-> "queued", hits |-> <<>>, found |-> <<>>]
Closed == [workers |-> <<>>, files |-> {}, returned |-> <<>>]
Opened == [Closed EXCEPT !.workers = [q \in 1..Queries |-> Queued]]

InPool(pc) == {q \in DOMAIN pool.workers : pool.workers[q].pc = pc}
Over == InPool("queued") \cup InPool("crawling") = {}

-----------------------------------------------------------------------------
First(n, s) == SubSeq(s, 1, IF Len(s) < n THEN Len(s) ELSE n)

(***************************************************************************)
(* The search: what the configured service finds, in the order of the      *)
(* reranker; without a result, what the page of the fallback lists.  An    *)
(* entry without a web address has url "".  A service that is not          *)
(* configured or fails answers <<>>, and the reranker {}: its answer is a  *)
(* set of [place, score], and places beyond the list are left out.         *)
(***************************************************************************)
WebHits(entries) == SelectSeq(entries, LAMBDA w : w.url # "")

Ranking(answer) ==
    SetToSortSeq(answer, LAMBDA a, b : a.score > b.score \/ (a.score = b.score /\ a.place < b.place))

Reranked(hits, answer) ==
    LET places == SelectSeq(Ranking(answer), LAMBDA r : r.place \in DOMAIN hits)
    IN  IF places = <<>> THEN hits ELSE [i \in DOMAIN places |-> hits[places[i].place]]

DuckDuckGo(entries) == First(MostHits, WebHits(entries))

Hits(search) ==
    IF WebHits(search.primary) # <<>>
    THEN First(MostHits, Reranked(WebHits(search.primary), search.order))
    ELSE DuckDuckGo(search.fallback)

(***************************************************************************)
(* _get_with_retries: the first answer that is final, or else the last one *)
(* of its attempts.  A page is its text; a page that is refused or without *)
(* usable text is what the reader service makes of it, or what little it   *)
(* has, or an error.  When the reader cannot be reached the page is lost.  *)
(***************************************************************************)
Transient == {"retryable", "raised"}
Got(answers) ==
    LET final == {i \in DOMAIN answers : answers[i] \notin Transient}
    IN  answers[IF final = {} THEN Len(answers) ELSE Min(final)]

Fetched(crawl) ==
    LET page   == Got(crawl.answers)
        reader == Got(crawl.reader)
    IN  IF page = "text" THEN "direct"
        ELSE IF "raised" \in {page, reader} THEN "raised"
        ELSE IF reader = "text" THEN "reader"
        ELSE IF page = "empty" THEN "direct_low_confidence" ELSE "error"

-----------------------------------------------------------------------------
(***************************************************************************)
(* The threads of the pool, which take the queries in their order.         *)
(***************************************************************************)
Search(q, search) ==
    /\ q \in InPool("queued") /\ \A p \in InPool("queued") : q <= p
    /\ Cardinality(InPool("crawling")) < PoolSize
    /\ pool' = [pool EXCEPT !.workers[q] =
                   [pc |-> "crawling", hits |-> Hits(search), found |-> <<>>]]

Crawl(q, crawl) ==
    LET w == pool.workers[q]
        n == Len(w.found) + 1
    IN  /\ q \in InPool("crawling") /\ n <= Len(w.hits)
        /\ pool' = [pool EXCEPT !.workers[q].found =
                       Append(@, [work |-> w.hits[n], method |-> Fetched(crawl)])]

(***************************************************************************)
(* The file of a query: written, cut short, or never opened.  A failure is *)
(* logged, and the results are returned all the same.                      *)
(***************************************************************************)
Save(q, outcome) ==
    LET w == pool.workers[q]
    IN  /\ q \in InPool("crawling") /\ Len(w.found) = Len(w.hits)
        /\ pool' = [workers  |-> [pool.workers EXCEPT ![q] = [Queued EXCEPT !.pc = "done"]],
                    files    |-> IF outcome = "absent" THEN pool.files
                                 ELSE pool.files \cup {[query |-> q, whole |-> outcome = "whole",
                                                        found |-> w.found]},
                    returned |-> Append(pool.returned, w.found)]

\* A worker that raises is dropped, with what it found.
Raise(q) ==
    /\ q \in InPool("crawling")
    /\ pool' = [pool EXCEPT !.workers[q] = [Queued EXCEPT !.pc = "done"]]

Research(q) ==
    \/ \E s \in Searches : Search(q, s)
    \/ \E c \in Crawls : Crawl(q, c)
    \/ \E o \in {"whole", "truncated", "absent"} : Save(q, o)
    \/ Raise(q)

-----------------------------------------------------------------------------
(***************************************************************************)
(* load_research_findings: the pages of every file that can be read.       *)
(***************************************************************************)
Findings == UNION {{p.work : p \in ToSet(f.found)} : f \in {g \in pool.files : g.whole}}

(***************************************************************************)
(* _curation_from_search_results, for a provider that cannot curate: a     *)
(* card for each page, in the order in which the queries came back.        *)
(***************************************************************************)
FromResults ==
    LET pages == SelectSeq(FlattenSeq(pool.returned), LAMBDA p : p.method # "raised")
    IN  [cards  |-> FoldLeft(LAMBDA cards, p :
                        IF \E c \in ToSet(cards) : c.url = p.work.url THEN cards
                        ELSE Append(cards, p.work), <<>>, pages),
         claims |-> <<>>]

(***************************************************************************)
(* _validate_curation_sources: cards of pages that were found, and claims  *)
(* with the sources that were.  A curation without cards is let through.   *)
(***************************************************************************)
\* Fault: what the researcher names is taken for found.
FaultyValidated(curation, findings) == curation

Validated(curation, findings) ==
    LET urls == {w.url : w \in findings}
        checked(c) == LET known == c.urls \cap urls
                      IN  [urls |-> known, status |-> IF c.status = "supported" /\ known = {}
                                                      THEN "unsupported" ELSE c.status]
    IN  IF curation.cards = <<>> THEN curation
        ELSE [cards  |-> SelectSeq(curation.cards, LAMBDA w :
                            w.url \in urls /\ \E v \in findings : v.title = w.title),
              claims |-> [i \in DOMAIN curation.claims |-> checked(curation.claims[i])]]

NoCuration == [cards |-> <<>>, claims |-> <<>>]

(***************************************************************************)
(* What run_research keeps: the pages themselves under a mock provider,    *)
(* nothing when nothing was found or the answer is no curation.            *)
(***************************************************************************)
Curated(answer, mock) ==
    IF mock THEN FromResults
    ELSE IF Findings = {} THEN NoCuration ELSE Validated(answer, Findings)

-----------------------------------------------------------------------------
(***************************************************************************)
(* register_source: a work is a card once, by its URL and title.           *)
(***************************************************************************)
Registered(ledger, work) ==
    IF \E i \in DOMAIN ledger : ledger[i] = work THEN ledger ELSE Append(ledger, work)

WithCards(ledger, curation) == FoldLeft(Registered, ledger, curation.cards)

(***************************************************************************)
(* The claims of a curation, each with the last card of every URL it       *)
(* names; one that is left without a card is not supported.                *)
(***************************************************************************)
Statuses == {"supported", "assumption", "disputed", "unsupported"}

Claimed(ledger, curation) ==
    LET last == {i \in DOMAIN ledger : \A j \in DOMAIN ledger : ledger[j].url = ledger[i].url => j <= i}
        claim(c) == LET sources == {i \in last : ledger[i].url \in c.urls \ {""}}
                    IN  [sources |-> sources,
                         status  |-> IF sources # {} /\ c.status \in Statuses
                                     THEN c.status ELSE "unsupported"]
    IN  {claim(c) : c \in ToSet(curation.claims)}

(***************************************************************************)
(* The registration reads every file again, and stops at one it cannot     *)
(* read: then nothing is registered.                                       *)
(***************************************************************************)
Registrable == \A f \in pool.files : f.whole
=============================================================================
