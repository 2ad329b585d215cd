------------------------------ MODULE SkillRouting ------------------------------
(***************************************************************************)
(* The search for artifacts and skills: QdrantRoutingIndex of              *)
(* routing/qdrant.py over a collection that is reindexed meanwhile, its    *)
(* fallback to a local index, and the decision of routing/engine.py.  A    *)
(* search reads the scopes page by page, asks the channels concurrently    *)
(* and reranks; every request is answered at a moment of its own, or not   *)
(* at all.                                                                 *)
(***************************************************************************)
EXTENDS RoutingCards

CONSTANTS
    Cards,           \* cards that may be written
    FirstPoints,     \* what the collection may hold at first
    LocalCards,      \* the cards of the fallback index
    HasFallback,     \* whether there is one
    Queries,         \* what may be searched for
    Raw(_, _, _),    \* Raw(q, channel, key): how a channel scores a card
    PointOrder,      \* all card keys in the order of point ids
    Semantic,        \* cloud inference, and models for E5 and BM25
    Reranker,        \* whether there is a model for ColBERT
    PageSize, MaxPages, CandidateK, RerankK,
    RrfK, Scale,     \* reciprocal ranks Scale \div (RrfK + rank)
    Thresholds, Values,   \* the calibration; empty without one
    MaxWrites        \* bound: writes during a search

(***************************************************************************)
(* One card has one key in the collection and in the fallback index, and   *)
(* the two orders have a place for every key.                              *)
(***************************************************************************)
AllCards == Cards \cup LocalCards
KeysDiffer(cards) == \A c, d \in cards : Key(c) = Key(d) => c = d

ASSUME SearchAssumption ==
    /\ IsFiniteSet(AllCards) /\ KeysDiffer(LocalCards)
    /\ \A first \in FirstPoints : first \subseteq Cards /\ KeysDiffer(first)
    /\ Order \in Seq({Key(c) : c \in AllCards}) /\ PointOrder \in Seq({Key(c) : c \in Cards})
    /\ \A c \in AllCards : /\ \E i \in DOMAIN Order : Order[i] = Key(c)
                          /\ IsFiniteSet(c.deps) /\ IsFiniteSet(c.conflicts) /\ c.id # Unselected
    /\ \A c \in Cards : \E i \in DOMAIN PointOrder : PointOrder[i] = Key(c)
    /\ \A q \in Queries : q.top \in Nat /\ \A c \in AllCards : Lexical(q, Key(c)) \in Nat
    /\ PageSize \in Nat /\ RrfK \in Nat /\ Scale \in Nat /\ Scale > RrfK

VARIABLES
    points,          \* the collection
    search,          \* the search in flight
    decision,        \* what the engine has decided
    writes,          \* writes so far
    ever, always     \* bookkeeping: cards stored at some, at every moment of it

searchVars == <<points, search, decision, writes, ever, always>>

NoDecision == Decided(<<>>, Unselected, Grounds(3, 0, 1000, NoSignal, FALSE))
NoSearch == [pc |-> "idle", query |-> CHOOSE q \in Queries : TRUE, scopes |-> <<>>, page |-> 1,
             from |-> 0, read |-> {}, asked |-> {}, hits |-> {}, results |-> <<>>]

InitSearch ==
    /\ points \in FirstPoints /\ search = NoSearch /\ decision = NoDecision
    /\ writes = 0 /\ ever = {} /\ always = {}

-----------------------------------------------------------------------------
(***************************************************************************)
(* Writes: a card replaces the one with its key, older versions stay.      *)
(***************************************************************************)
Write(now) ==
    /\ writes < MaxWrites /\ writes' = writes + 1
    /\ points' = now
    /\ ever' = ever \cup now /\ always' = always \cap now
    /\ UNCHANGED <<search, decision>>

Upsert(c) == c \notin points /\ Write({d \in points : Key(d) # Key(c)} \cup {c})

DeletePoint(c) == c \in points /\ Write(points \ {c})

-----------------------------------------------------------------------------
VisibleScopes(q) == IF q.tenant = Global THEN <<Global>> ELSE <<Global, q.tenant>>

ScopeFilter(c, scope, q) ==
    c.tenant = scope /\ (Cardinality(q.types) = 1 => c.type \in q.types)

Start(q) ==
    /\ search.pc = "idle"
    /\ search' = [NoSearch EXCEPT !.pc = "scroll", !.query = q, !.scopes = VisibleScopes(q)]
    /\ ever' = points /\ always' = points /\ writes' = 0
    /\ decision' = NoDecision /\ UNCHANGED points

PointPlace(c) == CHOOSE i \in DOMAIN PointOrder : PointOrder[i] = Key(c)

Finished(results) ==
    search' = [search EXCEPT !.pc = "found", !.results = results, !.asked = {}, !.hits = {}]
Raised == search' = [search EXCEPT !.pc = "raised", !.asked = {}, !.hits = {}]

(***************************************************************************)
(* What follows the last page: nothing to rank, the local rules, or one    *)
(* request for each scope and channel, all at once.                        *)
(***************************************************************************)
Channels(path) == IF path = "e5_bm25" THEN {"e5", "bm25"} ELSE {"bm25"}

AfterScroll(read) ==
    LET q    == search.query
        path == RetrievalPath(Visible(read, q), Semantic)
    IN  IF Visible(read, q) = {} THEN Finished(<<>>)
        ELSE IF path = "local_rules_only" THEN Finished(LocalSearch(read, q))
        ELSE search' = [search EXCEPT !.pc = "query", !.read = read,
                          !.asked = ToSet(VisibleScopes(q)) \X Channels(path)]

(***************************************************************************)
(* One page, in the order of identifiers: the answer names the first point *)
(* that is left, and the next page begins there, or after it if it is gone.*)
(* Too many pages are an error, not an outage.                             *)
(***************************************************************************)
ScrollPage ==
    LET rest == {c \in points : ScopeFilter(c, Head(search.scopes), search.query)
                                /\ PointPlace(c) >= search.from}
        page == {c \in rest : Cardinality({d \in rest : PointPlace(d) < PointPlace(c)}) < PageSize}
        read == search.read \cup page
    IN  /\ search.pc = "scroll"
        /\ IF page # rest
           THEN IF search.page = MaxPages THEN Raised
                ELSE search' = [search EXCEPT !.page = @ + 1, !.read = read,
                                  !.from = Min({PointPlace(c) : c \in rest \ page})]
           ELSE IF Len(search.scopes) > 1
                THEN search' = [search EXCEPT !.scopes = Tail(@), !.page = 1, !.from = 0,
                                  !.read = read]
                ELSE AfterScroll(read)
        /\ UNCHANGED <<points, decision, writes, ever, always>>

-----------------------------------------------------------------------------
(***************************************************************************)
(* The hits of a channel in one scope, as the collection is when it        *)
(* answers.  Ties are broken by the order of keys.                         *)
(***************************************************************************)
Better(q, channel, d, c) ==
    \/ Raw(q, channel, d) > Raw(q, channel, c)
    \/ Raw(q, channel, d) = Raw(q, channel, c) /\ Place(d) < Place(c)

Top(keys, q, channel, k) ==
    {c \in keys : Cardinality({d \in keys : Better(q, channel, d, c)}) < k}

ChannelCandidates(scope, q, channel) ==
    {Key(c) : c \in {p \in points : /\ ScopeFilter(p, scope, q) /\ (q.inactive \/ p.active)
                                    /\ channel \in p.ready}}

ChannelRank(hits, q, channel, c) ==
    1 + Cardinality({h \in hits : h[2] = channel /\ Better(q, channel, h[1], c)})

Rrf(rank) == Scale \div (RrfK + rank)

Share(hits, q, channel, c) ==
    IF <<c, channel>> \in hits THEN Rrf(ChannelRank(hits, q, channel, c)) ELSE 0

RrfSum(hits, q, c) ==
    Share(hits, q, "e5", c) + Share(hits, q, "bm25", c) + Share(hits, q, "colbert", c)

(***************************************************************************)
(* Fusion: ranks, not scores, are added up, over the cards that were       *)
(* visible when the scopes were read.                                      *)
(***************************************************************************)
Fused(hits, q) ==
    LET most == Cardinality({h[2] : h \in hits}) * Rrf(1)
        of(c) == {h[2] : h \in {x \in hits : x[1] = Key(c)}}
        words(c) == IF Lexical(q, Key(c)) > 0 \/ c.id \in q.negatives THEN {"lexical"} ELSE {}
    IN  {Scored(c, q, (1000 * RrfSum(hits, q, Key(c))) \div most, of(c) \cup words(c)) :
            c \in {v \in Visible(search.read, q) : of(v) # {}}}

Results(hits, q) ==
    LET found == InOrder(Fused(hits, q), q.top)
    IN  IF hits = {} \/ found = <<>> THEN LocalSearch(search.read, q) ELSE found

(***************************************************************************)
(* The last answer of the channels: rerank when every visible card has the *)
(* late vectors, the best candidates of each scope in a request of its own.*)
(***************************************************************************)
BestHits(hits, q) ==
    LET keys == {h[1] : h \in hits}
    IN  {c \in keys : Cardinality({d \in keys :
            \/ RrfSum(hits, q, d) > RrfSum(hits, q, c)
            \/ RrfSum(hits, q, d) = RrfSum(hits, q, c) /\ Place(d) < Place(c)}) < RerankK}

Asked(hits, q) ==
    LET seen == Visible(search.read, q)
        late == /\ Reranker /\ RetrievalPath(seen, Semantic) = "e5_bm25"
                /\ \A c \in seen : "colbert" \in c.ready
    IN  IF late /\ hits # {} THEN {<<c.tenant, "colbert">> : c \in BestHits(hits, q)} ELSE {}

Answer(r) ==
    LET q     == search.query
        rerank == r[2] = "colbert"
        keys  == ChannelCandidates(r[1], q, r[2])
        hit   == IF rerank THEN keys \cap BestHits({h \in search.hits : h[2] # "colbert"}, q)
                 ELSE Top(keys, q, r[2], CandidateK)
        seen  == {Key(c) : c \in Visible(search.read, q)}
        hits  == search.hits \cup {<<k, r[2]>> : k \in hit \cap seen}
        left  == search.asked \ {r}
        next  == IF rerank THEN {} ELSE Asked(hits, q)
    IN  /\ search.pc = "query" /\ r \in search.asked
        /\ IF left # {} THEN search' = [search EXCEPT !.asked = left, !.hits = hits]
           ELSE IF next # {} THEN search' = [search EXCEPT !.asked = next, !.hits = hits]
           ELSE Finished(Results(hits, q))
        /\ UNCHANGED <<points, decision, writes, ever, always>>

(***************************************************************************)
(* A request that times out or meets a temporary error.  The reranking is  *)
(* given up as a whole; anything else is left to the fallback index.       *)
(***************************************************************************)
Unavailable ==
    LET q == search.query
        rerank == \E r \in search.asked : r[2] = "colbert"
        plain == {h \in search.hits : h[2] # "colbert"}
    IN  /\ search.pc \in {"scroll", "query"}
        /\ IF rerank THEN Finished(Results(plain, q))
           ELSE IF HasFallback THEN Finished(LocalSearch(LocalCards, q)) ELSE Raised
        /\ UNCHANGED <<points, decision, writes, ever, always>>

(***************************************************************************)
(* A request that the collection refuses.                                  *)
(***************************************************************************)
Refused ==
    /\ search.pc \in {"scroll", "query"} /\ Raised
    /\ UNCHANGED <<points, decision, writes, ever, always>>

-----------------------------------------------------------------------------
(***************************************************************************)
(* The engine reads the path off the evidence of its best result.          *)
(***************************************************************************)
Hybrid == {"e5", "bm25", "colbert"}

Depth(channels) == IF "bm25" \notin channels THEN 3 ELSE IF "e5" \in channels THEN 1 ELSE 2

Agreement(channels) ==
    CASE Cardinality(channels \cap Hybrid) >= 2 -> 1000
      [] Cardinality(channels \cap Hybrid) = 1  -> 500
      [] OTHER -> IF "lexical" \in channels THEN 1000 ELSE 0

Predict(score) ==
    LET fit == {i \in DOMAIN Thresholds : score <= Thresholds[i]}
    IN  IF Thresholds = <<>> THEN NoSignal
        ELSE Values[IF fit = {} THEN Len(Values) ELSE Min(fit)]

Decide(override) ==
    LET artifacts == SelectSeq(search.results, LAMBDA r : r.card.type = "artifact")
        places == {i \in DOMAIN search.results : search.results[i].card.type = "artifact"}
        first == search.results[Min(places)]
        found == [i \in DOMAIN artifacts |->
                     [id |-> artifacts[i].card.id, score |-> artifacts[i].score]]
        named == override # Unselected
        known == \E i \in DOMAIN found : found[i].id = override
        cands == IF named /\ ~known THEN Append(found, [id |-> override, score |-> 1000]) ELSE found
        top   == IF places = {} THEN [channels |-> {}, penalty |-> 0] ELSE first
        signal == IF places = {} THEN NoSignal ELSE Predict(first.score)
        picked == IF named THEN override
                  ELSE IF places = {} THEN Unselected ELSE first.card.id
    IN  /\ search.pc = "found"
        /\ decision' = Decided(cands, picked,
              Grounds(Depth(top.channels), top.penalty, Agreement(top.channels), signal, named))
        /\ search' = [search EXCEPT !.pc = "decided"]
        /\ UNCHANGED <<points, writes, ever, always>>

EndSearch ==
    /\ search.pc \in {"decided", "raised"}
    /\ search' = NoSearch /\ decision' = NoDecision
    /\ ever' = {} /\ always' = {} /\ writes' = 0 /\ UNCHANGED points

NextSearch ==
    \/ \E c \in Cards : search.pc \in {"scroll", "query"} /\ (Upsert(c) \/ DeletePoint(c))
    \/ \E q \in Queries : Start(q)
    \/ ScrollPage
    \/ \E r \in search.asked : Answer(r)
    \/ Unavailable \/ Refused
    \/ \E a \in {Unselected} \cup {c.id : c \in Cards} : Decide(a)
    \/ EndSearch

-----------------------------------------------------------------------------
Stored(c) == c \in ever /\ \A d \in always : ~(InScope(d, search.query) /\ Supersedes(d, c))

(***************************************************************************)
(* A search never brings a card back: what it returns was stored at some   *)
(* moment of it, and no card that was stored all the time goes before it,  *)
(* whether active or not, however the pages and the writes interleave.     *)
(* Only the fallback index may answer with cards of its own, and then with *)
(* words alone as the evidence.                                            *)
(***************************************************************************)
NothingIsResurrected ==
    \A i \in DOMAIN search.results :
        LET r == search.results[i]
        IN  \/ Stored(r.card)
            \/ HasFallback /\ r.card \in LocalCards /\ r.channels = {"lexical"}

(***************************************************************************)
(* A selection is trusted without a planner only when the collection has   *)
(* vouched for it: the user named it, or its card was stored during the    *)
(* search and was not superseded all the time.  Neither the fallback index *)
(* nor the scores of words are enough.                                     *)
(***************************************************************************)
TrustedWasStored ==
    decision.band # "planner_required" /\ ~decision.grounds.override =>
        \E c \in Cards : /\ c.type = "artifact" /\ c.id = decision.selected /\ "bm25" \in c.ready
                         /\ Stored(c)
=============================================================================
