------------------------- MODULE ProviderAccess_proofs -------------------------
(***************************************************************************)
(* Theorems about what a run asks of services outside, for any number of   *)
(* cards, credentials, threads, providers, jobs, agents and endpoints: a   *)
(* search returns what was stored during it; deleting a credential is      *)
(* final; budgets are kept and routes justified; and a circuit that is not *)
(* closed still holds the failures that opened it.                         *)
(***************************************************************************)
EXTENDS ProviderAccess, ModelCalls, FiniteSetTheorems, TLAPS

-----------------------------------------------------------------------------
(* Every set of naturals has a least member.                               *)
LEMMA LeastNatural ==
    ASSUME NEW S \in SUBSET Nat, S # {}
    PROVE  \E n \in S : \A m \in S : n <= m
<1> DEFINE less == OpToRel(<, Nat)
<1>1. ASSUME NEW m \in Nat, NEW n \in Nat, m < n PROVE <<m, n>> \in less
  BY <1>1 DEF OpToRel
<1>2. IsWellFoundedOn(less, Nat)
  BY NatLessThanWellFounded, Zenon
<1> HIDE DEF less
<1>3. \E n \in S : \A m \in S : <<m, n>> \notin less
  BY <1>2, WFMin
<1>4. PICK n \in S : \A m \in S : <<m, n>> \notin less
  BY <1>3
<1>5. n \in Nat /\ \A m \in S : m \in Nat /\ ~(m < n)
  BY <1>1, <1>4
<1>6. \A m \in S : n <= m
  BY <1>5
<1> QED
  BY <1>6

-----------------------------------------------------------------------------
(* The search for artifacts and skills.                                    *)

(* Results by rank: as no two results share a key, the order is total, and *)
(* every rank below their number belongs to one of them.                   *)
LEMMA OrderedResults ==
    ASSUME NEW results, IsFiniteSet(results), NEW k \in Nat,
           \A r \in results : r.score \in Int /\ r.card \in AllCards,
           \A r, s \in results : Key(r.card) = Key(s.card) => r = s
    PROVE  /\ DOMAIN InOrder(results, k) \subseteq Nat
           /\ \A i \in DOMAIN InOrder(results, k) : InOrder(results, k)[i] \in results
<1> DEFINE good == {r \in results : r.score > 0}
           n == Cardinality(good)
           above(r) == {s \in good : Beats(s, r)}
           rank == [r \in good |-> Cardinality(above(r))]
<1>1. IsFiniteSet(good) /\ n \in Nat
  BY FS_Subset, FS_CardinalityType
<1>2. \A r \in good : IsFiniteSet(above(r)) /\ Cardinality(above(r)) \in Nat
  BY <1>1, FS_Subset, FS_CardinalityType
<1>3. \A r \in good : Place(Key(r.card)) \in Int /\ Order[Place(Key(r.card))] = Key(r.card)
  <2> SUFFICES ASSUME NEW r \in good PROVE Place(Key(r.card)) \in Int /\ Order[Place(Key(r.card))] = Key(r.card)
    OBVIOUS
  <2>1. \E i \in DOMAIN Order : Order[i] = Key(r.card)
    BY SearchAssumption DEF SearchAssumption
  <2>2. DOMAIN Order \subseteq Int
    BY SearchAssumption DEF SearchAssumption
  <2> QED
    BY <2>1, <2>2 DEF Place
<1>4. \A r \in good : ~Beats(r, r)
  BY <1>3 DEF Beats
<1>5. \A r, s \in good : r # s => Beats(r, s) \/ Beats(s, r)
  <2> SUFFICES ASSUME NEW r \in good, NEW s \in good, r # s PROVE Beats(r, s) \/ Beats(s, r)
    OBVIOUS
  <2>1. Place(Key(r.card)) # Place(Key(s.card))
    BY <1>3
  <2> QED
    BY <1>3, <2>1 DEF Beats
<1>6. \A r, s, t \in good : Beats(r, s) /\ Beats(s, t) => Beats(r, t)
  BY <1>3 DEF Beats
<1>7. \A r, s \in good : Beats(r, s) => rank[r] < rank[s]
  <2> SUFFICES ASSUME NEW r \in good, NEW s \in good, Beats(r, s) PROVE rank[r] < rank[s]
    OBVIOUS
  <2>1. above(r) \in SUBSET above(s) /\ r \in above(s) /\ r \notin above(r)
    BY <1>4, <1>6
  <2>2. above(r) # above(s)
    BY <2>1
  <2>3. Cardinality(above(r)) <= Cardinality(above(s)) /\ Cardinality(above(r)) # Cardinality(above(s))
    <3> HIDE DEF above
    <3> QED
      BY <1>2, <2>1, <2>2, FS_Subset
  <2> HIDE DEF good, above
  <2> QED
    BY <1>2, <2>3
<1>8. \A r \in good : rank[r] \in 0..n - 1
  <2> SUFFICES ASSUME NEW r \in good PROVE rank[r] \in 0..n - 1
    OBVIOUS
  <2>1. above(r) \in SUBSET (good \ {r})
    BY <1>4
  <2>2. IsFiniteSet(good \ {r}) /\ Cardinality(good \ {r}) = n - 1
    BY <1>1, FS_RemoveElement
  <2>3. Cardinality(above(r)) <= n - 1
    <3> HIDE DEF above, good, n
    <3> QED
      BY <2>1, <2>2, FS_Subset
  <2> HIDE DEF good, above, n
  <2> QED
    BY <1>1, <1>2, <2>3
<1>9. rank \in Injection(good, 0..n - 1)
  <2>1. rank \in [good -> 0..n - 1]
    BY <1>8
  <2>2. \A r, s \in good : rank[r] = rank[s] => r = s
    <3> HIDE DEF rank, good, n
    <3>1. \A r \in good : rank[r] \in Int
      BY <1>1, <1>8
    <3> QED
      BY <1>5, <1>7, <3>1
  <2> QED
    BY <2>1, <2>2 DEF Injection, IsInjective
<1>10. rank \in Surjection(good, 0..n - 1)
  <2>1. IsFiniteSet(0..n - 1) /\ Cardinality(0..n - 1) = n
    BY <1>1, FS_Interval
  <2> HIDE DEF rank, good
  <2> QED
    BY <1>9, <2>1, FS_Injection
<1>11. \A i \in 1..n : \E r \in good : Cardinality(above(r)) = i - 1
  <2> SUFFICES ASSUME NEW i \in 1..n PROVE \E r \in good : rank[r] = i - 1
    OBVIOUS
  <2>1. i - 1 \in 0..n - 1
    BY <1>1
  <2> HIDE DEF rank, good
  <2> QED
    BY <1>10, <2>1 DEF Surjection
<1>12. Lesser(k, n) \in Nat /\ Lesser(k, n) <= n
  BY <1>1 DEF Lesser
<1>13. InOrder(results, k) = [i \in 1..Lesser(k, n) |-> CHOOSE r \in good : Cardinality(above(r)) = i - 1]
  BY DEF InOrder
<1> HIDE DEF good, above, n
<1>14. DOMAIN InOrder(results, k) = 1..Lesser(k, n)
  BY <1>13
<1>15. \A i \in 1..Lesser(k, n) : InOrder(results, k)[i] \in good
  <2> SUFFICES ASSUME NEW i \in 1..Lesser(k, n) PROVE InOrder(results, k)[i] \in good
    OBVIOUS
  <2>1. i \in 1..n
    BY <1>1, <1>12
  <2>2. PICK r \in good : Cardinality(above(r)) = i - 1
    BY <1>11, <2>1
  <2>3. (CHOOSE x \in good : Cardinality(above(x)) = i - 1) \in good
    BY <2>2
  <2> QED
    BY <1>13, <2>3
<1> QED
  BY <1>12, <1>14, <1>15 DEF good

LEMMA FiniteImage ==
    ASSUME NEW S, IsFiniteSet(S), NEW f, DOMAIN f = S
    PROVE  IsFiniteSet({f[x] : x \in S})
<1> DEFINE T == {f[x] : x \in S}
           g == [x \in S |-> f[x]]
<1>1. g \in Surjection(S, T)
  BY DEF Surjection
<1> QED
  BY <1>1, FS_Surjection

LEMMA ScoredIs ==
    ASSUME NEW q \in Queries, NEW c \in AllCards, NEW base \in Int, NEW channels
    PROVE  LET r == Scored(c, q, base, channels)
           IN  r.card = c /\ r.score \in Int /\ r.channels = channels
<1>1. Cardinality(c.deps \ q.capabilities) \in Nat /\ Cardinality(c.conflicts \cap q.skills) \in Nat
  <2>1. IsFiniteSet(c.deps) /\ IsFiniteSet(c.conflicts)
    BY SearchAssumption DEF SearchAssumption
  <2> QED
    BY <2>1, FS_Difference, FS_Intersection, FS_CardinalityType
<1>2. Penalty(c, q) \in Int
  BY <1>1 DEF Penalty, Lesser
<1> QED
  BY <1>2 DEF Scored

LEMMA VisibleCards ==
    ASSUME NEW cards \in SUBSET AllCards, KeysDiffer(cards), NEW q
    PROVE  Visible(cards, q) \subseteq cards /\ IsFiniteSet(Visible(cards, q)) /\ KeysDiffer(Visible(cards, q))
<1>1. Visible(cards, q) \subseteq cards
  BY DEF Visible
<1>2. IsFiniteSet(AllCards)
  BY SearchAssumption DEF SearchAssumption
<1>3. Visible(cards, q) \in SUBSET AllCards
  BY <1>1
<1> QED
  BY <1>1, <1>2, <1>3, FS_Subset DEF KeysDiffer

(* The local rules answer with visible cards, and with words alone.        *)
LEMMA LocalResults ==
    ASSUME NEW cards \in SUBSET AllCards, KeysDiffer(cards), NEW q \in Queries
    PROVE  LET found == LocalSearch(cards, q)
           IN  /\ DOMAIN found \subseteq Nat
               /\ \A i \in DOMAIN found : found[i].card \in Visible(cards, q) /\ found[i].channels = {"lexical"}
<1> DEFINE seen == Visible(cards, q)
           one(c) == Scored(c, q, Lexical(q, Key(c)), {"lexical"})
           results == {one(c) : c \in seen}
<1>1. seen \subseteq cards /\ IsFiniteSet(seen) /\ KeysDiffer(seen)
  BY VisibleCards
<1>2. \A c \in seen : one(c).card = c /\ one(c).score \in Int /\ one(c).channels = {"lexical"}
  <2> SUFFICES ASSUME NEW c \in seen PROVE one(c).card = c /\ one(c).score \in Int /\ one(c).channels = {"lexical"}
    OBVIOUS
  <2>1. c \in AllCards
    BY <1>1
  <2>2. Lexical(q, Key(c)) \in Int
    BY <2>1, SearchAssumption DEF SearchAssumption
  <2> QED
    BY <2>1, <2>2, ScoredIs
<1> HIDE DEF one, seen
<1>3. IsFiniteSet(results)
  <2> DEFINE f == [c \in seen |-> one(c)]
  <2>1. IsFiniteSet({f[x] : x \in seen})
    BY <1>1, FiniteImage
  <2> QED
    BY <2>1
<1>4. \A r \in results : r.score \in Int /\ r.card \in seen /\ r.channels = {"lexical"}
  BY <1>2
<1>5. \A r, s \in results : Key(r.card) = Key(s.card) => r = s
  BY <1>1, <1>2 DEF KeysDiffer
<1>6. q.top \in Nat /\ LocalSearch(cards, q) = InOrder(results, q.top)
  BY SearchAssumption DEF SearchAssumption, LocalSearch, one, seen
<1>7. \A r \in results : r.card \in AllCards
  BY <1>1, <1>4
<1> HIDE DEF results
<1>8. /\ DOMAIN InOrder(results, q.top) \subseteq Nat
      /\ \A i \in DOMAIN InOrder(results, q.top) : InOrder(results, q.top)[i] \in results
  BY <1>3, <1>4, <1>5, <1>6, <1>7, OrderedResults
<1> QED
  BY <1>4, <1>6, <1>8 DEF seen

(* The channels' hits.                                                     *)
Keys == {Key(c) : c \in AllCards}

LEMMA FiniteHybrid == IsFiniteSet(Hybrid)
<1>1. Hybrid = ({"e5"} \cup {"bm25"}) \cup {"colbert"}
  BY DEF Hybrid
<1> QED
  BY <1>1, FS_Singleton, FS_AddElement

LEMMA RanksAreNumbers ==
    ASSUME NEW hits \in SUBSET (Keys \X Hybrid), NEW q, NEW k
    PROVE  RrfSum(hits, q, k) \in Int
<1>2. IsFiniteSet(Keys)
  <2> DEFINE f == [c \in AllCards |-> Key(c)]
  <2>1. IsFiniteSet(AllCards)
    BY SearchAssumption DEF SearchAssumption
  <2>2. IsFiniteSet({f[c] : c \in AllCards})
    BY <2>1, FiniteImage
  <2> QED
    BY <2>2 DEF Keys
<1>3. IsFiniteSet(hits)
  <2>1. IsFiniteSet(Keys \X Hybrid)
    BY <1>2, FiniteHybrid, FS_Product
  <2> QED
    BY <2>1, FS_Subset
<1>4. \A channel : ChannelRank(hits, q, channel, k) \in Nat /\ ChannelRank(hits, q, channel, k) >= 1
  <2> SUFFICES ASSUME NEW channel
               PROVE  ChannelRank(hits, q, channel, k) \in Nat /\ ChannelRank(hits, q, channel, k) >= 1
    OBVIOUS
  <2> DEFINE before == {h \in hits : h[2] = channel /\ Better(q, channel, h[1], k)}
  <2>1. IsFiniteSet(before)
    BY <1>3, FS_Subset
  <2>2. Cardinality(before) \in Nat
    BY <2>1, FS_CardinalityType
  <2>3. ChannelRank(hits, q, channel, k) = 1 + Cardinality(before)
    BY DEF ChannelRank
  <2> QED
    BY <2>2, <2>3
<1>5. \A r \in Nat : r >= 1 => Rrf(r) \in Int
  BY SearchAssumption DEF SearchAssumption, Rrf
<1>6. \A channel : Share(hits, q, channel, k) \in Int
  BY <1>4, <1>5 DEF Share
<1> QED
  BY <1>6 DEF RrfSum

LEMMA PositiveQuotient ==
    ASSUME NEW m \in Nat, NEW d \in Nat, d > 0, m >= d
    PROVE  m \div d \in Nat /\ m \div d > 0
<1>1. m = d * (m \div d) + (m % d) /\ m % d < d /\ m \div d \in Int
  OBVIOUS
<1> DEFINE e == m \div d
<1>2. e \in Int /\ m - d * e < d
  BY <1>1
<1> HIDE DEF e
<1>3. e <= 0 => d * e <= 0
  BY <1>2
<1> QED
  BY <1>2, <1>3 DEF e

(* Fusion returns visible cards that were hit, with the channels that hit  *)
(* them; when it finds nothing, the local rules answer.                    *)
LEMMA FusedResults ==
    ASSUME search.read \in SUBSET AllCards, KeysDiffer(search.read), NEW q \in Queries,
           NEW hits \in SUBSET (Keys \X Hybrid)
    PROVE  LET found == Results(hits, q)
           IN  /\ DOMAIN found \subseteq Nat
               /\ \A i \in DOMAIN found :
                     /\ found[i].card \in Visible(search.read, q)
                     /\ "bm25" \in found[i].channels => <<Key(found[i].card), "bm25">> \in hits
<1> DEFINE seen == Visible(search.read, q)
           used == {h[2] : h \in hits}
           most == Cardinality(used) * Rrf(1)
           of(c) == {h[2] : h \in {x \in hits : x[1] = Key(c)}}
           words(c) == IF Lexical(q, Key(c)) > 0 \/ c.id \in q.negatives THEN {"lexical"} ELSE {}
           base(c) == (1000 * RrfSum(hits, q, Key(c))) \div most
           one(c) == Scored(c, q, base(c), of(c) \cup words(c))
           hit == {c \in seen : of(c) # {}}
<1>1. Fused(hits, q) = {one(c) : c \in hit}
  BY DEF Fused
<1>2. seen \subseteq search.read /\ IsFiniteSet(seen) /\ KeysDiffer(seen)
  BY VisibleCards
<1>3. hits # {} => most \in Nat /\ most > 0
  <2> SUFFICES ASSUME hits # {} PROVE most \in Nat /\ most > 0
    OBVIOUS
  <2>1. used # {} /\ IsFiniteSet(used)
    <3>1. used \in SUBSET Hybrid /\ used # {}
      OBVIOUS
    <3> QED
      BY <3>1, FiniteHybrid, FS_Subset
  <2>2. Rrf(1) \in Nat /\ Rrf(1) > 0
    <3>1. RrfK + 1 \in Nat /\ RrfK + 1 > 0 /\ Scale \in Nat /\ Scale >= RrfK + 1
      BY SearchAssumption DEF SearchAssumption
    <3> QED
      BY <3>1, PositiveQuotient DEF Rrf
  <2> HIDE DEF used
  <2>3. Cardinality(used) \in Nat /\ Cardinality(used) # 0
    BY <2>1, FS_EmptySet, FS_CardinalityType
  <2> QED
    BY <2>2, <2>3
<1>4. ASSUME NEW c \in hit
      PROVE  one(c).card = c /\ one(c).score \in Int /\ one(c).channels = of(c) \cup words(c)
  <2>1. c \in AllCards
    BY <1>2
  <2>2. most \in Nat /\ most > 0
    BY <1>3
  <2>3. RrfSum(hits, q, Key(c)) \in Int
    BY RanksAreNumbers
  <2>4. base(c) \in Int
    <3> HIDE DEF most
    <3> QED
      BY <2>2, <2>3
  <2> HIDE DEF base, of, words
  <2> QED
    BY <2>1, <2>4, ScoredIs
<1> DEFINE results == {one(c) : c \in hit}
<1>5. \A c \in hit : "bm25" \in of(c) \cup words(c) => <<Key(c), "bm25">> \in hits
  <2> SUFFICES ASSUME NEW c \in hit, "bm25" \in of(c) \cup words(c) PROVE <<Key(c), "bm25">> \in hits
    OBVIOUS
  <2>1. PICK h \in hits : h[1] = Key(c) /\ h[2] = "bm25"
    OBVIOUS
  <2>2. h = <<h[1], h[2]>>
    OBVIOUS
  <2> QED
    BY <2>1, <2>2
<1>6. hit \subseteq seen /\ IsFiniteSet(hit) /\ KeysDiffer(hit)
  <2>1. hit \in SUBSET seen
    OBVIOUS
  <2> HIDE DEF hit, seen
  <2> QED
    BY <1>2, <2>1, FS_Subset DEF KeysDiffer
<1> HIDE DEF one, hit, of, words
<1>7. IsFiniteSet(results)
  <2> DEFINE f == [c \in hit |-> one(c)]
  <2>1. IsFiniteSet({f[x] : x \in hit})
    BY <1>6, FiniteImage
  <2> QED
    BY <2>1
<1>8. \A r \in results : /\ r.score \in Int /\ r.card \in hit
                         /\ "bm25" \in r.channels => <<Key(r.card), "bm25">> \in hits
  BY <1>4, <1>5
<1>9. \A r, s \in results : Key(r.card) = Key(s.card) => r = s
  BY <1>4, <1>6 DEF KeysDiffer
<1>10. q.top \in Nat /\ \A r \in results : r.card \in AllCards
  BY <1>2, <1>6, <1>8, SearchAssumption DEF SearchAssumption
<1> DEFINE ordered == InOrder(results, q.top)
<1>11. Results(hits, q) = IF hits = {} \/ ordered = <<>> THEN LocalSearch(search.read, q) ELSE ordered
  BY <1>1 DEF Results
<1> HIDE DEF results
<1>12. DOMAIN ordered \subseteq Nat /\ \A i \in DOMAIN ordered : ordered[i] \in results
  BY <1>7, <1>8, <1>9, <1>10, OrderedResults
<1>13. CASE hits = {} \/ ordered = <<>>
  <2>1. "bm25" \notin {"lexical"}
    OBVIOUS
  <2> QED
    BY <1>11, <1>13, <2>1, LocalResults
<1>14. CASE ~(hits = {} \/ ordered = <<>>)
  <2> HIDE DEF ordered
  <2> QED
    BY <1>6, <1>8, <1>11, <1>12, <1>14
<1> QED
  BY <1>13, <1>14
-----------------------------------------------------------------------------
(* The inductive invariant of the search.                                  *)
Busy == search.pc \in {"scroll", "query"}

IsSearch(s) ==
    s = [pc |-> s.pc, query |-> s.query, scopes |-> s.scopes, page |-> s.page, from |-> s.from,
         read |-> s.read, asked |-> s.asked, hits |-> s.hits, results |-> s.results]

(* The collection, and what is known of it since the search began.         *)
CollectionHolds ==
    /\ points \subseteq Cards /\ KeysDiffer(points) /\ always \subseteq points /\ ever \subseteq Cards
    /\ Busy => points \subseteq ever

ReadHolds ==
    Busy => search.query \in Queries /\ search.read \subseteq ever /\ KeysDiffer(search.read)

(* While the scopes are read, what was stored all the time is read or is   *)
(* still ahead; nothing that is ahead was read.                            *)
StillAhead(c) ==
    \/ Len(search.scopes) > 1 /\ c.tenant = search.scopes[2]
    \/ c.tenant = search.scopes[1] /\ PointPlace(c) >= search.from

ScrollHolds ==
    search.pc = "scroll" =>
        /\ \/ search.scopes \in {<<Global>>, <<search.query.tenant>>}
           \/ search.scopes = <<Global, search.query.tenant>> /\ search.query.tenant # Global
        /\ search.from \in Nat /\ search.hits = {} /\ search.asked = {}
        /\ \A c \in always : InScope(c, search.query) => c \in search.read \/ StillAhead(c)
        /\ \A c \in search.read : ~StillAhead(c)

Covers(read) == \A c \in always : InScope(c, search.query) => c \in read

(* While the channels are asked, everything that counts is read, and the   *)
(* collection has vouched for every hit.                                   *)
QueryHolds ==
    search.pc = "query" =>
        /\ Covers(search.read)
        /\ search.hits \subseteq Keys \X Hybrid
        /\ \A h \in search.hits : \E p \in ever : Key(p) = h[1] /\ h[2] \in p.ready
        /\ \A r \in search.asked : r[2] \in Hybrid

Vouched(c) == \E p \in Cards : Key(p) = Key(c) /\ "bm25" \in p.ready /\ Stored(p)

ResultHolds(r) ==
    /\ r.card \in AllCards
    /\ Stored(r.card) \/ (HasFallback /\ r.card \in LocalCards /\ r.channels = {"lexical"})
    /\ "bm25" \in r.channels => Vouched(r.card)

ResultsHold ==
    /\ search.pc \notin {"found", "decided"} => search.results = <<>>
    /\ DOMAIN search.results \subseteq Nat
    /\ \A i \in DOMAIN search.results : ResultHolds(search.results[i])

DecisionHolds == TrustedWasStored /\ (search.pc # "decided" => decision = NoDecision)

SearchInv ==
    /\ IsSearch(search) /\ CollectionHolds /\ ReadHolds
    /\ ScrollHolds /\ QueryHolds /\ ResultsHold /\ DecisionHolds

LEMMA FirstPlace ==
    ASSUME NEW S \in SUBSET Nat, S # {}
    PROVE  Min(S) \in S /\ \A n \in S : Min(S) <= n
<1>1. PICK n \in S : \A m \in S : n <= m
  BY LeastNatural
<1> QED
  BY <1>1 DEF Min

LEMMA PlaceOfPoint == \A c \in Cards : PointPlace(c) \in Nat
<1> SUFFICES ASSUME NEW c \in Cards PROVE PointPlace(c) \in Nat
  OBVIOUS
<1>1. \E i \in DOMAIN PointOrder : PointOrder[i] = Key(c)
  BY SearchAssumption DEF SearchAssumption
<1>2. DOMAIN PointOrder \subseteq Nat
  BY SearchAssumption DEF SearchAssumption
<1> QED
  BY <1>1, <1>2 DEF PointPlace

LEMMA DecidedIs ==
    ASSUME NEW cands, NEW selected, NEW g
    PROVE  LET d == Decided(cands, selected, g)
           IN  /\ d.grounds = g /\ (selected # Unselected => d.selected = selected)
               /\ \E margin : d.band = Band(d.selected, margin, g)
<1> DEFINE ranked == Ranked(cands)
           chosen == IF selected # Unselected \/ ranked = <<>> THEN selected ELSE ranked[1].id
           margin == ScoreAt(ranked, 1) - ScoreAt(ranked, 2)
           b == Band(chosen, margin, g)
<1>1. Decided(cands, selected, g) = [candidates |-> ranked, selected |-> chosen, grounds |-> g, band |-> b]
  BY DEF Decided
<1>2. selected # Unselected => chosen = selected
  OBVIOUS
<1>3. \E m : b = Band(chosen, m, g)
  OBVIOUS
<1> HIDE DEF ranked, chosen, margin, b
<1>4. LET d == Decided(cands, selected, g)
      IN  d.selected = chosen /\ d.grounds = g /\ d.band = b
  BY <1>1
<1> QED
  BY <1>2, <1>3, <1>4

LEMMA NothingIsTrusted == NoDecision.band = "planner_required"
<1> DEFINE g == Grounds(3, 0, 1000, NoSignal, FALSE)
<1>1. \A s, m : Band(s, m, g) = "planner_required"
  BY DEF Grounds, Band
<1>2. NoDecision = Decided(<<>>, Unselected, g)
  BY DEF NoDecision
<1> HIDE DEF g
<1>3. \E margin : NoDecision.band = Band(NoDecision.selected, margin, g)
  BY <1>2, DecidedIs
<1> QED
  BY <1>1, <1>3

LEMMA InitSearchInv == InitSearch => SearchInv
<1> SUFFICES ASSUME InitSearch PROVE SearchInv
  OBVIOUS
<1>1. /\ search = NoSearch /\ decision = NoDecision /\ ever = {} /\ always = {}
      /\ points \subseteq Cards /\ KeysDiffer(points)
  BY SearchAssumption DEF SearchAssumption, InitSearch
<1>2. IsSearch(search) /\ search.pc = "idle" /\ search.results = <<>>
  BY <1>1 DEF IsSearch, NoSearch
<1>3. DOMAIN search.results = {}
  BY <1>2
<1>4. TrustedWasStored
  BY <1>1, NothingIsTrusted DEF TrustedWasStored
<1> QED
  BY <1>1, <1>2, <1>3, <1>4
     DEF SearchInv, CollectionHolds, ReadHolds, ScrollHolds, QueryHolds, ResultsHold, DecisionHolds, Busy

(* What a write leaves true: the cards stored all the time only get fewer. *)
LEMMA WriteKeeps ==
    ASSUME SearchInv, Busy, NEW now \in SUBSET Cards, KeysDiffer(now), Write(now)
    PROVE  SearchInv'
<1>1. /\ search' = search /\ decision' = decision /\ points' = now
      /\ ever' = ever \cup now /\ always' = always \cap now
  BY DEF Write
<1>2. search.pc \in {"scroll", "query"} /\ search.results = <<>> /\ DOMAIN search.results = {}
      /\ decision = NoDecision
  BY DEF SearchInv, Busy, ResultsHold, DecisionHolds
<1>3. CollectionHolds'
  BY <1>1 DEF SearchInv, CollectionHolds, KeysDiffer, Busy
<1>4. ReadHolds' /\ IsSearch(search)'
  BY <1>1 DEF SearchInv, ReadHolds, Busy, KeysDiffer, IsSearch
<1>5. ScrollHolds'
  BY <1>1 DEF SearchInv, ScrollHolds, StillAhead
<1>6. QueryHolds'
  BY <1>1 DEF SearchInv, QueryHolds, Covers
<1>7. ResultsHold'
  BY <1>1, <1>2 DEF ResultsHold
<1>8. DecisionHolds'
  BY <1>1, <1>2, NothingIsTrusted DEF DecisionHolds, TrustedWasStored
<1> QED
  BY <1>3, <1>4, <1>5, <1>6, <1>7, <1>8 DEF SearchInv

LEMMA WritesKeep ==
    ASSUME SearchInv, NEW c \in Cards, search.pc \in {"scroll", "query"}, Upsert(c) \/ DeletePoint(c)
    PROVE  SearchInv'
<1>1. Busy /\ points \subseteq Cards /\ KeysDiffer(points)
  BY DEF SearchInv, CollectionHolds, Busy
<1>2. CASE Upsert(c)
  <2> DEFINE now == {d \in points : Key(d) # Key(c)} \cup {c}
  <2>1. now \in SUBSET Cards /\ KeysDiffer(now)
    BY <1>1 DEF KeysDiffer
  <2>2. Write(now)
    BY <1>2 DEF Upsert
  <2> QED
    BY <1>1, <2>1, <2>2, WriteKeeps
<1>3. CASE DeletePoint(c)
  <2>1. points \ {c} \in SUBSET Cards /\ KeysDiffer(points \ {c})
    BY <1>1 DEF KeysDiffer
  <2> QED
    BY <1>1, <1>3, <2>1, WriteKeeps DEF DeletePoint
<1> QED
  BY <1>2, <1>3

-----------------------------------------------------------------------------
(* Steps that end the reading and the asking.                              *)
Rest == /\ points' = points /\ decision' = decision /\ ever' = ever /\ always' = always

LEMMA StoredStays ==
    ASSUME NEW c, Rest, search'.query = search.query
    PROVE  Stored(c)' <=> Stored(c)
BY DEF Rest, Stored

(* What is visible when everything that counts was read is not superseded  *)
(* by a card that was stored all the time, nor is one with the same key.   *)
LEMMA SeenIsStored ==
    ASSUME NEW read, Covers(read), read \subseteq ever, NEW c \in Visible(read, search.query)
    PROVE  Stored(c) /\ \A p \in ever : Key(p) = Key(c) => Stored(p)
<1>1. c \in read /\ \A d \in always : InScope(d, search.query) => ~Supersedes(d, c)
  BY DEF Visible, Covers
<1>2. ASSUME NEW p, Key(p) = Key(c), NEW d, Supersedes(d, p) PROVE Supersedes(d, c)
  <2>1. p.type = c.type /\ p.id = c.id /\ p.version = c.version /\ p.tenant = c.tenant
    BY <1>2 DEF Key
  <2> QED
    BY <1>2, <2>1 DEF Supersedes, SameEntity
<1> QED
  BY <1>1, <1>2 DEF Stored

LEMMA FinishedKeeps ==
    ASSUME SearchInv, Busy, Rest, NEW found, Finished(found), DOMAIN found \subseteq Nat,
           \A i \in DOMAIN found : ResultHolds(found[i])
    PROVE  SearchInv'
<1>1. IsSearch(search') /\ search'.pc = "found" /\ search'.results = found /\ search'.query = search.query
  BY DEF SearchInv, IsSearch, Finished
<1>2. decision' = NoDecision
  BY DEF SearchInv, Busy, DecisionHolds, Rest
<1>3. CollectionHolds' /\ ReadHolds' /\ ScrollHolds' /\ QueryHolds'
  BY <1>1 DEF SearchInv, CollectionHolds, ReadHolds, ScrollHolds, QueryHolds, Busy, Rest
<1>4. ASSUME NEW r, ResultHolds(r) PROVE ResultHolds(r)'
  <2>1. \A c : Stored(c)' <=> Stored(c)
    BY <1>1, StoredStays
  <2> QED
    BY <1>4, <2>1 DEF ResultHolds, Vouched
<1>5. ResultsHold'
  BY <1>1, <1>4 DEF ResultsHold
<1>6. DecisionHolds'
  BY <1>1, <1>2, NothingIsTrusted DEF DecisionHolds, TrustedWasStored
<1> QED
  BY <1>1, <1>3, <1>5, <1>6 DEF SearchInv

LEMMA RaisedKeeps ==
    ASSUME SearchInv, Busy, Rest, Raised
    PROVE  SearchInv'
<1>1. IsSearch(search') /\ search'.pc = "raised" /\ search'.results = search.results
  BY DEF SearchInv, IsSearch, Raised
<1>2. decision' = NoDecision /\ search.results = <<>> /\ DOMAIN search.results = {}
  BY DEF SearchInv, Busy, DecisionHolds, ResultsHold, Rest
<1>3. CollectionHolds' /\ ReadHolds' /\ ScrollHolds' /\ QueryHolds'
  BY <1>1 DEF SearchInv, CollectionHolds, ReadHolds, ScrollHolds, QueryHolds, Busy, Rest
<1>4. ResultsHold'
  BY <1>1, <1>2 DEF ResultsHold
<1>5. DecisionHolds'
  BY <1>1, <1>2, NothingIsTrusted DEF DecisionHolds, TrustedWasStored
<1> QED
  BY <1>1, <1>3, <1>4, <1>5 DEF SearchInv

(* Answers of the local rules over what was read.                          *)
LEMMA LocalKeeps ==
    ASSUME SearchInv, Busy, Rest, NEW read, Covers(read), read \subseteq ever, KeysDiffer(read),
           Finished(LocalSearch(read, search.query)) \/ Finished(<<>>)
    PROVE  SearchInv'
<1>1. CASE Finished(<<>>)
  <2>1. DOMAIN <<>> = {}
    OBVIOUS
  <2> QED
    BY <1>1, <2>1, FinishedKeeps
<1>2. CASE Finished(LocalSearch(read, search.query))
  <2> DEFINE found == LocalSearch(read, search.query)
  <2>1. read \in SUBSET AllCards /\ search.query \in Queries
    BY DEF SearchInv, CollectionHolds, ReadHolds, AllCards
  <2>2. /\ DOMAIN found \subseteq Nat
        /\ \A i \in DOMAIN found : /\ found[i].card \in Visible(read, search.query)
                                   /\ found[i].channels = {"lexical"}
    BY <2>1, LocalResults
  <2> HIDE DEF found
  <2>3. ASSUME NEW i \in DOMAIN found PROVE ResultHolds(found[i])
    <3>1. Stored(found[i].card) /\ found[i].card \in read
      BY <2>2, SeenIsStored DEF Visible
    <3>2. "bm25" \notin found[i].channels
      BY <2>2
    <3> QED
      BY <2>1, <3>1, <3>2 DEF ResultHolds
  <2> QED
    BY <1>2, <2>2, <2>3, FinishedKeeps DEF found
<1> QED
  BY <1>1, <1>2

-----------------------------------------------------------------------------
(* The steps of the search.                                                *)
LEMMA StartKeepsSearch ==
    ASSUME SearchInv, NEW q \in Queries, Start(q)
    PROVE  SearchInv'
<1>1. /\ search' = [NoSearch EXCEPT !.pc = "scroll", !.query = q, !.scopes = VisibleScopes(q)]
      /\ ever' = points /\ always' = points /\ points' = points /\ decision' = NoDecision
  BY DEF Start
<1>2. /\ IsSearch(search') /\ search'.pc = "scroll" /\ search'.query = q /\ search'.scopes = VisibleScopes(q)
      /\ search'.from = 0 /\ search'.read = {} /\ search'.hits = {} /\ search'.asked = {}
      /\ search'.results = <<>>
  BY <1>1 DEF NoSearch, IsSearch
<1>3. CollectionHolds' /\ ReadHolds' /\ QueryHolds'
  BY <1>1, <1>2 DEF SearchInv, CollectionHolds, ReadHolds, QueryHolds, Busy, KeysDiffer
<1>4. ScrollHolds'
  <2>1. \A c \in always' : InScope(c, q) => StillAhead(c)'
    <3> SUFFICES ASSUME NEW c \in points, InScope(c, q) PROVE StillAhead(c)'
      BY <1>1
    <3>1. PointPlace(c) >= 0
      BY PlaceOfPoint DEF SearchInv, CollectionHolds
    <3>2. c.tenant \in {Global, q.tenant}
      BY DEF InScope
    <3> QED
      BY <1>2, <3>1, <3>2 DEF StillAhead, VisibleScopes
  <2>2. search'.scopes = IF q.tenant = Global THEN <<Global>> ELSE <<Global, q.tenant>>
    BY <1>2 DEF VisibleScopes
  <2> QED
    BY <1>2, <2>1, <2>2 DEF ScrollHolds
<1>5. ResultsHold'
  <2>1. DOMAIN search'.results = {}
    BY <1>2
  <2> QED
    BY <1>2, <2>1 DEF ResultsHold
<1>6. DecisionHolds'
  BY <1>1, NothingIsTrusted DEF DecisionHolds, TrustedWasStored
<1> QED
  BY <1>2, <1>3, <1>4, <1>5, <1>6 DEF SearchInv

(* Steps that stay busy: what was found and decided does not matter yet.   *)
LEMMA BusyKeeps ==
    ASSUME SearchInv, Busy, Rest, IsSearch(search'), search'.query = search.query,
           search'.pc \in {"scroll", "query"}, search'.results = search.results,
           search'.read \subseteq ever, KeysDiffer(search'.read), ScrollHolds', QueryHolds'
    PROVE  SearchInv'
<1>1. search.results = <<>> /\ DOMAIN search.results = {} /\ decision = NoDecision
  BY DEF SearchInv, Busy, ResultsHold, DecisionHolds
<1>2. CollectionHolds' /\ ReadHolds'
  BY DEF SearchInv, CollectionHolds, ReadHolds, Busy, Rest, KeysDiffer
<1>3. ResultsHold' /\ DecisionHolds'
  BY <1>1, NothingIsTrusted DEF ResultsHold, DecisionHolds, TrustedWasStored, Rest
<1> QED
  BY <1>2, <1>3 DEF SearchInv

LEMMA ScopesAre ==
    ASSUME SearchInv, search.pc = "scroll"
    PROVE  /\ Head(search.scopes) = search.scopes[1] /\ Len(search.scopes) \in {1, 2}
           /\ Len(search.scopes) > 1 =>
                 /\ Tail(search.scopes) = <<search.scopes[2]>> /\ search.scopes[1] # search.scopes[2]
                 /\ search.scopes[2] = search.query.tenant
<1>1. \/ search.scopes \in {<<Global>>, <<search.query.tenant>>}
      \/ search.scopes = <<Global, search.query.tenant>> /\ search.query.tenant # Global
  BY DEF SearchInv, ScrollHolds
<1>2. ASSUME NEW a, search.scopes = <<a>>
      PROVE  Head(search.scopes) = search.scopes[1] /\ Len(search.scopes) = 1
  BY <1>2
<1>3. ASSUME NEW a, NEW b, search.scopes = <<a, b>>, a # b
      PROVE  /\ Head(search.scopes) = search.scopes[1] /\ Len(search.scopes) = 2
             /\ Tail(search.scopes) = <<b>> /\ search.scopes[1] = a /\ search.scopes[2] = b
  BY <1>3
<1>4. CASE search.scopes \in {<<Global>>, <<search.query.tenant>>}
  BY <1>2, <1>4
<1>5. CASE search.scopes = <<Global, search.query.tenant>> /\ search.query.tenant # Global
  BY <1>3, <1>5
<1> QED
  BY <1>1, <1>4, <1>5

(* After the last page.                                                    *)
LEMMA AfterScrollKeeps ==
    ASSUME SearchInv, search.pc = "scroll", Rest, NEW read, Covers(read), read \subseteq ever,
           KeysDiffer(read), AfterScroll(read)
    PROVE  SearchInv'
<1> DEFINE q == search.query
           path == RetrievalPath(Visible(read, q), Semantic)
           asked == ToSet(VisibleScopes(q)) \X Channels(path)
<1>1. Busy
  BY DEF Busy
<1>2. CASE Finished(<<>>) \/ Finished(LocalSearch(read, q))
  BY <1>1, <1>2, LocalKeeps
<1>3. CASE search' = [search EXCEPT !.pc = "query", !.read = read, !.asked = asked]
  <2>1. \A r \in asked : r[2] \in Hybrid
    BY DEF Channels, Hybrid
  <2> HIDE DEF asked
  <2>2. /\ IsSearch(search') /\ search'.pc = "query" /\ search'.query = q /\ search'.read = read
        /\ search'.asked = asked /\ search'.hits = search.hits /\ search'.results = search.results
    BY <1>3 DEF SearchInv, IsSearch
  <2>3. ScrollHolds'
    BY <2>2 DEF ScrollHolds
  <2>4. QueryHolds'
    <3>1. search.hits = {}
      BY DEF SearchInv, ScrollHolds
    <3> QED
      BY <2>1, <2>2, <3>1 DEF QueryHolds, Covers, Rest
  <2> QED
    BY <1>1, <2>2, <2>3, <2>4, BusyKeeps
<1> QED
  BY <1>2, <1>3 DEF AfterScroll

(* A page: what is left on it is ahead of what it holds, and the cards of  *)
(* a scope have been read when a page holds all that is left.              *)
LEMMA ScrollPageKeeps ==
    ASSUME SearchInv, ScrollPage
    PROVE  SearchInv'
<1> DEFINE q == search.query
           rest == {c \in points : ScopeFilter(c, Head(search.scopes), q) /\ PointPlace(c) >= search.from}
           before(c) == {d \in rest : PointPlace(d) < PointPlace(c)}
           page == {c \in rest : Cardinality(before(c)) < PageSize}
           left == {PointPlace(c) : c \in rest \ page}
           read == search.read \cup page
<1>1. /\ search.pc = "scroll"
      /\ IF page # rest
         THEN IF search.page = MaxPages THEN Raised
              ELSE search' = [search EXCEPT !.page = @ + 1, !.read = read, !.from = Min(left)]
         ELSE IF Len(search.scopes) > 1
              THEN search' = [search EXCEPT !.scopes = Tail(@), !.page = 1, !.from = 0, !.read = read]
              ELSE AfterScroll(read)
  BY DEF ScrollPage
<1>2. Rest /\ Busy
  BY <1>1 DEF ScrollPage, Rest, Busy
<1>3. /\ Head(search.scopes) = search.scopes[1] /\ Len(search.scopes) \in {1, 2}
      /\ Len(search.scopes) > 1 =>
            /\ Tail(search.scopes) = <<search.scopes[2]>> /\ search.scopes[1] # search.scopes[2]
            /\ search.scopes[2] = q.tenant
  BY <1>1, ScopesAre
<1>4. /\ search.from \in Nat /\ search.hits = {} /\ search.asked = {} /\ q \in Queries
      /\ \A c \in always : InScope(c, q) => c \in search.read \/ StillAhead(c)
      /\ \A c \in search.read : ~StillAhead(c)
  BY <1>1, <1>2 DEF SearchInv, ScrollHolds, ReadHolds
<1>5. /\ points \subseteq Cards /\ KeysDiffer(points) /\ always \subseteq points
      /\ points \subseteq ever /\ search.read \subseteq ever /\ KeysDiffer(search.read)
  BY <1>2 DEF SearchInv, CollectionHolds, ReadHolds
<1>6. page \subseteq rest /\ rest \subseteq points /\ \A c \in rest : PointPlace(c) \in Nat
  BY <1>5, PlaceOfPoint
<1>7. \A c \in rest : c.tenant = search.scopes[1] /\ PointPlace(c) >= search.from
  BY <1>3 DEF ScopeFilter
<1>8. \A c \in always : InScope(c, q) /\ c.tenant = search.scopes[1] /\ PointPlace(c) >= search.from => c \in rest
  <2> SUFFICES ASSUME NEW c \in always, InScope(c, q), c.tenant = search.scopes[1],
                      PointPlace(c) >= search.from
               PROVE  c \in rest
    OBVIOUS
  <2>1. Cardinality(q.types) = 1 => c.type \in q.types
    BY FS_EmptySet DEF InScope
  <2> QED
    BY <1>3, <1>5, <2>1 DEF ScopeFilter
<1>9. read \subseteq ever
  BY <1>5, <1>6
<1>10. KeysDiffer(read)
  <2>1. ASSUME NEW c \in search.read, NEW d \in page, Key(c) = Key(d) PROVE FALSE
    <3>1. d.tenant = search.scopes[1] /\ PointPlace(d) >= search.from
      BY <1>6, <1>7
    <3>2. c.tenant = d.tenant
      BY <2>1 DEF Key
    <3>3. PointPlace(c) = PointPlace(d)
      BY <2>1 DEF PointPlace
    <3>4. StillAhead(c)
      BY <3>1, <3>2, <3>3 DEF StillAhead
    <3> QED
      BY <1>4, <3>4
  <2>2. \A c, d \in page : Key(c) = Key(d) => c = d
    BY <1>5, <1>6 DEF KeysDiffer
  <2> HIDE DEF page
  <2> QED
    BY <1>5, <2>1, <2>2 DEF KeysDiffer
<1>11. CASE page # rest /\ search.page = MaxPages
  BY <1>1, <1>2, <1>11, RaisedKeeps
<1>12. CASE page # rest /\ search.page # MaxPages
  <2>1. search' = [search EXCEPT !.page = @ + 1, !.read = read, !.from = Min(left)]
    BY <1>1, <1>12
  <2>2. left \in SUBSET Nat /\ left # {}
    BY <1>6, <1>12
  <2>3. Min(left) \in left /\ \A n \in left : Min(left) <= n
    BY <2>2, FirstPlace
  <2>4. \A c \in page : PointPlace(c) < Min(left)
    <3>1. PICK x \in rest \ page : PointPlace(x) = Min(left)
      BY <2>3
    <3> SUFFICES ASSUME NEW c \in page, ~(PointPlace(c) < Min(left)) PROVE FALSE
      OBVIOUS
    <3>0. PointPlace(x) <= PointPlace(c)
      <4>1. PointPlace(x) \in Nat /\ PointPlace(c) \in Nat
        BY <1>6
      <4> HIDE DEF left
      <4> QED
        BY <3>1, <4>1
    <3>2. before(x) \in SUBSET before(c)
      BY <1>6, <3>0
    <3>3. IsFiniteSet(before(c))
      <4>1. IsFiniteSet(AllCards)
        BY SearchAssumption DEF SearchAssumption
      <4>2. before(c) \in SUBSET AllCards
        BY <1>5 DEF AllCards
      <4> HIDE DEF before
      <4> QED
        BY <4>1, <4>2, FS_Subset
    <3>4. Cardinality(before(c)) < PageSize /\ ~(Cardinality(before(x)) < PageSize)
      OBVIOUS
    <3>5. PageSize \in Nat
      BY SearchAssumption DEF SearchAssumption
    <3> HIDE DEF before
    <3>6. Cardinality(before(x)) <= Cardinality(before(c)) /\ IsFiniteSet(before(x))
      BY <3>2, <3>3, FS_Subset
    <3>7. Cardinality(before(x)) \in Nat /\ Cardinality(before(c)) \in Nat
      BY <3>3, <3>6, FS_CardinalityType
    <3> QED
      BY <3>4, <3>5, <3>6, <3>7
  <2>5. Min(left) \in Nat /\ Min(left) >= search.from
    BY <1>6, <1>7, <2>2, <2>3
  <2>6. \A n \in left : Min(left) <= n
    BY <2>3
  <2>7. \A c \in rest : c \in page \/ PointPlace(c) >= Min(left)
    BY <2>6, <1>6, <2>5
  <2> DEFINE first == Min(left)
  <2> HIDE DEF left, first, page, rest
  <2>8. /\ IsSearch(search') /\ search'.pc = "scroll" /\ search'.query = q /\ search'.read = read
        /\ search'.from = first /\ search'.scopes = search.scopes /\ search'.hits = search.hits /\ search'.asked = search.asked
        /\ search'.results = search.results
    BY <1>1, <2>1 DEF SearchInv, IsSearch, first
  <2>9. first \in Nat /\ first >= search.from /\ (\A c \in page : PointPlace(c) < first)
        /\ \A c \in rest : c \in page \/ PointPlace(c) >= first
    BY <2>4, <2>5, <2>7 DEF first
  <2>10. ScrollHolds'
    <3>1. \/ search'.scopes \in {<<Global>>, <<search'.query.tenant>>}
          \/ search'.scopes = <<Global, search'.query.tenant>> /\ search'.query.tenant # Global
      BY <1>1, <2>8 DEF SearchInv, ScrollHolds
    <3>2. ASSUME NEW c \in always', InScope(c, q) PROVE c \in search'.read \/ StillAhead(c)'
      <4>1. c \in search.read \/ StillAhead(c)
        BY <1>2, <1>4, <3>2 DEF Rest
      <4>2. CASE c \in search.read
        BY <2>8, <4>2
      <4>3. CASE Len(search.scopes) > 1 /\ c.tenant = search.scopes[2]
        BY <2>8, <4>3 DEF StillAhead
      <4>4. CASE c.tenant = search.scopes[1] /\ PointPlace(c) >= search.from
        <5>1. c \in rest
          BY <1>2, <1>8, <3>2, <4>4 DEF Rest
        <5> QED
          BY <2>8, <2>9, <4>4, <5>1 DEF StillAhead
      <4> QED
        BY <4>1, <4>2, <4>3, <4>4 DEF StillAhead
    <3>3. ASSUME NEW c \in search'.read PROVE ~StillAhead(c)'
      <4>1. c \in Cards /\ PointPlace(c) \in Nat
        <5>1. c \in ever
          BY <1>9, <2>8
        <5> QED
          BY <5>1, PlaceOfPoint DEF SearchInv, CollectionHolds
      <4>2. CASE c \in search.read
        <5>1. ~StillAhead(c)
          BY <1>4, <4>2
        <5> QED
          BY <1>4, <2>8, <2>9, <4>1, <5>1 DEF StillAhead
      <4>3. CASE c \in page
        <5>1. c.tenant = search.scopes[1] /\ PointPlace(c) < first
          BY <1>6, <1>7, <2>9, <4>3
        <5> QED
          BY <1>3, <2>8, <2>9, <4>1, <5>1 DEF StillAhead
      <4> QED
        BY <2>8, <4>2, <4>3
    <3> QED
      BY <1>4, <2>8, <2>9, <3>1, <3>2, <3>3 DEF ScrollHolds
  <2>11. QueryHolds'
    BY <2>8 DEF QueryHolds
  <2> QED
    BY <1>2, <1>9, <1>10, <2>8, <2>10, <2>11, BusyKeeps
<1>13. CASE page = rest
  <2>1. \A c \in always : InScope(c, q) =>
           c \in read \/ (Len(search.scopes) > 1 /\ c.tenant = search.scopes[2])
    BY <1>4, <1>8, <1>13 DEF StillAhead
  <2>2. CASE Len(search.scopes) > 1
    <3>1. search' = [search EXCEPT !.scopes = Tail(@), !.page = 1, !.from = 0, !.read = read]
      BY <1>1, <1>13, <2>2
    <3> HIDE DEF page, rest
    <3>2. /\ IsSearch(search') /\ search'.pc = "scroll" /\ search'.query = q /\ search'.read = read
          /\ search'.from = 0 /\ search'.scopes = Tail(search.scopes) /\ search'.hits = search.hits /\ search'.asked = search.asked
          /\ search'.results = search.results
      BY <1>1, <3>1 DEF SearchInv, IsSearch
    <3>3. search'.scopes = <<q.tenant>> /\ Len(search'.scopes) = 1 /\ search'.scopes[1] = search.scopes[2]
      BY <1>3, <2>2, <3>2
    <3>4. ScrollHolds'
      <4>1. ASSUME NEW c \in always', InScope(c, q) PROVE c \in search'.read \/ StillAhead(c)'
        <5>1. c \in always /\ PointPlace(c) >= 0
          BY <1>2, <1>5, <4>1, PlaceOfPoint DEF Rest
        <5> QED
          BY <2>1, <3>2, <3>3, <4>1, <5>1 DEF StillAhead
      <4>2. ASSUME NEW c \in search'.read PROVE ~StillAhead(c)'
        <5>1. c \in search.read => c.tenant # search.scopes[2]
          BY <1>4, <2>2 DEF StillAhead
        <5>2. c \in page => c.tenant # search.scopes[2]
          BY <1>3, <1>6, <1>7, <2>2
        <5> QED
          BY <3>2, <3>3, <4>2, <5>1, <5>2 DEF StillAhead
      <4>3. search'.query.tenant = q.tenant /\ search'.from = 0
        BY <3>2
      <4>4. search'.scopes = <<search'.query.tenant>>
        BY <3>3, <4>3, Zenon
      <4>5. \/ search'.scopes \in {<<Global>>, <<search'.query.tenant>>}
            \/ search'.scopes = <<Global, search'.query.tenant>> /\ search'.query.tenant # Global
        BY <4>4, Zenon
      <4>6. search'.from \in Nat /\ search'.hits = {} /\ search'.asked = {}
        BY <1>4, <3>2
      <4> QED
        BY <3>2, <4>1, <4>2, <4>5, <4>6 DEF ScrollHolds
    <3>5. QueryHolds'
      BY <3>2 DEF QueryHolds
    <3> QED
      BY <1>2, <1>9, <1>10, <3>2, <3>4, <3>5, BusyKeeps
  <2>3. CASE ~(Len(search.scopes) > 1)
    <3>1. Covers(read) /\ AfterScroll(read)
      BY <1>1, <1>13, <2>1, <2>3 DEF Covers
    <3> HIDE DEF read
    <3> QED
      BY <1>1, <1>2, <1>9, <1>10, <3>1, AfterScrollKeeps
  <2> QED
    BY <2>2, <2>3
<1> QED
  BY <1>11, <1>12, <1>13

(* An answer of a channel adds hits that the collection vouches for.       *)
LEMMA ResultsKeep ==
    ASSUME SearchInv, search.pc = "query", Rest, NEW hits \in SUBSET (Keys \X Hybrid),
           \A h \in hits : \E p \in ever : Key(p) = h[1] /\ h[2] \in p.ready,
           Finished(Results(hits, search.query))
    PROVE  SearchInv'
<1> DEFINE found == Results(hits, search.query)
<1>1. /\ Busy /\ Covers(search.read) /\ search.read \subseteq ever /\ KeysDiffer(search.read)
      /\ search.query \in Queries /\ ever \subseteq Cards /\ search.read \in SUBSET AllCards
  BY DEF SearchInv, QueryHolds, ReadHolds, CollectionHolds, Busy, AllCards
<1>2. /\ DOMAIN found \subseteq Nat
      /\ \A i \in DOMAIN found :
            /\ found[i].card \in Visible(search.read, search.query)
            /\ "bm25" \in found[i].channels => <<Key(found[i].card), "bm25">> \in hits
  BY <1>1, FusedResults
<1> HIDE DEF found
<1>3. ASSUME NEW i \in DOMAIN found PROVE ResultHolds(found[i])
  <2> DEFINE c == found[i].card
  <2>1. c \in search.read
    BY <1>2 DEF Visible
  <2>2. Stored(c) /\ \A p \in ever : Key(p) = Key(c) => Stored(p)
    BY <1>1, <1>2, SeenIsStored
  <2>3. "bm25" \in found[i].channels => Vouched(c)
    <3> SUFFICES ASSUME "bm25" \in found[i].channels PROVE Vouched(c)
      OBVIOUS
    <3>1. <<Key(c), "bm25">> \in hits
      BY <1>2
    <3>2. PICK p \in ever : Key(p) = Key(c) /\ "bm25" \in p.ready
      BY <3>1
    <3> QED
      BY <1>1, <2>2, <3>2 DEF Vouched
  <2> QED
    BY <1>1, <2>1, <2>2, <2>3 DEF ResultHolds
<1> QED
  BY <1>1, <1>2, <1>3, FinishedKeeps DEF found

LEMMA AnswerKeeps ==
    ASSUME SearchInv, NEW r \in search.asked, Answer(r)
    PROVE  SearchInv'
<1> DEFINE q == search.query
           rerank == r[2] = "colbert"
           keys == ChannelCandidates(r[1], q, r[2])
           hit == IF rerank THEN keys \cap BestHits({h \in search.hits : h[2] # "colbert"}, q)
                  ELSE Top(keys, q, r[2], CandidateK)
           seen == {Key(c) : c \in Visible(search.read, q)}
           hits == search.hits \cup {<<k, r[2]>> : k \in hit \cap seen}
           left == search.asked \ {r}
           next == IF rerank THEN {} ELSE Asked(hits, q)
<1>1. /\ search.pc = "query"
      /\ IF left # {} THEN search' = [search EXCEPT !.asked = left, !.hits = hits]
         ELSE IF next # {} THEN search' = [search EXCEPT !.asked = next, !.hits = hits]
         ELSE Finished(Results(hits, q))
  BY DEF Answer
<1>2. Rest /\ Busy
  BY <1>1 DEF Answer, Rest, Busy
<1>3. /\ search.hits \subseteq Keys \X Hybrid /\ Covers(search.read) /\ r[2] \in Hybrid
      /\ \A h \in search.hits : \E p \in ever : Key(p) = h[1] /\ h[2] \in p.ready
      /\ \A s \in search.asked : s[2] \in Hybrid
  BY <1>1 DEF SearchInv, QueryHolds
<1>4. points \subseteq ever /\ ever \subseteq Cards /\ search.read \subseteq ever /\ KeysDiffer(search.read)
  BY <1>2 DEF SearchInv, CollectionHolds, ReadHolds
<1>5. hit \subseteq keys
  BY DEF Top
<1>6. \A k \in keys : \E p \in ever : Key(p) = k /\ r[2] \in p.ready
  BY <1>4 DEF ChannelCandidates
<1>7. keys \subseteq Keys
  BY <1>4 DEF ChannelCandidates, Keys, AllCards
<1> HIDE DEF hit, keys
<1>8. hits \in SUBSET (Keys \X Hybrid)
  BY <1>3, <1>5, <1>7
<1>9. \A h \in hits : \E p \in ever : Key(p) = h[1] /\ h[2] \in p.ready
  <2>1. ASSUME NEW k \in hit \cap seen, NEW h, h = <<k, r[2]>>
        PROVE  \E p \in ever : Key(p) = h[1] /\ h[2] \in p.ready
    BY <1>5, <1>6, <2>1
  <2> QED
    BY <1>3, <2>1
<1>10. \A s \in next : s[2] \in Hybrid
  <2>1. \A s \in Asked(hits, q) : s[2] \in Hybrid
    <3> HIDE DEF hits
    <3> QED
      BY DEF Asked, Hybrid
  <2> QED
    BY <2>1
<1> HIDE DEF hits, next
<1>11. ASSUME NEW asked, \A s \in asked : s[2] \in Hybrid,
              search' = [search EXCEPT !.asked = asked, !.hits = hits]
       PROVE  SearchInv'
  <2>1. /\ IsSearch(search') /\ search'.pc = "query" /\ search'.query = q /\ search'.read = search.read
        /\ search'.asked = asked /\ search'.hits = hits /\ search'.results = search.results
    BY <1>1, <1>11 DEF SearchInv, IsSearch
  <2>2. ScrollHolds'
    BY <2>1 DEF ScrollHolds
  <2>3. QueryHolds'
    BY <1>2, <1>3, <1>8, <1>9, <1>11, <2>1 DEF QueryHolds, Covers, Rest
  <2> QED
    BY <1>2, <1>4, <2>1, <2>2, <2>3, BusyKeeps
<1>12. CASE left # {}
  BY <1>1, <1>3, <1>11, <1>12
<1>13. CASE left = {} /\ next # {}
  BY <1>1, <1>10, <1>11, <1>13
<1>14. CASE left = {} /\ next = {}
  BY <1>1, <1>2, <1>8, <1>9, <1>14, ResultsKeep
<1> QED
  BY <1>12, <1>13, <1>14

LEMMA FailuresKeep ==
    ASSUME SearchInv, Unavailable \/ Refused
    PROVE  SearchInv'
<1> DEFINE q == search.query
           rerank == \E r \in search.asked : r[2] = "colbert"
           plain == {h \in search.hits : h[2] # "colbert"}
<1>1. Rest /\ Busy
  BY DEF Unavailable, Refused, Rest, Busy
<1>2. CASE Raised
  BY <1>1, <1>2, RaisedKeeps
<1>3. CASE rerank /\ Finished(Results(plain, q))
  <2>1. search.pc = "query"
    BY <1>1, <1>3 DEF SearchInv, ScrollHolds, Busy
  <2>2. plain \in SUBSET (Keys \X Hybrid) /\ \A h \in plain : \E p \in ever : Key(p) = h[1] /\ h[2] \in p.ready
    BY <2>1 DEF SearchInv, QueryHolds
  <2> QED
    BY <1>1, <1>3, <2>1, <2>2, ResultsKeep
<1>4. CASE HasFallback /\ Finished(LocalSearch(LocalCards, q))
  <2> DEFINE found == LocalSearch(LocalCards, q)
  <2>1. LocalCards \in SUBSET AllCards /\ KeysDiffer(LocalCards) /\ q \in Queries
    BY <1>1, SearchAssumption DEF SearchAssumption, SearchInv, ReadHolds, AllCards
  <2>2. /\ DOMAIN found \subseteq Nat
        /\ \A i \in DOMAIN found : found[i].card \in Visible(LocalCards, q) /\ found[i].channels = {"lexical"}
    BY <2>1, LocalResults
  <2> HIDE DEF found
  <2>3. \A i \in DOMAIN found : ResultHolds(found[i])
    BY <1>4, <2>1, <2>2 DEF ResultHolds, Visible
  <2> QED
    BY <1>1, <1>4, <2>2, <2>3, FinishedKeeps DEF found
<1> QED
  BY <1>2, <1>3, <1>4 DEF Unavailable, Refused

(* The decision is made from the first artifact of the results: when it is *)
(* trusted, the channels of that result include the words of the index.    *)
LEMMA DecideKeeps ==
    ASSUME SearchInv, NEW override \in {Unselected} \cup {c.id : c \in Cards}, Decide(override)
    PROVE  SearchInv'
<1> DEFINE results == search.results
           artifacts == SelectSeq(results, LAMBDA r : r.card.type = "artifact")
           places == {i \in DOMAIN results : results[i].card.type = "artifact"}
           first == results[Min(places)]
           found == [i \in DOMAIN artifacts |->
                        [id |-> artifacts[i].card.id, score |-> artifacts[i].score]]
           named == override # Unselected
           known == \E i \in DOMAIN found : found[i].id = override
           cands == IF named /\ ~known THEN Append(found, [id |-> override, score |-> 1000]) ELSE found
           top == IF places = {} THEN [channels |-> {}, penalty |-> 0] ELSE first
           signal == IF places = {} THEN NoSignal ELSE Predict(first.score)
           picked == IF named THEN override ELSE IF places = {} THEN Unselected ELSE first.card.id
           g == Grounds(Depth(top.channels), top.penalty, Agreement(top.channels), signal, named)
<1>1. /\ search.pc = "found" /\ search' = [search EXCEPT !.pc = "decided"]
      /\ decision' = Decided(cands, picked, g)
  BY DEF Decide
<1>2. /\ IsSearch(search') /\ search'.pc = "decided" /\ search'.query = search.query
      /\ search'.results = search.results
  BY <1>1 DEF SearchInv, IsSearch
<1>3. points' = points /\ ever' = ever /\ always' = always
  BY DEF Decide
<1>4. CollectionHolds' /\ ReadHolds' /\ ScrollHolds' /\ QueryHolds'
  BY <1>1, <1>2, <1>3 DEF SearchInv, CollectionHolds, ReadHolds, ScrollHolds, QueryHolds, Busy
<1>5. \A c : Stored(c)' <=> Stored(c)
  BY <1>2, <1>3 DEF Stored
<1>6. ResultsHold'
  <2>1. \A r : ResultHolds(r)' <=> ResultHolds(r)
    BY <1>5 DEF ResultHolds, Vouched
  <2> QED
    BY <1>2, <2>1 DEF SearchInv, ResultsHold
<1>7. decision'.grounds = g /\ (picked # Unselected => decision'.selected = picked)
      /\ \E margin : decision'.band = Band(decision'.selected, margin, g)
  <2> HIDE DEF cands, picked, g
  <2> QED
    BY <1>1, DecidedIs
<1>8. g.override = named /\ g.depth = Depth(top.channels)
  <2> HIDE DEF named, top, signal
  <2> QED
    BY DEF Grounds
<1>9. TrustedWasStored'
  <2> SUFFICES ASSUME decision'.band # "planner_required", ~decision'.grounds.override
               PROVE  \E c \in Cards : /\ c.type = "artifact" /\ c.id = decision'.selected
                                       /\ "bm25" \in c.ready /\ Stored(c)
    BY <1>5 DEF TrustedWasStored
  <2>1. ~named /\ g.depth < 3
    <3> HIDE DEF g, named, top
    <3>1. ~g.override
      BY <1>7
    <3>2. ~(g.depth >= 3)
      BY <1>7, <3>1 DEF Band
    <3>3. g.depth \in {1, 2, 3}
      BY <1>8 DEF Depth
    <3>4. ~named
      BY <1>8, <3>1
    <3>5. g.depth < 3
      BY <3>2, <3>3
    <3> QED
      BY <3>4, <3>5
  <2>2. "bm25" \in top.channels
    <3> HIDE DEF g, top
    <3>1. Depth(top.channels) # 3
      BY <1>8, <2>1
    <3> QED
      BY <3>1 DEF Depth
  <2>3. places # {}
    BY <2>2
  <2>4. places \in SUBSET Nat
    BY DEF SearchInv, ResultsHold
  <2>5. Min(places) \in places
    BY <2>3, <2>4, FirstPlace
  <2> DEFINE at == Min(places)
  <2>6. ResultHolds(results[at]) /\ results[at].card.type = "artifact"
    <3>1. at \in places
      BY <2>5
    <3> HIDE DEF at
    <3> QED
      BY <3>1 DEF SearchInv, ResultsHold
  <2>7. first = results[at] /\ "bm25" \in first.channels
    BY <2>2, <2>3
  <2> HIDE DEF first, at, places
  <2>8. PICK p \in Cards : Key(p) = Key(first.card) /\ "bm25" \in p.ready /\ Stored(p)
    BY <2>6, <2>7 DEF ResultHolds, Vouched
  <2>9. first.card.id = p.id /\ p.type = "artifact"
    BY <2>6, <2>7, <2>8 DEF Key
  <2>10. first.card.id # Unselected
    BY <2>6, <2>7, SearchAssumption DEF SearchAssumption, ResultHolds
  <2>11. picked = first.card.id
    BY <2>1, <2>3
  <2>12. decision'.selected = first.card.id
    BY <1>7, <2>10, <2>11
  <2> QED
    BY <2>8, <2>9, <2>12
<1>10. DecisionHolds'
  BY <1>2, <1>9 DEF DecisionHolds
<1> QED
  BY <1>2, <1>4, <1>6, <1>10 DEF SearchInv

LEMMA EndSearchKeeps ==
    ASSUME SearchInv, EndSearch
    PROVE  SearchInv'
<1>1. search' = NoSearch /\ decision' = NoDecision /\ ever' = {} /\ always' = {} /\ points' = points
  BY DEF EndSearch
<1>2. IsSearch(search') /\ search'.pc = "idle" /\ search'.results = <<>>
  BY <1>1 DEF IsSearch, NoSearch
<1>3. DOMAIN search'.results = {}
  BY <1>2
<1>4. CollectionHolds' /\ ReadHolds' /\ ScrollHolds' /\ QueryHolds' /\ ResultsHold'
  BY <1>1, <1>2, <1>3
     DEF SearchInv, CollectionHolds, ReadHolds, ScrollHolds, QueryHolds, ResultsHold, Busy, KeysDiffer
<1>5. DecisionHolds'
  BY <1>1, NothingIsTrusted DEF DecisionHolds, TrustedWasStored
<1> QED
  BY <1>2, <1>4, <1>5 DEF SearchInv

LEMMA StepSearch == SearchInv /\ NextSearch => SearchInv'
<1> SUFFICES ASSUME SearchInv, NextSearch PROVE SearchInv'
  OBVIOUS
<1>1. ASSUME NEW c \in Cards, search.pc \in {"scroll", "query"}, Upsert(c) \/ DeletePoint(c) PROVE SearchInv'
  BY <1>1, WritesKeep
<1>2. ASSUME NEW q \in Queries, Start(q) PROVE SearchInv'
  BY <1>2, StartKeepsSearch
<1>3. CASE ScrollPage
  BY <1>3, ScrollPageKeeps
<1>4. ASSUME NEW r \in search.asked, Answer(r) PROVE SearchInv'
  BY <1>4, AnswerKeeps
<1>5. CASE Unavailable \/ Refused
  BY <1>5, FailuresKeep
<1>6. ASSUME NEW a \in {Unselected} \cup {c.id : c \in Cards}, Decide(a) PROVE SearchInv'
  BY <1>6, DecideKeeps
<1>7. CASE EndSearch
  BY <1>7, EndSearchKeeps
<1> QED
  BY <1>1, <1>2, <1>3, <1>4, <1>5, <1>6, <1>7 DEF NextSearch

LEMMA SearchIsKept == Spec => []SearchInv
<1>1. Init => SearchInv
  BY InitSearchInv DEF Init
<1>2. SearchInv /\ [Next]_vars => SearchInv'
  <2>1. SearchInv /\ UNCHANGED searchVars => SearchInv'
    BY DEF searchVars, SearchInv, IsSearch, CollectionHolds, ReadHolds, ScrollHolds, StillAhead,
           QueryHolds, Covers, ResultsHold, ResultHolds, Vouched, Stored, DecisionHolds,
           TrustedWasStored, Busy, KeysDiffer
  <2> QED
    BY <2>1, StepSearch DEF Next, vars
<1> QED
  BY <1>1, <1>2, PTL DEF Spec

(* Whatever is written while the scopes are read page by page and the      *)
(* channels answer, in whatever order, a search returns no card that was   *)
(* not stored at some moment of it, and none that another which was stored *)
(* all the time goes before.                                               *)
THEOREM NothingIsEverResurrected == Spec => []NothingIsResurrected
<1>1. SearchInv => NothingIsResurrected
  BY DEF SearchInv, ResultsHold, ResultHolds, NothingIsResurrected
<1> QED
  BY <1>1, SearchIsKept, PTL

(* A selection that no planner looks at was named by the user or vouched   *)
(* for by the collection during the search, for any calibration.           *)
THEOREM TrustedWasAlwaysStored == Spec => []TrustedWasStored
<1>1. SearchInv => TrustedWasStored
  BY DEF SearchInv, DecisionHolds
<1> QED
  BY <1>1, SearchIsKept, PTL

-----------------------------------------------------------------------------
(* Credentials.                                                            *)
USE CredentialsAssumption DEF CredentialsAssumption

Statuses == {"none", "active", "deleted"}
Changing == {"replace", "delete", "rewrap"}

(* Rows and requests are functions of which the statuses are known; what   *)
(* the other columns hold does not matter.                                 *)
IsRow(row) == row = [f \in DOMAIN row |-> row[f]] /\ "status" \in DOMAIN row /\ row.status \in Statuses

RowsTyped ==
    /\ rows = [c \in Credential |-> rows[c]] /\ thr = [t \in Thread |-> thr[t]]
    /\ \A c \in Credential : IsRow(rows[c])
    /\ \A t \in Thread : thr[t].op \in Changing =>
          thr[t].id \in Credential /\ IsRow(thr[t].read)

(* A deleted row stays so; a request that has read one as deleted will not *)
(* make it anything else; nobody works on a row that does not exist; and a *)
(* worker that asked after the deletion has read the row as deleted.       *)
DeletionHolds ==
    /\ \A c \in deleted \cap Credential : rows[c].status = "deleted"
    /\ \A t \in Thread : thr[t].op \in Changing =>
          /\ rows[thr[t].id].status # "none"
          /\ thr[t].read.status = "deleted" => rows[thr[t].id].status = "deleted"
    /\ \A t \in Thread : thr[t].op = "use" /\ thr[t].body.late => thr[t].read.status = "deleted"

CredentialsInv == RowsTyped /\ DeletionHolds /\ DeletedIsUnusable

(* Of the columns that a request writes, the status is among them only if  *)
(* it deletes what it had not read as deleted.                             *)
LEMMA WrittenStatus ==
    ASSUME NEW was, NEW now, NEW current, IsRow(was), IsRow(now), IsRow(current)
    PROVE  /\ IsRow(Written(was, now, current))
           /\ Written(was, now, current).status =
                  IF now.status # was.status THEN now.status ELSE current.status
<1> DEFINE random == IF now.payload = Random THEN {"payload", "wrapped"} ELSE {}
           w == [f \in DOMAIN now |-> IF now[f] # was[f] \/ f \in random THEN now[f] ELSE current[f]]
<1>1. w = Written(was, now, current)
  BY DEF Written
<1>2. "status" \notin random
  OBVIOUS
<1> HIDE DEF random
<1>3. w.status = IF now.status # was.status THEN now.status ELSE current.status
  BY <1>2 DEF IsRow
<1>4. DOMAIN w = DOMAIN now /\ w = [f \in DOMAIN w |-> w[f]]
  OBVIOUS
<1> HIDE DEF w
<1> QED
  BY <1>1, <1>3, <1>4 DEF IsRow

(* A step that writes the row of a request.                                *)
LEMMA CommitKeeps ==
    ASSUME CredentialsInv, NEW t \in Thread, thr[t].op \in Changing, NEW now, IsRow(now), Commit(t, now),
           \/ now.status = thr[t].read.status /\ deleted' = deleted
           \/ now.status = "deleted" /\ deleted' = deleted \cup {thr[t].id}
    PROVE  CredentialsInv'
<1> PICK q : q = thr[t]
  OBVIOUS
<1> DEFINE c == q.id
           row == Written(q.read, now, rows[c])
<1>1. c \in Credential /\ IsRow(q.read) /\ IsRow(rows[c]) /\ rows[c].status # "none"
      /\ (q.read.status = "deleted" => rows[c].status = "deleted")
  BY DEF CredentialsInv, RowsTyped, DeletionHolds
<1>2. rows' = [rows EXCEPT ![c] = row] /\ thr' = [thr EXCEPT ![t] = Idle] /\ opened' = opened
  BY DEF Commit
<1>3. IsRow(row) /\ row.status = IF now.status # q.read.status THEN now.status ELSE rows[c].status
  BY <1>1, WrittenStatus
<1> HIDE DEF c, row
<1>4. row.status \in {rows[c].status, "deleted"} /\ (rows[c].status = "deleted" => row.status = "deleted")
      /\ (deleted' # deleted => row.status = "deleted")
  BY <1>1, <1>3
<1>5. RowsTyped'
  BY <1>1, <1>2, <1>3 DEF CredentialsInv, RowsTyped, Idle, Changing
<1>6. DeletionHolds'
  BY <1>1, <1>2, <1>4 DEF CredentialsInv, RowsTyped, DeletionHolds, Idle, Changing, c
<1> QED
  BY <1>2, <1>5, <1>6 DEF CredentialsInv, DeletedIsUnusable

LEMMA StepCredentials == CredentialsInv /\ NextCredentials => CredentialsInv'
<1> SUFFICES ASSUME CredentialsInv, NextCredentials PROVE CredentialsInv'
  OBVIOUS
<1>1. ASSUME NEW c \in Credential, NEW p \in Provider, Create(c, p) PROVE CredentialsInv'
  <2> DEFINE row == [status |-> "active", provider |-> p, payload |-> sealed',
                     wrapped |-> <<sealed', configured>>, key |-> configured]
  <2>1. rows' = [rows EXCEPT ![c] = row] /\ rows[c].status = "none"
        /\ UNCHANGED <<thr, deleted, opened>>
    BY <1>1 DEF Create, Exists
  <2>2. IsRow(row) /\ row.status = "active"
    BY DEF IsRow, Statuses
  <2> HIDE DEF row
  <2>3. RowsTyped'
    BY <2>1, <2>2 DEF CredentialsInv, RowsTyped
  <2>4. DeletionHolds'
    BY <2>1, <2>2 DEF CredentialsInv, RowsTyped, DeletionHolds
  <2> QED
    BY <2>1, <2>3, <2>4 DEF CredentialsInv, DeletedIsUnusable
<1>2. ASSUME NEW t \in Thread, NEW c \in Credential, NEW op \in Changing, Read(t, op, c) PROVE CredentialsInv'
  <2> DEFINE q == [op |-> op, id |-> c, read |-> rows[c], body |-> Nothing]
  <2>1. thr' = [thr EXCEPT ![t] = q] /\ rows[c].status # "none"
        /\ UNCHANGED <<rows, deleted, opened>>
    BY <1>2 DEF Read, Exists
  <2>2. RowsTyped'
    BY <2>1 DEF CredentialsInv, RowsTyped
  <2>3. q.op \in Changing /\ q.op # "use" /\ q.id = c /\ q.read = rows[c]
    BY DEF Changing
  <2> HIDE DEF q
  <2>4. /\ thr'[t] = q /\ rows' = rows /\ deleted' = deleted
        /\ \A u \in Thread \ {t} : thr'[u] = thr[u]
    BY <2>1 DEF CredentialsInv, RowsTyped
  <2>5. ASSUME NEW u \in Thread, thr'[u].op \in Changing
        PROVE  /\ rows'[thr'[u].id].status # "none"
               /\ thr'[u].read.status = "deleted" => rows'[thr'[u].id].status = "deleted"
    <3>1. CASE u = t
      BY <2>1, <2>3, <2>4, <3>1
    <3>2. CASE u # t
      BY <2>4, <2>5, <3>2 DEF CredentialsInv, DeletionHolds
    <3> QED
      BY <3>1, <3>2
  <2>6. ASSUME NEW u \in Thread, thr'[u].op = "use", thr'[u].body.late
        PROVE  thr'[u].read.status = "deleted"
    BY <2>3, <2>4, <2>6 DEF CredentialsInv, DeletionHolds
  <2>7. DeletionHolds'
    BY <2>4, <2>5, <2>6 DEF CredentialsInv, DeletionHolds
  <2> QED
    BY <2>1, <2>2, <2>7 DEF CredentialsInv, DeletedIsUnusable
<1>3. ASSUME NEW t \in Thread, Replace(t) PROVE CredentialsInv'
  <2> DEFINE now == [thr[t].read EXCEPT !.payload = sealed', !.wrapped = <<sealed', configured>>,
                                        !.key = configured]
  <2>1. thr[t].op \in Changing /\ Commit(t, now) /\ deleted' = deleted
    BY <1>3 DEF Replace, Changing
  <2>2. IsRow(now) /\ now.status = thr[t].read.status
    BY <2>1 DEF CredentialsInv, RowsTyped, IsRow
  <2> QED
    BY <2>1, <2>2, CommitKeeps
<1>4. ASSUME NEW t \in Thread, Delete(t) PROVE CredentialsInv'
  <2> DEFINE now == [thr[t].read EXCEPT !.status = "deleted", !.payload = Random,
                                        !.wrapped = <<Random, OldKey>>]
  <2>1. thr[t].op \in Changing /\ Commit(t, now) /\ deleted' = deleted \cup {thr[t].id}
    BY <1>4 DEF Delete, Changing
  <2>2. IsRow(now) /\ now.status = "deleted"
    BY <2>1 DEF CredentialsInv, RowsTyped, IsRow, Statuses
  <2> QED
    BY <2>1, <2>2, CommitKeeps
<1>5. ASSUME NEW t \in Thread, Rewrap(t) PROVE CredentialsInv'
  <2> DEFINE now == [thr[t].read EXCEPT !.wrapped = <<@[1], NewKey>>, !.key = NewKey]
  <2>1. thr[t].op \in Changing /\ Commit(t, now) /\ deleted' = deleted
    BY <1>5 DEF Rewrap, Changing
  <2>2. IsRow(now) /\ now.status = thr[t].read.status
    BY <2>1 DEF CredentialsInv, RowsTyped, IsRow
  <2> QED
    BY <2>1, <2>2, CommitKeeps
<1>6. ASSUME NEW t \in Thread,
             Select(t) \/ \E m \in Model, policy \in Policy : ReadSelection(t, m, policy)
      PROVE  CredentialsInv'
  <2>1. PICK q : thr' = [thr EXCEPT ![t] = q] /\ q.op \in {"idle", "select"}
    BY <1>6 DEF Select, ReadSelection, Idle
  <2>2. UNCHANGED <<rows, deleted, opened>>
    BY <1>6 DEF Select, ReadSelection
  <2>3. RowsTyped'
    BY <2>1, <2>2 DEF CredentialsInv, RowsTyped, Changing
  <2>4. DeletionHolds'
    BY <2>1, <2>2 DEF CredentialsInv, RowsTyped, DeletionHolds, Changing
  <2> QED
    BY <2>2, <2>3, <2>4 DEF CredentialsInv, DeletedIsUnusable
<1>7. ASSUME NEW t \in Thread, NEW c \in Credential, NEW key, ReadToUse(t, c, key)
      PROVE  CredentialsInv'
  <2> DEFINE q == [op |-> "use", id |-> c, read |-> rows[c], body |-> [key |-> key, late |-> c \in deleted]]
  <2>1. thr' = [thr EXCEPT ![t] = q] /\ UNCHANGED <<rows, deleted, opened>>
    BY <1>7 DEF ReadToUse
  <2>2. q.op = "use" /\ (q.body.late => q.read.status = "deleted")
    BY DEF CredentialsInv, DeletionHolds
  <2> HIDE DEF q
  <2>3. RowsTyped'
    BY <2>1, <2>2 DEF CredentialsInv, RowsTyped, Changing
  <2>4. DeletionHolds'
    BY <2>1, <2>2 DEF CredentialsInv, RowsTyped, DeletionHolds, Changing
  <2> QED
    BY <2>1, <2>3, <2>4 DEF CredentialsInv, DeletedIsUnusable
<1>10. ASSUME NEW t \in Thread, Use(t) PROVE CredentialsInv'
  <2>1. ~(MayOpen(thr[t].read, thr[t].body.key) /\ thr[t].body.late)
    BY <1>10 DEF Use, MayOpen, CredentialsInv, DeletionHolds
  <2>2. opened' = opened /\ thr' = [thr EXCEPT ![t] = Idle] /\ UNCHANGED <<rows, deleted>>
    BY <1>10, <2>1 DEF Use
  <2>3. RowsTyped' /\ DeletionHolds'
    BY <2>2 DEF CredentialsInv, RowsTyped, DeletionHolds, Idle, Changing
  <2> QED
    BY <2>2, <2>3 DEF CredentialsInv, DeletedIsUnusable
<1>8. CASE Reconfigure
  BY <1>8 DEF Reconfigure, CredentialsInv, RowsTyped, DeletionHolds, DeletedIsUnusable
<1>9. ASSUME NEW t \in Thread, Request(t) PROVE CredentialsInv'
  BY <1>2, <1>3, <1>4, <1>5, <1>6, <1>7, <1>9, <1>10 DEF Request, ReadToReplace, ReadToDelete, ReadToRewrap, Changing
<1> QED
  BY <1>1, <1>8, <1>9 DEF NextCredentials

(* No worker that asks for a secret after its deletion was committed gets  *)
(* it, whichever requests had read the row before and write it afterwards, *)
(* and whatever master key the processes use.                              *)
THEOREM DeletionIsFinal == Spec => []DeletedIsUnusable
<1>1. Init => CredentialsInv
  <2>1. IsRow(NoRow) /\ NoRow.status = "none" /\ Idle.op \notin Changing /\ Idle.op # "use"
    BY DEF IsRow, NoRow, Statuses, Idle, Changing
  <2> QED
    BY <2>1 DEF Init, InitCredentials, CredentialsInv, RowsTyped, DeletionHolds, DeletedIsUnusable
<1>2. CredentialsInv /\ [Next]_vars => CredentialsInv'
  <2>1. CredentialsInv /\ UNCHANGED credVars => CredentialsInv'
    BY DEF credVars, CredentialsInv, RowsTyped, DeletionHolds, DeletedIsUnusable
  <2> QED
    BY <2>1, StepCredentials DEF Next, vars
<1>3. CredentialsInv => DeletedIsUnusable
  BY DEF CredentialsInv
<1> QED
  BY <1>1, <1>2, <1>3, PTL DEF Spec

-----------------------------------------------------------------------------
(* Shared resources and routes.                                            *)
USE ResourcesAssumption DEF ResourcesAssumption

(* Of the members of a set, one has the least key.                         *)
LEMMA LeastKey ==
    ASSUME NEW U, U # {}, NEW key \in [U -> Nat]
    PROVE  \E p \in U : \A q \in U : key[p] <= key[q]
<1>1. {key[p] : p \in U} \in SUBSET Nat /\ {key[p] : p \in U} # {}
  OBVIOUS
<1>2. PICK n \in {key[p] : p \in U} : \A m \in {key[p] : p \in U} : n <= m
  BY <1>1, LeastNatural
<1> QED
  BY <1>2

LEMMA PositionInList ==
    ASSUME NEW list \in Seq(Id), NEW p \in Id
    PROVE  /\ Position(list, p) \in Nat
           /\ IF p \in ToSet(list) THEN Position(list, p) <= Len(list)
                                   ELSE Position(list, p) = Len(list) + 1
BY DEF Position, ToSet

(* What comes before what: the keys are compared from the first.           *)
LEMMA BeforeByKeys ==
    ASSUME NEW req, NEW seen, NEW p, NEW q
    PROVE  LET a == Rank(req, seen, p)
               b == Rank(req, seen, q)
           IN  Before(req, seen, p, q) <=>
                  \/ a[1] < b[1]
                  \/ a[1] = b[1] /\ a[2] < b[2]
                  \/ a[1] = b[1] /\ a[2] = b[2] /\ a[3] < b[3]
<1> DEFINE a == Rank(req, seen, p)
           b == Rank(req, seen, q)
<1>1. DOMAIN a = 1..3
  BY DEF Rank
<1>2. Before(req, seen, p, q) <=> \E i \in DOMAIN a : a[i] < b[i] /\ \A k \in 1..i - 1 : a[k] = b[k]
  BY DEF Before
<1>3. 1..3 = {1, 2, 3} /\ 1..1 - 1 = {} /\ 1..2 - 1 = {1} /\ 1..3 - 1 = {1, 2}
  OBVIOUS
<1> HIDE DEF a, b
<1>4. Before(req, seen, p, q) <=> \E i \in {1, 2, 3} : a[i] < b[i] /\ \A k \in 1..i - 1 : a[k] = b[k]
  BY <1>1, <1>2, <1>3
<1>5. Before(req, seen, p, q) <=>
         \/ a[1] < b[1]
         \/ a[1] = b[1] /\ a[2] < b[2]
         \/ a[1] = b[1] /\ a[2] = b[2] /\ a[3] < b[3]
  BY <1>3, <1>4
<1> QED
  BY <1>5 DEF a, b

(* Among providers of which none is the first there would be no route: the *)
(* order has no cycles and no two providers share a priority.              *)
LEMMA FirstExists ==
    ASSUME NEW U \in SUBSET Id, U # {}, NEW req, req.preferred \in Seq(Id), NEW seen
    PROVE  \E p \in U : \A q \in U \ {p} : Before(req, seen, p, q)
<1> DEFINE k1 == [p \in U |-> Rank(req, seen, p)[1]]
           U1 == {p \in U : \A q \in U : k1[p] <= k1[q]}
           k2 == [p \in U1 |-> Rank(req, seen, p)[2]]
           U2 == {p \in U1 : \A q \in U1 : k2[p] <= k2[q]}
           k3 == [p \in U2 |-> Rank(req, seen, p)[3]]
<1>1. \A p \in Id : Rank(req, seen, p)[1] \in Nat /\ Rank(req, seen, p)[2] \in Nat /\ Rank(req, seen, p)[3] = Priority[p]
  BY PositionInList DEF Rank
<1>2. k1 \in [U -> Nat] /\ k2 \in [U1 -> Nat] /\ k3 \in [U2 -> Nat]
  BY <1>1
<1> HIDE DEF k1, k2, k3
<1>3. U1 # {} /\ U2 # {}
  BY <1>2, LeastKey
<1>4. PICK p \in U2 : \A q \in U2 : k3[p] <= k3[q]
  BY <1>2, <1>3, LeastKey
<1> USE DEF k1, k2, k3
<1>5. ASSUME NEW q \in U, q # p PROVE Before(req, seen, p, q)
  <2>1. p \in U /\ Rank(req, seen, p)[1] <= Rank(req, seen, q)[1]
    BY <1>4
  <2>2. CASE Rank(req, seen, p)[1] < Rank(req, seen, q)[1]
    BY <2>2, BeforeByKeys
  <2>3. CASE Rank(req, seen, p)[1] = Rank(req, seen, q)[1]
    <3>1. q \in U1 /\ Rank(req, seen, p)[2] <= Rank(req, seen, q)[2]
      BY <1>4, <2>3
    <3>2. CASE Rank(req, seen, p)[2] < Rank(req, seen, q)[2]
      BY <2>3, <3>2, BeforeByKeys
    <3>3. CASE Rank(req, seen, p)[2] = Rank(req, seen, q)[2]
      <4>1. Rank(req, seen, p)[3] <= Rank(req, seen, q)[3]
        BY <1>4, <3>1, <3>3
      <4>2. Priority[p] # Priority[q] /\ Priority[p] \in Nat /\ Priority[q] \in Nat
        BY <1>4, <1>5 DEF IsInjective
      <4> QED
        BY <1>1, <2>1, <2>3, <3>3, <4>1, <4>2, BeforeByKeys
    <3> QED
      BY <1>1, <2>1, <3>1, <3>2, <3>3
  <2> QED
    BY <1>1, <2>1, <2>2, <2>3
<1> QED
  BY <1>4, <1>5

LEMMA PreferredIsList ==
    ASSUME NEW req \in Requests
    PROVE  req.preferred \in Seq(Id)
<1>1. ASSUME NEW p \in Id PROVE <<p>> \in Seq(Id)
  OBVIOUS
<1>2. <<>> \in Seq(Id)
  OBVIOUS
<1>3. req.preferred \in {<<>>} \cup {<<p>> : p \in Id}
  BY DEF Requests
<1> QED
  BY <1>1, <1>2, <1>3

LEMMA UsableServes ==
    ASSUME NEW p \in Id, NEW req \in Requests, NEW now
    PROVE  Usable(p, req, now) <=> Serves(p, req, now)
<1>1. MatchingModels(p, req) # {} <=> (req.model = "any" \/ req.model \in Models(p))
  BY DEF MatchingModels, Models, Requests
<1>2. \A s \in {"user", "platform"} : s \in Candidates(p, req) <=> MayUse(s, p, req)
  BY DEF Candidates, Credentials, Allowed, MayUse
<1>3. Candidates(p, req) \subseteq {"user", "platform"}
  BY DEF Candidates, Credentials
<1> QED
  BY <1>1, <1>2, <1>3 DEF Usable, Serves

LEMMA SourceOfRoute ==
    ASSUME NEW p \in Id, NEW req \in Requests
    PROVE  /\ FirstCandidate(p, req) \in {"none", "user", "platform"}
           /\ FirstCandidate(p, req) # "none" => MayUse(FirstCandidate(p, req), p, req)
           /\ FirstCandidate(p, req) = "platform" /\ req.policy = "user_first" => ~MayUse("user", p, req)
           /\ FirstCandidate(p, req) = "user" /\ req.policy = "platform_first" => ~MayUse("platform", p, req)
<1> DEFINE found == Candidates(p, req)
<1>1. found \subseteq {"user", "platform"}
  BY DEF Candidates, Credentials
<1>2. \A s \in {"user", "platform"} : s \in found <=> MayUse(s, p, req)
  BY DEF Candidates, Credentials, Allowed, MayUse
<1> HIDE DEF found
<1>3. FirstCandidate(p, req) = "none" \/ FirstCandidate(p, req) \in found
  BY DEF FirstCandidate, found
<1>4. /\ req.policy = "user_first" /\ "user" \in found => FirstCandidate(p, req) = "user"
      /\ req.policy = "platform_first" /\ "platform" \in found => FirstCandidate(p, req) = "platform"
  BY DEF FirstCandidate, found
<1> QED
  BY <1>1, <1>2, <1>3, <1>4

(* The route of a request: the first of those that serve it, or none.      *)
LEMMA RouteIsFirst ==
    ASSUME NEW req \in Requests, NEW seen, NEW now
    PROVE  LET r == Route(req, seen, now)
           IN  /\ (\A p \in Id : ~Serves(p, req, now)) => r = NoRoute
               /\ (\E p \in Id : Serves(p, req, now)) =>
                     /\ r.provider \in Id /\ Serves(r.provider, req, now)
                     /\ r.model \in Models(r.provider)
                     /\ r.source = FirstCandidate(r.provider, req)
                     /\ \A q \in Id : Serves(q, req, now) => q = r.provider \/ Before(req, seen, r.provider, q)
<1> DEFINE usable == {p \in Id : Usable(p, req, now)}
           first == CHOOSE p \in usable : \A q \in usable \ {p} : Before(req, seen, p, q)
           r == Route(req, seen, now)
<1>1. usable = {p \in Id : Serves(p, req, now)}
  BY UsableServes
<1>2. usable = {} => r = NoRoute
  BY DEF Route
<1>3. ASSUME usable # {}
      PROVE  /\ r.provider \in usable /\ r.model \in Models(r.provider)
             /\ r.source = FirstCandidate(r.provider, req)
             /\ \A q \in usable \ {r.provider} : Before(req, seen, r.provider, q)
  <2>1. req.preferred \in Seq(Id)
    BY PreferredIsList
  <2>2. first \in usable /\ \A q \in usable \ {first} : Before(req, seen, first, q)
    BY <1>3, <2>1, FirstExists
  <2>3. /\ r.provider = first /\ r.source = FirstCandidate(first, req)
        /\ r.model = IF "large" \in MatchingModels(first, req) THEN "large" ELSE "small"
    BY <1>3 DEF Route
  <2> HIDE DEF first, r
  <2>4. MatchingModels(first, req) # {}
    BY <2>2 DEF Usable
  <2>5. r.model \in Models(first)
    BY <2>3, <2>4 DEF MatchingModels, Models
  <2> QED
    BY <2>2, <2>3, <2>5
<1> HIDE DEF usable, r
<1> QED
  BY <1>1, <1>2, <1>3 DEF r

(* Whatever the two lookups of the health answer, a request is routed as   *)
(* the policy, the preferences and the health demand, with the right key.  *)
LEMMA RouteIsJustified ==
    ASSUME NEW req \in Requests, NEW seen, NEW now
    PROVE  Justified(req, seen, now, Route(req, seen, now))
<1> DEFINE r == Route(req, seen, now)
<1> USE RouteIsFirst
<1>1. req.preferred \in Seq(Id)
  BY PreferredIsList
<1>2. CASE \A p \in Id : ~Serves(p, req, now)
  BY <1>2 DEF Justified
<1>3. CASE \E p \in Id : Serves(p, req, now)
  <2>1. r.provider \in Id /\ Serves(r.provider, req, now) /\ r.model \in Models(r.provider)
        /\ r.source = FirstCandidate(r.provider, req)
    BY <1>3
  <2>2. r # NoRoute
    BY <2>1 DEF NoRoute, Models
  <2>3. ASSUME NEW p \in Id, Serves(p, req, now), r.provider \notin ToSet(req.preferred)
        PROVE  /\ p \notin ToSet(req.preferred)
               /\ seen[r.provider] = "degraded" => seen[p] = "degraded"
    <3>1. CASE p = r.provider
      BY <2>3, <3>1
    <3>2. CASE Before(req, seen, r.provider, p)
      <4>1. /\ Rank(req, seen, r.provider)[1] = Len(req.preferred) + 1
            /\ Rank(req, seen, p)[1] \in Nat /\ Rank(req, seen, p)[1] <= Len(req.preferred) + 1
            /\ p \in ToSet(req.preferred) => Rank(req, seen, p)[1] <= Len(req.preferred)
        BY <1>1, <2>1, <2>3, PositionInList DEF Rank
      <4>2. Rank(req, seen, r.provider)[1] = Rank(req, seen, p)[1] /\ Rank(req, seen, r.provider)[2] <= Rank(req, seen, p)[2]
        <5>1. Rank(req, seen, r.provider)[2] \in Nat /\ Rank(req, seen, p)[2] \in Nat /\ Len(req.preferred) \in Nat
          BY <1>1 DEF Rank
        <5> HIDE DEF r
        <5> QED
          BY <3>2, <4>1, <5>1, BeforeByKeys
      <4>3. p \notin ToSet(req.preferred)
        BY <1>1, <4>1, <4>2
      <4>4. seen[r.provider] = "degraded" => seen[p] = "degraded"
        BY <4>2 DEF Rank
      <4> QED
        BY <4>3, <4>4
    <3> QED
      BY <1>3, <2>3, <3>1, <3>2
  <2>4. /\ r.source # "none" => MayUse(r.source, r.provider, req)
        /\ r.source = "platform" /\ req.policy = "user_first" => ~MayUse("user", r.provider, req)
        /\ r.source = "user" /\ req.policy = "platform_first" => ~MayUse("platform", r.provider, req)
    BY <2>1, SourceOfRoute
  <2>5. ToSet(req.preferred) \subseteq Id
    BY <1>1 DEF ToSet
  <2> HIDE DEF r
  <2> QED
    BY <1>3, <2>1, <2>2, <2>3, <2>4, <2>5 DEF Justified, r
<1> QED
  BY <1>2, <1>3

(* No request is ever routed against its policy or its switches, past a    *)
(* preferred provider or one that did not look degraded, or refused while  *)
(* somebody serves it, for any answers of the two lookups of the health.   *)
THEOREM RoutesAreAlwaysJustified == Spec => []RoutesAreJustified
<1>1. EveryRouteIsJustified
  BY RouteIsJustified DEF EveryRouteIsJustified
<1>2. RoutesAreJustified
  BY <1>1 DEF RoutesAreJustified
<1> QED
  BY <1>2, PTL

(* What is reserved of a provider is a finite number of units; a job that  *)
(* takes a reservation adds as many as it reserves, to one provider alone. *)
IsReservation == [Job -> [provider : Id \cup {NoLimit}, quantity : 0..MaxUnits]]

UnitsIn(f, p) == {unit \in Job \X (1..MaxUnits) :
                     f[unit[1]].provider = p /\ unit[2] <= f[unit[1]].quantity}

LEMMA UnitsAreFinite ==
    ASSUME NEW f, NEW p
    PROVE  IsFiniteSet(UnitsIn(f, p)) /\ Cardinality(UnitsIn(f, p)) \in Nat
<1>1. IsFiniteSet(1..MaxUnits)
  BY FS_Interval
<1>2. IsFiniteSet(Job \X (1..MaxUnits))
  BY <1>1, FS_Product
<1>3. UnitsIn(f, p) \subseteq Job \X (1..MaxUnits)
  BY DEF UnitsIn
<1> QED
  BY <1>2, <1>3, FS_Subset, FS_CardinalityType

Adds(f, g, j, p, q) ==
    /\ f \in IsReservation /\ g \in IsReservation /\ j \in Job /\ p \in Id /\ q \in 0..MaxUnits
    /\ f[j] = Released /\ g[j] = [provider |-> p, quantity |-> q]
    /\ \A i \in Job \ {j} : f[i] = g[i]

LEMMA OneReservation ==
    ASSUME NEW f, NEW g, NEW j, NEW p, NEW q, Adds(f, g, j, p, q)
    PROVE  /\ Cardinality(UnitsIn(g, p)) = Cardinality(UnitsIn(f, p)) + q
           /\ \A r \in Id \ {p} : UnitsIn(g, r) = UnitsIn(f, r)
<1> USE DEF Adds
<1> DEFINE added == {j} \X (1..q)
<1>1. g[j] = [provider |-> p, quantity |-> q] /\ \A i \in Job \ {j} : g[i] = f[i]
  OBVIOUS
<1>2. f[j].provider \notin Id
  BY DEF Released
<1>3. UnitsIn(g, p) = UnitsIn(f, p) \cup added
  <2>1. ASSUME NEW unit \in Job \X (1..MaxUnits)
        PROVE  unit \in UnitsIn(g, p) <=> unit \in UnitsIn(f, p) \/ unit \in added
    BY <1>1, <1>2 DEF UnitsIn
  <2>2. added \subseteq Job \X (1..MaxUnits)
    OBVIOUS
  <2> QED
    BY <2>1, <2>2 DEF UnitsIn
<1>4. UnitsIn(f, p) \cap added = {}
  BY <1>2 DEF UnitsIn
<1>5. IsFiniteSet(added) /\ Cardinality(added) = q
  <2>1. IsFiniteSet({j}) /\ Cardinality({j}) = 1
    BY FS_Singleton
  <2>2. IsFiniteSet(1..q) /\ Cardinality(1..q) = q
    BY FS_Interval
  <2>3. IsFiniteSet(added) /\ Cardinality(added) = Cardinality({j}) * Cardinality(1..q)
    BY <2>1, <2>2, FS_Product
  <2> QED
    BY <2>1, <2>2, <2>3
<1>6. Cardinality(UnitsIn(g, p)) = Cardinality(UnitsIn(f, p)) + q
  <2>1. IsFiniteSet(UnitsIn(f, p)) /\ Cardinality(UnitsIn(f, p)) \in Nat
    BY UnitsAreFinite
  <2>2. Cardinality(UnitsIn(f, p) \cap added) = 0
    BY <1>4, FS_EmptySet, Zenon
  <2> HIDE DEF added
  <2>3. Cardinality(UnitsIn(f, p) \cup added)
           = Cardinality(UnitsIn(f, p)) + Cardinality(added) - Cardinality(UnitsIn(f, p) \cap added)
    BY <1>5, <2>1, FS_Union
  <2>4. Cardinality(UnitsIn(g, p)) = Cardinality(UnitsIn(f, p) \cup added)
    BY <1>3, Zenon
  <2> QED
    BY <1>5, <2>1, <2>2, <2>3, <2>4
<1>7. ASSUME NEW r \in Id \ {p} PROVE UnitsIn(g, r) = UnitsIn(f, r)
  BY <1>1, <1>2 DEF UnitsIn
<1> QED
  BY <1>6, <1>7

(* A reservation is held exactly by a job that has been granted it, and    *)
(* only what the router knows is reserved.                                 *)
IsJob == [Job -> [pc : {"new", "queued", "running", "routed", "granted", "served"},
                  provider : Id \cup {NoLimit}, source : {"none", "user", "platform"}]]

ResourcesTyped ==
    /\ budget \in [Id -> [limit : Nat \cup {NoLimit}, used : Nat, availability : {"available", "exhausted"}]]
    /\ excess \in [Id -> Nat]
    /\ reservations \in IsReservation
    /\ job \in IsJob

GrantsAreReserved ==
    \A j \in Job :
        /\ IF job[j].pc = "granted" THEN reservations[j].provider \in Id ELSE reservations[j] = Released
        /\ job[j].pc = "routed" /\ job[j].source = "platform" => job[j].provider \in Id

BudgetInv == ResourcesTyped /\ GrantsAreReserved /\ BudgetIsKept

LEMMA ReservedIsUnits ==
    /\ \A p : Reserved(p) = Cardinality(UnitsIn(reservations, p)) /\ Reserved(p) \in Nat
    /\ \A p : Reserved(p)' = Cardinality(UnitsIn(reservations', p)) /\ Reserved(p)' \in Nat
<1>1. \A p : Units(p) = UnitsIn(reservations, p) /\ Units(p)' = UnitsIn(reservations', p)
  BY DEF Units, UnitsIn
<1>2. \A f, p : Cardinality(UnitsIn(f, p)) \in Nat
  BY UnitsAreFinite
<1>3. \A p : Reserved(p) = Cardinality(Units(p)) /\ Reserved(p)' = Cardinality(Units(p)')
  BY DEF Reserved
<1>4. \A p : Reserved(p) = Cardinality(UnitsIn(reservations, p))
  BY <1>1, <1>3, Zenon
<1>5. \A p : Reserved(p)' = Cardinality(UnitsIn(reservations', p))
  BY <1>1, <1>3, Zenon
<1> QED
  BY <1>2, <1>4, <1>5

LEMMA MonusIs ==
    ASSUME NEW m \in Nat, NEW n \in Nat
    PROVE  Monus(m, n) \in Nat /\ m <= n + Monus(m, n)
BY DEF Monus

LEMMA InitBudget == InitResources => BudgetInv
<1> SUFFICES ASSUME InitResources PROVE BudgetInv
  OBVIOUS
<1>1. ResourcesTyped /\ GrantsAreReserved
  BY DEF InitResources, ResourcesTyped, GrantsAreReserved, IsReservation, IsJob, Released, New
<1>2. BudgetIsKept
  BY DEF InitResources, BudgetIsKept
<1> QED
  BY <1>1, <1>2 DEF BudgetInv

(* What leaves the budgets and the reservations alone.                     *)
LEMMA ReservationsRest ==
    ASSUME BudgetInv, NEW j \in Job,
           Enqueue(j) \/ StartJob(j) \/ FinishJob(j) \/ \E route \in Routes : RouteJob(j, route)
    PROVE  BudgetInv'
<1>1. /\ budget' = budget /\ reservations' = reservations /\ excess' = excess
      /\ job[j].pc # "granted" /\ job \in IsJob
  BY DEF Enqueue, StartJob, FinishJob, RouteJob, BudgetInv, ResourcesTyped
<1>2. /\ job' \in IsJob /\ job'[j].pc # "granted" /\ \A i \in Job \ {j} : job'[i] = job[i]
      /\ job'[j].pc = "routed" /\ job'[j].source = "platform" => job'[j].provider \in Id
  <2>1. CASE Enqueue(j) \/ StartJob(j)
    <3>1. PICK s \in {"queued", "running"} : job' = [job EXCEPT ![j].pc = s]
      BY <2>1 DEF Enqueue, StartJob
    <3>2. [job[j] EXCEPT !.pc = s] = [pc |-> s, provider |-> job[j].provider, source |-> job[j].source]
      BY <1>1 DEF IsJob
    <3>3. job' \in IsJob
      BY <1>1, <3>1, <3>2 DEF IsJob
    <3>4. job'[j].pc = s /\ \A i \in Job \ {j} : job'[i] = job[i]
      BY <1>1, <3>1 DEF IsJob
    <3> QED
      BY <3>3, <3>4
  <2>2. CASE FinishJob(j)
    <3>1. job' = [job EXCEPT ![j] = New] /\ New.pc = "new"
      BY <2>2 DEF FinishJob, New
    <3>2. job' \in IsJob
      BY <1>1, <3>1 DEF IsJob, New
    <3>3. job'[j] = New /\ \A i \in Job \ {j} : job'[i] = job[i]
      BY <1>1, <3>1 DEF IsJob
    <3> QED
      BY <3>1, <3>2, <3>3
  <2>3. ASSUME NEW route \in Routes, RouteJob(j, route)
        PROVE  /\ job' \in IsJob /\ job'[j].pc # "granted" /\ \A i \in Job \ {j} : job'[i] = job[i]
               /\ job'[j].pc = "routed" /\ job'[j].source = "platform" => job'[j].provider \in Id
    <3>1. /\ route.provider \in Id \cup {NoLimit}
          /\ route.source \in {"none", "user", "platform"}
          /\ route.source = "platform" => route.provider \in Id
      <4>1. PICK req \in Requests, seen \in Lookups, now \in Lookups : route = Route(req, seen, now)
        BY DEF Routes
      <4>2. CASE \A p \in Id : ~Serves(p, req, now)
        BY <4>1, <4>2, RouteIsFirst DEF NoRoute
      <4>3. CASE \E p \in Id : Serves(p, req, now)
        BY <4>1, <4>3, RouteIsFirst, SourceOfRoute
      <4> QED
        BY <4>2, <4>3
    <3>2. job' = [job EXCEPT ![j] = [pc |-> "routed", provider |-> route.provider, source |-> route.source]]
      BY <2>3 DEF RouteJob
    <3> QED
      BY <1>1, <3>1, <3>2 DEF IsJob
  <2> QED
    BY <2>1, <2>2, <2>3
<1>4. ResourcesTyped'
  BY <1>1, <1>2 DEF BudgetInv, ResourcesTyped
<1>5. \A p : Reserved(p)' = Reserved(p)
  BY <1>1, ReservedIsUnits
<1>6. BudgetIsKept'
  BY <1>1, <1>5 DEF BudgetInv, BudgetIsKept
<1>7. GrantsAreReserved'
  BY <1>1, <1>2 DEF BudgetInv, GrantsAreReserved
<1> QED
  BY <1>4, <1>6, <1>7 DEF BudgetInv

(* A reservation is made of what remains beyond the others.                *)
LEMMA ReserveKeeps ==
    ASSUME BudgetInv, NEW j \in Job, NEW q \in 1..MaxUnits, Reserve(j, q)
    PROVE  BudgetInv'
<1> PICK p : p = job[j].provider
  OBVIOUS
<1>1. p \in Id /\ reservations[j] = Released /\ Fits(p, q)
  BY DEF BudgetInv, GrantsAreReserved, Reserve, MayReserve
<1>2. /\ reservations' = [reservations EXCEPT ![j] = [provider |-> p, quantity |-> q]]
      /\ job' = [job EXCEPT ![j] = [New EXCEPT !.pc = "granted"]]
      /\ budget' = budget /\ excess' = excess
  BY DEF Reserve
<1>3. ResourcesTyped'
  <2>1. [provider |-> p, quantity |-> q] \in [provider : Id \cup {NoLimit}, quantity : 0..MaxUnits]
    BY <1>1
  <2>2. reservations' \in IsReservation
    BY <1>2, <2>1 DEF BudgetInv, ResourcesTyped, IsReservation
  <2>3. job' \in IsJob
    BY <1>2 DEF BudgetInv, ResourcesTyped, IsJob, New
  <2> QED
    BY <1>2, <2>2, <2>3 DEF BudgetInv, ResourcesTyped
<1>4. GrantsAreReserved'
  <2>1. job'[j].pc = "granted" /\ \A i \in Job \ {j} : job'[i] = job[i]
    BY <1>2 DEF BudgetInv, ResourcesTyped, IsJob, New
  <2>2. reservations'[j].provider = p /\ \A i \in Job \ {j} : reservations'[i] = reservations[i]
    BY <1>1, <1>2 DEF BudgetInv, ResourcesTyped, IsReservation
  <2> QED
    BY <1>1, <2>1, <2>2 DEF BudgetInv, GrantsAreReserved
<1>5. Reserved(p)' = Reserved(p) + q /\ \A r \in Id \ {p} : Reserved(r)' = Reserved(r)
  <2>1. reservations \in IsReservation /\ reservations' \in IsReservation
    BY <1>3 DEF BudgetInv, ResourcesTyped
  <2>2. /\ Cardinality(UnitsIn(reservations', p)) = Cardinality(UnitsIn(reservations, p)) + q
        /\ \A r \in Id \ {p} : UnitsIn(reservations', r) = UnitsIn(reservations, r)
    <3>1. /\ q \in 0..MaxUnits /\ reservations'[j] = [provider |-> p, quantity |-> q]
          /\ \A i \in Job \ {j} : reservations[i] = reservations'[i]
      BY <1>2, <2>1 DEF IsReservation
    <3>2. Adds(reservations, reservations', j, p, q)
      BY <1>1, <2>1, <3>1 DEF Adds
    <3> QED
      BY <3>2, OneReservation
  <2> QED
    BY <2>2, ReservedIsUnits
<1>6. budget[p].limit # NoLimit => budget[p].used + Reserved(p) + q <= budget[p].limit
  <2>1. budget[p].limit \in Nat \cup {NoLimit} /\ budget[p].used \in Nat /\ Reserved(p) \in Nat
    BY <1>1, ReservedIsUnits DEF BudgetInv, ResourcesTyped
  <2> QED
    BY <1>1, <2>1 DEF Fits, Remaining, Monus
<1>7. BudgetIsKept'
  <2>1. ASSUME NEW r \in Id, budget[r].limit # NoLimit
        PROVE  budget[r].used + Reserved(r)' <= budget[r].limit + excess[r]
    <3>1. /\ budget[r].limit \in Nat /\ budget[r].used \in Nat /\ excess[r] \in Nat
          /\ Reserved(r) \in Nat /\ Reserved(r)' \in Nat
      BY <2>1, ReservedIsUnits DEF BudgetInv, ResourcesTyped
    <3>2. budget[r].used + Reserved(r) <= budget[r].limit + excess[r]
      BY <2>1 DEF BudgetInv, BudgetIsKept
    <3> QED
      BY <1>5, <1>6, <2>1, <3>1, <3>2
  <2> QED
    BY <1>2, <2>1 DEF BudgetIsKept
<1> QED
  BY <1>3, <1>4, <1>7 DEF BudgetInv

(* A job gives its reservation back.                                       *)
LEMMA GivenBack ==
    ASSUME BudgetInv, NEW j \in Job, NEW p, NEW q,
           job[j].pc = "granted", p = reservations[j].provider, q = reservations[j].quantity,
           reservations' = [reservations EXCEPT ![j] = Released],
           job' = [job EXCEPT ![j].pc = "served"]
    PROVE  /\ p \in Id /\ q \in 0..MaxUnits
           /\ Reserved(p) = Reserved(p)' + q
           /\ \A r \in Id \ {p} : Reserved(r)' = Reserved(r)
           /\ reservations' \in IsReservation /\ job' \in IsJob
           /\ GrantsAreReserved'
<1>1. p \in Id /\ reservations \in IsReservation /\ job \in IsJob
  BY DEF BudgetInv, GrantsAreReserved, ResourcesTyped
<1>2. q \in 0..MaxUnits /\ reservations[j] = [provider |-> p, quantity |-> q]
  BY <1>1 DEF IsReservation
<1>3. Released \in [provider : Id \cup {NoLimit}, quantity : 0..MaxUnits]
  BY DEF Released
<1>4. /\ reservations' \in IsReservation /\ reservations'[j] = Released
      /\ \A i \in Job \ {j} : reservations'[i] = reservations[i]
  BY <1>1, <1>3 DEF IsReservation
<1>5. /\ job' \in IsJob /\ job'[j].pc = "served"
      /\ \A i \in Job \ {j} : job'[i] = job[i]
  BY <1>1 DEF IsJob
<1>6. GrantsAreReserved'
  BY <1>4, <1>5 DEF BudgetInv, GrantsAreReserved
<1>7. /\ Cardinality(UnitsIn(reservations, p)) = Cardinality(UnitsIn(reservations', p)) + q
      /\ \A r \in Id \ {p} : UnitsIn(reservations, r) = UnitsIn(reservations', r)
  <2>1. Adds(reservations', reservations, j, p, q)
    BY <1>1, <1>2, <1>4 DEF Adds
  <2>2. \A f, g : Adds(f, g, j, p, q) =>
            /\ Cardinality(UnitsIn(g, p)) = Cardinality(UnitsIn(f, p)) + q
            /\ \A r \in Id \ {p} : UnitsIn(g, r) = UnitsIn(f, r)
    BY OneReservation
  <2> QED
    BY <2>1, <2>2
<1>8. Reserved(p) = Reserved(p)' + q /\ \A r \in Id \ {p} : Reserved(r)' = Reserved(r)
  BY <1>7, ReservedIsUnits
<1> QED
  BY <1>1, <1>2, <1>4, <1>5, <1>6, <1>8

LEMMA ReleaseKeeps ==
    ASSUME BudgetInv, NEW j \in Job, Release(j)
    PROVE  BudgetInv'
<1> PICK p, q : p = reservations[j].provider /\ q = reservations[j].quantity
  OBVIOUS
<1>1. /\ job[j].pc = "granted" /\ reservations' = [reservations EXCEPT ![j] = Released]
      /\ job' = [job EXCEPT ![j].pc = "served"] /\ budget' = budget /\ excess' = excess
  BY DEF Release
<1>2. /\ p \in Id /\ q \in 0..MaxUnits /\ Reserved(p) = Reserved(p)' + q
      /\ \A r \in Id \ {p} : Reserved(r)' = Reserved(r)
      /\ reservations' \in IsReservation /\ job' \in IsJob /\ GrantsAreReserved'
  BY <1>1, GivenBack
<1>3. ASSUME NEW r \in Id, budget[r].limit # NoLimit
      PROVE  budget[r].used + Reserved(r)' <= budget[r].limit + excess[r]
  <2>1. /\ budget[r].limit \in Nat /\ budget[r].used \in Nat /\ excess[r] \in Nat
        /\ Reserved(r) \in Nat /\ Reserved(r)' \in Nat
    BY <1>3, ReservedIsUnits DEF BudgetInv, ResourcesTyped
  <2>2. budget[r].used + Reserved(r) <= budget[r].limit + excess[r]
    BY <1>3 DEF BudgetInv, BudgetIsKept
  <2>3. Reserved(r)' <= Reserved(r)
    BY <1>2, <2>1
  <2> QED
    BY <2>1, <2>2, <2>3
<1>4. BudgetIsKept'
  BY <1>1, <1>3 DEF BudgetIsKept
<1>5. ResourcesTyped'
  BY <1>1, <1>2 DEF BudgetInv, ResourcesTyped
<1> QED
  BY <1>2, <1>4, <1>5 DEF BudgetInv

(* What is used takes the place of what was reserved; the rest is excess.  *)
LEMMA SettleKeeps ==
    ASSUME BudgetInv, NEW j \in Job, NEW n \in 0..MaxUnits, Settle(j, n)
    PROVE  BudgetInv'
<1> PICK p, q : p = reservations[j].provider /\ q = reservations[j].quantity
  OBVIOUS
<1>1. /\ job[j].pc = "granted" /\ reservations' = [reservations EXCEPT ![j] = Released]
      /\ job' = [job EXCEPT ![j].pc = "served"]
      /\ excess' = [excess EXCEPT ![p] = @ + Monus(n, q)]
  BY DEF Settle
<1>2. /\ p \in Id /\ q \in 0..MaxUnits /\ Reserved(p) = Reserved(p)' + q
      /\ \A r \in Id \ {p} : Reserved(r)' = Reserved(r)
      /\ reservations' \in IsReservation /\ job' \in IsJob /\ GrantsAreReserved'
  BY <1>1, GivenBack
<1>3. PICK a \in {"available", "exhausted"} :
        budget' = [budget EXCEPT ![p].used = budget[p].used + n, ![p].availability = a]
  <2>1. budget[p].availability \in {"available", "exhausted"}
    BY <1>2 DEF BudgetInv, ResourcesTyped
  <2> QED
    BY <2>1 DEF Settle
<1>4. Monus(n, q) \in Nat /\ n <= q + Monus(n, q) /\ n \in Nat /\ q \in Nat
  <2>1. n \in Nat /\ q \in Nat
    BY <1>2
  <2> QED
    BY <2>1, MonusIs
<1>5. /\ budget' \in [Id -> [limit : Nat \cup {NoLimit}, used : Nat, availability : {"available", "exhausted"}]]
      /\ budget'[p].limit = budget[p].limit /\ budget'[p].used = budget[p].used + n
      /\ \A r \in Id \ {p} : budget'[r] = budget[r]
  BY <1>2, <1>3, <1>4 DEF BudgetInv, ResourcesTyped
<1>6. /\ excess' \in [Id -> Nat] /\ excess'[p] = excess[p] + Monus(n, q)
      /\ \A r \in Id \ {p} : excess'[r] = excess[r]
  BY <1>1, <1>2, <1>4 DEF BudgetInv, ResourcesTyped
<1>7. ASSUME NEW r \in Id, budget'[r].limit # NoLimit
      PROVE  budget'[r].used + Reserved(r)' <= budget'[r].limit + excess'[r]
  <2>1. budget[r].limit # NoLimit
    BY <1>5, <1>7
  <2>2. /\ budget[r].limit \in Nat /\ budget[r].used \in Nat /\ excess[r] \in Nat
        /\ Reserved(r) \in Nat /\ Reserved(r)' \in Nat
    BY <2>1, ReservedIsUnits DEF BudgetInv, ResourcesTyped
  <2>3. budget[r].used + Reserved(r) <= budget[r].limit + excess[r]
    BY <2>1 DEF BudgetInv, BudgetIsKept
  <2>4. CASE r = p
    BY <1>2, <1>4, <1>5, <1>6, <2>2, <2>3, <2>4
  <2>5. CASE r # p
    BY <1>2, <1>5, <1>6, <2>2, <2>3, <2>5
  <2> QED
    BY <2>4, <2>5
<1>8. BudgetIsKept'
  BY <1>7 DEF BudgetIsKept
<1>9. ResourcesTyped'
  BY <1>2, <1>5, <1>6 DEF ResourcesTyped
<1> QED
  BY <1>2, <1>8, <1>9 DEF BudgetInv

(* A new budget may be less than what is reserved already.                 *)
LEMMA SetBudgetKeeps ==
    ASSUME BudgetInv, NEW p \in Platform, NEW n \in 0..MaxUnits \cup {NoLimit}, SetBudget(p, n)
    PROVE  BudgetInv'
<1> DEFINE new == [limit |-> n, used |-> 0, availability |-> "available"]
<1>1. /\ p \in Id /\ budget' = [budget EXCEPT ![p] = new]
      /\ excess' = [excess EXCEPT ![p] = Overdrawn(p, budget'[p])]
      /\ reservations' = reservations /\ job' = job
  BY DEF SetBudget
<1>2. /\ budget' \in [Id -> [limit : Nat \cup {NoLimit}, used : Nat, availability : {"available", "exhausted"}]]
      /\ budget'[p] = new /\ \A r \in Id \ {p} : budget'[r] = budget[r]
  BY <1>1 DEF BudgetInv, ResourcesTyped
<1>3. /\ \A r : Reserved(r)' = Reserved(r) /\ Reserved(r) \in Nat
  BY <1>1, ReservedIsUnits
<1>4. /\ Overdrawn(p, new) \in Nat
      /\ n # NoLimit => Reserved(p) <= n + Overdrawn(p, new)
  <2>1. Overdrawn(p, new) = IF n = NoLimit THEN 0 ELSE Monus(0 + Reserved(p), n)
    BY DEF Overdrawn
  <2>2. Reserved(p) \in Nat
    BY <1>3
  <2> QED
    BY <2>1, <2>2 DEF Monus
<1>5. excess' \in [Id -> Nat] /\ excess'[p] = Overdrawn(p, new) /\ \A r \in Id \ {p} : excess'[r] = excess[r]
  BY <1>1, <1>2, <1>4 DEF BudgetInv, ResourcesTyped
<1>6. ASSUME NEW r \in Id, budget'[r].limit # NoLimit
      PROVE  budget'[r].used + Reserved(r)' <= budget'[r].limit + excess'[r]
  <2>1. CASE r = p
    <3>1. budget'[r].used = 0 /\ budget'[r].limit = n /\ n \in Nat /\ Reserved(r)' = Reserved(p) /\ Reserved(p) \in Nat
      BY <1>2, <1>3, <1>6, <2>1
    <3> QED
      BY <1>4, <1>5, <1>6, <2>1, <3>1
  <2>2. CASE r # p
    BY <1>2, <1>3, <1>5, <1>6, <2>2 DEF BudgetInv, BudgetIsKept
  <2> QED
    BY <2>1, <2>2
<1>7. BudgetIsKept'
  BY <1>6 DEF BudgetIsKept
<1>8. ResourcesTyped' /\ GrantsAreReserved'
  BY <1>1, <1>2, <1>5 DEF BudgetInv, ResourcesTyped, GrantsAreReserved
<1> QED
  BY <1>7, <1>8 DEF BudgetInv

(* A recovery of a provider.                                               *)
LEMMA LimitsRest ==
    ASSUME BudgetInv, NEW p \in Id,
           Recover(p) \/ UNCHANGED resVars
    PROVE  BudgetInv'
<1>1. /\ reservations' = reservations /\ job' = job /\ excess' = excess
      /\ budget' = budget \/ budget' = [budget EXCEPT ![p].availability = "available"]
  BY DEF Recover, resVars
<1> DEFINE Budgets == [limit : Nat \cup {NoLimit}, used : Nat, availability : {"available", "exhausted"}]
<1>2. budget' \in [Id -> Budgets] /\ \A r \in Id : budget'[r].used = budget[r].used /\ budget'[r].limit = budget[r].limit
  <2>1. budget \in [Id -> Budgets]
    BY DEF BudgetInv, ResourcesTyped
  <2>2. CASE budget' = budget
    BY <2>1, <2>2
  <2>3. CASE budget' = [budget EXCEPT ![p].availability = "available"]
    <3> DEFINE new == [budget[p] EXCEPT !.availability = "available"]
    <3>1. budget[p] \in Budgets
      BY <2>1
    <3>2. new \in Budgets /\ new.used = budget[p].used /\ new.limit = budget[p].limit
      BY <3>1
    <3>3. budget' = [budget EXCEPT ![p] = new]
      BY <2>3
    <3> HIDE DEF new, Budgets
    <3> QED
      BY <2>1, <3>2, <3>3
  <2> QED
    BY <1>1, <2>2, <2>3
<1>3. ResourcesTyped' /\ GrantsAreReserved'
  BY <1>1, <1>2 DEF BudgetInv, ResourcesTyped, GrantsAreReserved
<1>4. \A r : Reserved(r)' = Reserved(r)
  BY <1>1, ReservedIsUnits
<1>5. BudgetIsKept'
  BY <1>1, <1>2, <1>4 DEF BudgetInv, BudgetIsKept
<1> QED
  BY <1>3, <1>5 DEF BudgetInv

(* Nothing is promised twice: of every known budget, what is used and what *)
(* is reserved is within the limit and what is accounted as excess.        *)
THEOREM BudgetsAreKept == Spec => []BudgetIsKept
<1>1. Init => BudgetInv
  BY InitBudget DEF Init
<1>2. BudgetInv /\ [Next]_vars => BudgetInv'
  <2>1. ASSUME BudgetInv, UNCHANGED resVars PROVE BudgetInv'
    <3>1. ASSUME NEW p \in Id PROVE BudgetInv'
      BY <2>1, LimitsRest
    <3>2. CASE Id = {}
      BY <2>1, <3>2 DEF BudgetInv, ResourcesTyped, GrantsAreReserved, BudgetIsKept, resVars
    <3> QED
      BY <3>1, <3>2
  <2>2. ASSUME BudgetInv, NextResources PROVE BudgetInv'
    <3>1. ASSUME NEW j \in Job, Work(j) PROVE BudgetInv'
      BY <2>2, <3>1, ReservationsRest, ReleaseKeeps, ReserveKeeps, SettleKeeps DEF Work
    <3>2. ASSUME NEW p \in Platform, Recover(p) \/ \E n \in 0..MaxUnits \cup {NoLimit} : SetBudget(p, n)
          PROVE  BudgetInv'
      BY <2>2, <3>2, LimitsRest, SetBudgetKeeps
    <3> QED
      BY <2>2, <3>1, <3>2 DEF NextResources
  <2> QED
    BY <2>1, <2>2 DEF Next, vars
<1>3. BudgetInv => BudgetIsKept
  BY DEF BudgetInv
<1> QED
  BY <1>1, <1>2, <1>3, PTL DEF Spec

-----------------------------------------------------------------------------
(* The calls of models: circuit breakers and calls keep their types, and a *)
(* circuit that is not closed still holds the failures that opened it.     *)
USE ModelCallsAssumption DEF ModelCallsAssumption

(* A call in flight was let through by its circuit: without this, a call   *)
(* that succeeds could clear the count of an open circuit.                 *)
InFlight == \A a \in Agent : call[a].pc # "idle" => breaker[a].state # "open"

CallsInv == CallsTypeOK /\ InFlight /\ ProbeDecides

Breaker == [state : {"closed", "open", "half_open"}, failures : 0..Threshold + 1,
            waited : BOOLEAN]
Consistent(b) == b.state = "closed" <=> b.failures < Threshold

(* The circuit breaker on its own: letting a call pass, a success of a     *)
(* call that was let through, and a failure keep a breaker consistent.     *)
LEMMA CurrentBreaker ==
    ASSUME NEW b \in Breaker, Consistent(b)
    PROVE  Current(b) \in Breaker /\ Consistent(Current(b))
BY DEF Breaker, Consistent, Current, Recovered

LEMMA SucceededBreaker ==
    ASSUME NEW b \in Breaker, Consistent(b), b.state # "open"
    PROVE  OnSuccess(b) \in Breaker /\ Consistent(OnSuccess(b)) /\ OnSuccess(b).state # "open"
BY DEF Breaker, Consistent, OnSuccess

LEMMA FailedBreaker ==
    ASSUME NEW b \in Breaker, Consistent(b)
    PROVE  OnFailure(b) \in Breaker /\ Consistent(OnFailure(b))
<1> DEFINE n == Cap(b.failures + 1)
<1>1. n \in 0..Threshold + 1 /\ (n >= Threshold <=> b.failures + 1 >= Threshold)
  BY DEF Cap, Breaker
<1>2. n < Threshold => b.failures < Threshold
  BY <1>1 DEF Breaker
<1> QED
  BY <1>1, <1>2 DEF Breaker, Consistent, OnFailure

(* The attempts of a call stay within the retries.                         *)
LEMMA AttemptsBounded == Attempts \in 1..MaxRetries + 1
BY DEF Attempts

(* A step of the agent a that touches nobody else's breaker or call, and   *)
(* leaves its own well typed and consistent, keeps the invariant.          *)
LEMMA OneAgent ==
    ASSUME CallsInv, NEW a \in Agent, NEW b \in Breaker, NEW c \in [pc : {"idle", "try", "plain"},
               attempt : 0..MaxRetries + 1, effort : BOOLEAN],
           Consistent(b), c.pc # "idle" => b.state # "open",
           breaker' = [breaker EXCEPT ![a] = b], call' = [call EXCEPT ![a] = c],
           unsupported' \subseteq Endpoint, UNCHANGED <<accepts, up>>
    PROVE  CallsInv'
<1>1. CallsTypeOK'
  BY DEF CallsInv, CallsTypeOK, Breaker
<1>2. InFlight'
  BY DEF CallsInv, CallsTypeOK, InFlight
<1>3. ProbeDecides'
  BY DEF CallsInv, CallsTypeOK, ProbeDecides, Consistent
<1> QED
  BY <1>1, <1>2, <1>3 DEF CallsInv

LEMMA InitCallsInv == InitCalls => CallsInv
BY DEF InitCalls, CallsInv, CallsTypeOK, InFlight, ProbeDecides, Closed, NoCall

(* Every step keeps the invariant.                                         *)
LEMMA StepCallsInv == CallsInv /\ [NextCalls]_callVars => CallsInv'
<1> SUFFICES ASSUME CallsInv, [NextCalls]_callVars PROVE CallsInv'
  OBVIOUS
<1> DEFINE CallRow == [pc : {"idle", "try", "plain"}, attempt : 0..MaxRetries + 1,
                       effort : BOOLEAN]
<1>0. ASSUME NEW a \in Agent
      PROVE  breaker[a] \in Breaker /\ Consistent(breaker[a]) /\ call[a] \in CallRow
  BY DEF CallsInv, CallsTypeOK, ProbeDecides, Consistent, Breaker
<1>1. ASSUME NEW a \in Agent, Call(a) PROVE CallsInv'
  <2> DEFINE b == Current(breaker[a])
  <2>1. b \in Breaker /\ Consistent(b)
    BY <1>0, CurrentBreaker
  <2>2. breaker' = [breaker EXCEPT ![a] = b] /\ breaker'[a] = b
    BY <1>1 DEF Call, CallsInv, CallsTypeOK
  <2>3. CASE b.state = "open"
    <3>1. call' = [call EXCEPT ![a] = call[a]] /\ call[a].pc = "idle"
      BY <1>1, <2>2, <2>3 DEF Call, CallsInv, CallsTypeOK
    <3>2. unsupported' \subseteq Endpoint /\ UNCHANGED <<accepts, up>>
      BY <1>1 DEF Call, CallsInv, CallsTypeOK
    <3> HIDE DEF b
    <3> QED
      BY <1>0, <2>1, <2>2, <3>1, <3>2, OneAgent
  <2>4. CASE b.state # "open"
    <3>1. call' = [call EXCEPT ![a] = Attempt(a, 1)]
      BY <1>1, <2>2, <2>4 DEF Call
    <3>2. Attempt(a, 1) \in CallRow
      BY DEF Attempt
    <3>3. unsupported' \subseteq Endpoint /\ UNCHANGED <<accepts, up>>
      BY <1>1 DEF Call, CallsInv, CallsTypeOK
    <3> HIDE DEF b
    <3> QED
      BY <2>1, <2>2, <2>4, <3>1, <3>2, <3>3, OneAgent
  <2> QED
    BY <2>3, <2>4
<1>2. ASSUME NEW a \in Agent, Answered(a) PROVE CallsInv'
  <2>1. call[a].pc # "idle" /\ breaker[a].state # "open" /\ UNCHANGED <<accepts, up>>
    BY <1>2 DEF Answered, CallsInv, InFlight
  <2>2. CASE Return(a)
    <3>1. breaker' = [breaker EXCEPT ![a] = OnSuccess(breaker[a])]
          /\ call' = [call EXCEPT ![a] = NoCall] /\ unsupported' \subseteq Endpoint
      BY <2>2 DEF Return, CallsInv, CallsTypeOK
    <3>2. NoCall \in CallRow /\ NoCall.pc = "idle"
      BY DEF NoCall
    <3> QED
      BY <1>0, <2>1, <3>1, <3>2, SucceededBreaker, OneAgent
  <2>3. CASE Fail(a)
    <3>1. unsupported' \subseteq Endpoint
      BY <2>3 DEF Fail, CallsInv, CallsTypeOK
    <3>2. CASE call[a].attempt < Attempts
      <4>1. breaker' = [breaker EXCEPT ![a] = breaker[a]]
            /\ call' = [call EXCEPT ![a] = Attempt(a, call[a].attempt + 1)]
        BY <2>3, <3>2 DEF Fail, CallsInv, CallsTypeOK
      <4>2. call[a].attempt + 1 \in 0..MaxRetries + 1
        BY <1>0, <3>2, AttemptsBounded
      <4>3. Attempt(a, call[a].attempt + 1) \in CallRow
        BY <4>2 DEF Attempt
      <4> QED
        BY <1>0, <2>1, <3>1, <4>1, <4>3, OneAgent
    <3>3. CASE ~(call[a].attempt < Attempts)
      <4>1. breaker' = [breaker EXCEPT ![a] = OnFailure(breaker[a])]
            /\ call' = [call EXCEPT ![a] = NoCall]
        BY <2>3, <3>3 DEF Fail
      <4>2. NoCall \in CallRow /\ NoCall.pc = "idle"
        BY DEF NoCall
      <4> QED
        BY <1>0, <2>1, <3>1, <4>1, <4>2, FailedBreaker, OneAgent
    <3> QED
      BY <3>2, <3>3
  <2>4. CASE Reject(a)
    <3> DEFINE c == [call[a] EXCEPT !.pc = "plain", !.effort = FALSE]
    <3>1. unsupported' \subseteq Endpoint
      BY <2>4 DEF Reject, CallsInv, CallsTypeOK
    <3>2. breaker' = [breaker EXCEPT ![a] = breaker[a]] /\ call' = [call EXCEPT ![a] = c]
      BY <2>4 DEF Reject, CallsInv, CallsTypeOK
    <3>3. c \in CallRow
      BY <1>0
    <3> HIDE DEF c
    <3> QED
      BY <1>0, <2>1, <3>1, <3>2, <3>3, OneAgent
  <2> QED
    BY <1>2, <2>2, <2>3, <2>4 DEF Answered
<1>3. ASSUME NEW a \in Agent, Wait(a) PROVE CallsInv'
  <2> DEFINE b == [breaker[a] EXCEPT !.waited = TRUE]
  <2>1. breaker' = [breaker EXCEPT ![a] = b] /\ call' = [call EXCEPT ![a] = call[a]]
        /\ unsupported' \subseteq Endpoint /\ UNCHANGED <<accepts, up>>
    BY <1>3 DEF Wait, CallsInv, CallsTypeOK
  <2>2. b \in Breaker /\ Consistent(b)
    BY <1>0 DEF Breaker, Consistent
  <2>3. call[a].pc # "idle" => b.state # "open"
    BY <1>0 DEF CallsInv, InFlight, Breaker
  <2> HIDE DEF b
  <2> QED
    BY <1>0, <2>1, <2>2, <2>3, OneAgent
<1>4. ASSUME NEW e \in Endpoint, Forget(e) \/ EndpointChanges(e) PROVE CallsInv'
  BY <1>4 DEF Forget, EndpointChanges, CallsInv, CallsTypeOK, InFlight, ProbeDecides
<1>5. CASE UNCHANGED callVars
  BY <1>5 DEF callVars, CallsInv, CallsTypeOK, InFlight, ProbeDecides
<1> QED
  BY <1>1, <1>2, <1>3, <1>4, <1>5 DEF NextCalls

LEMMA CallsInvHolds == CallsSpec => []CallsInv
<1> QED
  BY InitCallsInv, StepCallsInv, PTL DEF CallsSpec

(* Breakers and calls keep their types: in particular no call makes more   *)
(* attempts than the retries allow.                                        *)
THEOREM CallsTyping == CallsSpec => []CallsTypeOK
<1>1. CallsInv => CallsTypeOK
  BY DEF CallsInv
<1> QED
  BY <1>1, CallsInvHolds, PTL

(* While its circuit is open an agent sends nothing, also when the recovery *)
(* timeout passes in the middle of a call: only a new call may probe.      *)
THEOREM OpenCircuitSendsNothing == CallsSpec => []InFlight
<1>1. CallsInv => InFlight
  BY DEF CallsInv
<1> QED
  BY <1>1, CallsInvHolds, PTL

(* A circuit is closed exactly as long as fewer failures than the          *)
(* threshold count against it; so the probe that follows the recovery      *)
(* timeout decides alone, and one failure opens the circuit again.         *)
THEOREM ProbeDecidesAlways == CallsSpec => []ProbeDecides
<1>1. CallsInv => ProbeDecides
  BY DEF CallsInv
<1> QED
  BY <1>1, CallsInvHolds, PTL
=============================================================================
