------------------------------ MODULE RoutingCards ------------------------------
(***************************************************************************)
(* The cards of artifacts and skills that routing retrieves                *)
(* (routing/cards.py), which of them a query may see, and how they are     *)
(* scored (routing/index.py), and the retrieval path that their vectors    *)
(* allow (routing/fallback.py).                                            *)
(***************************************************************************)
EXTENDS RoutingDecision

CONSTANTS
    Global,          \* the scope of cards that belong to no tenant
    Lexical(_, _),   \* Lexical(q, key): score of a card by the words of a query
    Order            \* all card keys in the order of types and names

Key(c) == [type |-> c.type, id |-> c.id, version |-> c.version, tenant |-> c.tenant]
SameEntity(c, d) == c.type = d.type /\ c.id = d.id
Place(key) == CHOOSE i \in DOMAIN Order : Order[i] = key

(***************************************************************************)
(* A tenant's own card goes before the global one, then the newer version. *)
(* An inactive card hides what it goes before.                             *)
(***************************************************************************)
Supersedes(d, c) ==
    /\ SameEntity(c, d)
    /\ \/ c.tenant = Global /\ d.tenant # Global
       \/ (c.tenant = Global <=> d.tenant = Global) /\ d.version > c.version

InScope(c, q) == (q.types = {} \/ c.type \in q.types) /\ c.tenant \in {Global, q.tenant}

FitsQuery(c, q) ==
    /\ q.inactive \/ c.active
    /\ q.artifact # Unselected =>
          IF c.type = "artifact" THEN c.id = q.artifact
          ELSE c.artifacts = {} \/ q.artifact \in c.artifacts
    /\ c.roles = {} \/ q.role \in c.roles

\* Fault: inactive cards are dropped before the newest one is chosen.
FaultyVisible(cards, q) ==
    LET scoped == {c \in cards : InScope(c, q) /\ FitsQuery(c, q)}
    IN  {c \in scoped : \A d \in scoped : ~Supersedes(d, c)}

Visible(cards, q) ==
    LET scoped == {c \in cards : InScope(c, q)}
    IN  {c \in scoped : FitsQuery(c, q) /\ \A d \in scoped : ~Supersedes(d, c)}

-----------------------------------------------------------------------------
Lesser(m, n) == IF m < n THEN m ELSE n

(***************************************************************************)
(* Negative examples, capabilities that are missing and skills in conflict.*)
(***************************************************************************)
Penalty(c, q) ==
    LET negative == IF c.id \in q.negatives THEN 350 ELSE 0
        graph    == Lesser(750, 150 * Cardinality(c.deps \ q.capabilities)
                                + 600 * Cardinality(c.conflicts \cap q.skills))
    IN  Lesser(950, negative + graph)

Scored(c, q, base, channels) ==
    [card |-> c, score |-> IF base > Penalty(c, q) THEN base - Penalty(c, q) ELSE 0,
     channels |-> channels, penalty |-> Penalty(c, q)]

(***************************************************************************)
(* The first k results that score, the best first; ties are broken by the  *)
(* order of types and names.                                               *)
(***************************************************************************)
Beats(r, s) ==
    \/ r.score > s.score
    \/ r.score = s.score /\ Place(Key(r.card)) < Place(Key(s.card))

InOrder(results, k) ==
    LET good == {r \in results : r.score > 0}
    IN  [i \in 1..Lesser(k, Cardinality(good)) |->
            CHOOSE r \in good : Cardinality({s \in good : Beats(s, r)}) = i - 1]

(***************************************************************************)
(* The search of InMemoryRoutingIndex.                                     *)
(***************************************************************************)
LocalSearch(cards, q) ==
    InOrder({Scored(c, q, Lexical(q, Key(c)), {"lexical"}) : c \in Visible(cards, q)}, q.top)

-----------------------------------------------------------------------------
(***************************************************************************)
(* A vector counts as available when every active card has it.             *)
(***************************************************************************)
Vectors == {"e5", "bm25", "colbert"}

Available(visible) ==
    LET active == {c \in visible : c.active}
    IN  IF active = {} THEN {} ELSE {v \in Vectors : \A c \in active : v \in c.ready}

RetrievalPath(visible, semantic) ==
    CASE semantic /\ {"e5", "bm25"} \subseteq Available(visible) -> "e5_bm25"
      [] semantic /\ "bm25" \in Available(visible) /\ "e5" \notin Available(visible) ->
            "bm25_local_rules"
      [] OTHER -> "local_rules_only"
=============================================================================
