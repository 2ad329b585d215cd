---------------------------- MODULE RoutingDecision ----------------------------
(***************************************************************************)
(* RoutingDecision.from_candidates of routing/models.py: the candidates    *)
(* ranked, and how much a selection may be trusted.  Scores are in         *)
(* thousandths.  Both the retrieval engine and the manifest resolver       *)
(* decide with it.                                                         *)
(***************************************************************************)
EXTENDS Integers, Sequences, SequencesExt

Unselected == "none"
NoSignal == -1           \* no calibrated confidence

(***************************************************************************)
(* The candidates [id, score], best first; ties keep the order of names,   *)
(* which is the order a search returns them in.                            *)
(***************************************************************************)
Ranked(cands) ==
    LET Ahead(i, j) ==
            \/ cands[i].score > cands[j].score
            \/ cands[i].score = cands[j].score /\ i < j
    IN  [r \in DOMAIN cands |->
            cands[CHOOSE i \in DOMAIN cands :
                    Cardinality({j \in DOMAIN cands : Ahead(j, i)}) = r - 1]]

ScoreAt(ranked, r) == IF r \in DOMAIN ranked THEN ranked[r].score ELSE 0

(***************************************************************************)
(* How the selection was found: the depth of the fallback, the penalty of  *)
(* the best candidate, the agreement of its channels, the calibrated       *)
(* confidence, and whether the user named it.                              *)
(***************************************************************************)
Grounds(depth, conflict, agreement, signal, override) ==
    [depth |-> depth, conflict |-> conflict, agreement |-> agreement, signal |-> signal,
     override |-> override]

\* Fault: the depth of the fallback does not matter.
FaultyBand(selected, margin, g) ==
    CASE g.override -> "direct"
      [] ~g.override /\ (selected = Unselected \/ margin < 150) -> "planner_required"
      [] OTHER -> "direct_with_fallback"

Band(selected, margin, g) ==
    LET doubted(limit) == g.signal # NoSignal /\ g.signal < limit
    IN  IF g.override THEN "direct"
        ELSE IF \/ selected = Unselected \/ g.depth >= 3 \/ g.conflict >= 500 \/ doubted(500)
                \/ margin < 150 \/ g.agreement < 500
             THEN "planner_required"
        ELSE IF margin < 300 \/ doubted(700) THEN "planner_recommended"
        ELSE IF g.depth > 0 THEN "direct_with_fallback" ELSE "direct"

Decided(cands, selected, g) ==
    LET ranked == Ranked(cands)
        chosen == IF selected # Unselected \/ ranked = <<>> THEN selected ELSE ranked[1].id
    IN  [candidates |-> ranked, selected |-> chosen, grounds |-> g,
         band |-> Band(chosen, ScoreAt(ranked, 1) - ScoreAt(ranked, 2), g)]
=============================================================================
