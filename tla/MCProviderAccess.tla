---------------------------- MODULE MCProviderAccess ----------------------------
(* ProviderAccess for TLC: of two providers the second offers both models  *)
(* and needs no key; threads, credentials and jobs are interchangeable.    *)
(* The collection has two versions of a report, the newer one retired, a   *)
(* tenant's own, an essay that needs a capability, and a skill for reports;*)
(* the fallback index has a version that the collection never had.         *)
EXTENDS ProviderAccess, TLC

CONSTANTS p1, p2, tenant1, All

Offered == {<<p1, "large">>, <<p1, "small">>, <<p2, "large">>}
Priorities == p1 :> 1 @@ p2 :> 2

Interchangeable ==
    {c @@ t @@ j : c \in Permutations(Credential), t \in Permutations(Thread), j \in Permutations(Job)}

Card(type, id, version, tenant, isActive, ready) ==
    [type |-> type, id |-> id, version |-> version, tenant |-> tenant, active |-> isActive,
     artifacts |-> {}, roles |-> {}, deps |-> {}, conflicts |-> {}, ready |-> ready]
Remote == {"e5", "bm25"}
Report1 == Card("artifact", "report", 1, All, TRUE, Remote \cup {"colbert"})
Report2 == Card("artifact", "report", 2, All, FALSE, {})
Own     == Card("artifact", "report", 1, tenant1, TRUE, {"bm25"})
Essay   == [Card("artifact", "essay", 1, All, TRUE, Remote \cup {"colbert"}) EXCEPT !.deps = {"figures"}]
Skill   == [Card("skill", "cite", 1, All, TRUE, Remote) EXCEPT !.artifacts = {"report"}, !.roles = {"writer"}]
SomeCards == {Report1, Report2, Own, Essay, Skill}
Points == << Key(Report2), Key(Own), Key(Report1), Key(Skill), Key(Essay) >>
Ask(types, tenant) == [types |-> types, tenant |-> tenant, artifact |-> Unselected, role |-> "writer",
   inactive |-> FALSE, top |-> 2, negatives |-> {"essay"}, capabilities |-> {}, skills |-> {}]
SomeQueries == {Ask({"artifact"}, tenant1), [Ask({}, All) EXCEPT !.artifact = "report"]}
Words(q, k) == IF k.id = "report" THEN 400 ELSE 200
Scores(q, ch, k) == IF k.id = "essay" THEN 500 ELSE 700
AtFirst == {{Report1, Essay, Skill}}
Report3 == [Report1 EXCEPT !.version = 3]
Local == {Report3}
KeyOrder == << Key(Essay), Key(Report1), Key(Report2), Key(Report3), Key(Own), Key(Skill) >>
FitBounds == <<600, 1000>>
FitValues == <<600, 900>>
=============================================================================
