----------------------------- MODULE MCModelCalls -----------------------------
(* ModelCalls for TLC: two agents with one endpoint; the first wants the   *)
(* reasoning effort.                                                       *)
EXTENDS ModelCalls, TLC

CONSTANTS a1, a2, e1

Shared == a1 :> e1 @@ a2 :> e1
=============================================================================
