----------------------------- MODULE ProviderAccess -----------------------------
(***************************************************************************)
(* What a run asks of services outside: the credentials and the selection  *)
(* of its user, the shared resources and the routing of its model calls,   *)
(* and the retrieval of skills.  The first two meet in the policy and in   *)
(* the providers the user has a key for, both of which a request may carry *)
(* in any combination; none shares state with another, so that one of them *)
(* moves at a time only while the others are where they began.             *)
(***************************************************************************)
EXTENDS Credentials, ProviderResources, SkillRouting

vars == <<credVars, resVars, searchVars>>

Init == InitCredentials /\ InitResources /\ InitSearch

Next ==
    \/ /\ InitResources /\ InitSearch /\ NextCredentials
       /\ UNCHANGED <<resVars, searchVars>>
    \/ /\ InitCredentials /\ InitSearch /\ NextResources
       /\ UNCHANGED <<credVars, searchVars>>
    \/ /\ InitCredentials /\ InitResources /\ NextSearch
       /\ UNCHANGED <<credVars, resVars>>

Spec == Init /\ [][Next]_vars
=============================================================================
