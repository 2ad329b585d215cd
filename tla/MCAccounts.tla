------------------------------ MODULE MCAccounts ------------------------------
(* Accounts for TLC: threads, subjects, keys and addresses are each        *)
(* interchangeable among themselves.                                       *)
EXTENDS Accounts, TLC

Interchangeable ==
    {t @@ x @@ k @@ e : t \in Permutations(Thread), x \in Permutations(Subject),
                        k \in Permutations(Key), e \in Permutations(Email)}
=============================================================================
