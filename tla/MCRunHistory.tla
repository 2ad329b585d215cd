----------------------------- MODULE MCRunHistory -----------------------------
(* RunHistory for TLC: the threads are interchangeable.                    *)
EXTENDS RunHistory

ThreadSymmetry == Permutations(Thread)
=============================================================================
