-------------------------- MODULE CalculationLedger --------------------------
(***************************************************************************)
(* core/calculation_audit.py: the records of the calculations a document   *)
(* shows, and the audit that recomputes them.  A record is an identifier,  *)
(* the section that owns it, the records it depends on, a base, a unit and *)
(* the result it claims; its expression adds the results it depends on to  *)
(* its base, which keeps what the audit tells apart: a wrong result, a     *)
(* unit that does not fit and a dependency that is missing or cyclic.      *)
(***************************************************************************)
EXTENDS Integers, Sequences, SequencesExt

Ids(entries) == {e.id : e \in entries}
DistinctIds(entries) == Cardinality(Ids(entries)) = Cardinality(entries)

(***************************************************************************)
(* The validators of CalculationEntry and CalculationLedger.               *)
(***************************************************************************)
LedgerIsValid(entries) ==
    /\ DistinctIds(entries)
    /\ \A e \in entries : e.deps \subseteq Ids(entries) \ {e.id}

(***************************************************************************)
(* upsert_many_for_section: records of the section with the same           *)
(* identifiers are replaced, those of another section are refused.         *)
(***************************************************************************)
Kept(entries, batch) == {e \in entries : e.id \notin Ids(batch)}

CanUpsert(entries, owner, batch) ==
    /\ \A e \in batch : e.owner = owner
    /\ DistinctIds(batch)
    /\ \A e \in entries : e.id \in Ids(batch) => e.owner = owner
    /\ LedgerIsValid(Kept(entries, batch) \cup batch)

Upserted(entries, batch) == Kept(entries, batch) \cup batch

-----------------------------------------------------------------------------
(***************************************************************************)
(* One record, recomputed from the results of those it depends on.         *)
(***************************************************************************)
Holds(e, done) ==
    LET inputs == {d \in done : d.id \in e.deps}
    IN  /\ \A d \in inputs : d.unit = e.unit
        /\ e.value = e.base + FoldSet(LAMBDA d, sum : d.value + sum, 0, inputs)

Ready(s) == {e \in s.pending : e.deps \subseteq Ids(s.done)}

(***************************************************************************)
(* One pass of the audit loop: the records that are ready leave pending,   *)
(* and those that hold are evaluated.                                      *)
(***************************************************************************)
Pass(s) == [pending |-> s.pending \ Ready(s),
            done    |-> s.done \cup {e \in Ready(s) : Holds(e, s.done)}]

(***************************************************************************)
(* The loop: a pass without a record that is ready changes nothing, so as  *)
(* many passes as there are records are enough.                            *)
(***************************************************************************)
Evaluated(entries) ==
    LET after[n \in 0..Cardinality(entries)] ==
            IF n = 0 THEN [pending |-> entries, done |-> {}] ELSE Pass(after[n - 1])
    IN  after[Cardinality(entries)].done

(***************************************************************************)
(* What the audit is meant to compute: the least set of records that holds *)
(* every record whose dependencies it holds and whose result is right.     *)
(***************************************************************************)
Grounded(entries) ==
    {e \in entries :
        \A s \in SUBSET entries :
            (\A d \in entries : (d.deps \subseteq Ids(s) /\ Holds(d, s)) => d \in s) => e \in s}
=============================================================================
