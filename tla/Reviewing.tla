------------------------------ MODULE Reviewing ------------------------------
(***************************************************************************)
(* What reviewers answer and what is made of it (core/review_payload.py,   *)
(* review/payload.py), and which sections a revision request selects       *)
(* (core/revision.py).                                                     *)
(***************************************************************************)
EXTENDS DocumentText

CONSTANTS
    Reviewers,          \* those configured, of evidence, editorial and general
    CalculationNames    \* section names such as model or analysis

(***************************************************************************)
(* An answer is a record [form, role, approved, material].  Its form is    *)
(* "approved" (that word alone), "text" (any other text, a rejection),     *)
(* "json" or "embedded" (an object with text around it, whose role nobody  *)
(* compares); an object says whether it approves and has material issues.  *)
(***************************************************************************)
IsObject(a) == a.form \in {"json", "embedded"}
Approves(a) == a.form = "approved" \/ (IsObject(a) /\ a.approved)
Accepted(a, role) ==
    /\ IsObject(a) => a.approved # a.material
    /\ a.form = "json" /\ role # "general" => a.role = role

\* The general reviewer is asked only where no other is configured.
Consulted == IF Reviewers \ {"general"} = {} THEN Reviewers ELSE Reviewers \ {"general"}

Malformed(answers) == \E r \in Consulted : ~Accepted(answers[r], r)
AllApprove(answers) == \A r \in Consulted : Accepted(answers[r], r) /\ Approves(answers[r])

-----------------------------------------------------------------------------
(***************************************************************************)
(* The sections a document can be revised in, and those a request selects: *)
(* the ones it lists, else the ones its wording names, else for a remark   *)
(* on calculations the ones that sound like it, else all.                  *)
(***************************************************************************)
TextContext(doc) == Chosen(doc, {i \in DOMAIN doc : Full(doc[i].text) # {}})

Selected(request, doc) ==
    LET names == NameSet(doc)
        named == request.named \cap names
        sound == IF request.calculates THEN CalculationNames \cap names ELSE {}
    IN  IF request.affected # {} THEN request.affected
        ELSE IF named # {} THEN named ELSE IF sound # {} THEN sound ELSE names
=============================================================================
