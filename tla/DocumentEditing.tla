--------------------------- MODULE DocumentEditing ---------------------------
(***************************************************************************)
(* How an existing document is edited: the intent read from the request    *)
(* (core/continuation.py), the plan made of it, the merge operations the   *)
(* writer may send instead, their validation and their application         *)
(* (core/merge_operations.py), and the line patches of a revision          *)
(* (core/section_patch.py).                                                *)
(***************************************************************************)
EXTENDS DocumentText

CONSTANT HardEndingNames     \* section names such as conclusion or summary

None == "none"

(***************************************************************************)
(* A request is the set of pattern groups its wording matches, with the    *)
(* intent the user may have selected.  The groups are tried in this order. *)
(***************************************************************************)
HardEnding(doc) ==
    LET body == Chosen(doc, {i \in DOMAIN doc : ~IsTerminal(doc[i].name)})
        from == IF body = <<>> THEN doc ELSE body
    IN  /\ from # <<>>
        /\ LET end == from[Len(from)]
           IN  end.name \in HardEndingNames \/ \E l \in ToSet(end.text) : <<"closing">> \in l.marks

Intents == {"bridge_and_continue", "continue_append", "update_references_only", "expand_section",
            "complete_missing_section", "revise_in_place", "restructure"}

BodyEdits == {"continue", "expand", "complete", "revise", "next"}

Intent(override, request, doc) ==
    IF override # None THEN override
    ELSE IF "restructure" \in request THEN "restructure"
    ELSE IF "complete" \in request THEN "complete_missing_section"
    ELSE IF "expand" \in request THEN "expand_section"
    ELSE IF "revise" \in request THEN "revise_in_place"
    ELSE IF "references" \in request /\ request \cap BodyEdits = {} THEN "update_references_only"
    ELSE IF ("continue" \in request \/ request = {}) /\ HardEnding(doc) THEN "bridge_and_continue"
    ELSE "continue_append"

-----------------------------------------------------------------------------
Op(op, target, role, n) == [op |-> op, target |-> target, role |-> role, count |-> n]

Insertion(target, role) ==
    IF target # "" THEN Op("insert_before", target, role, 0)
    ELSE Op("append_after", "last_body_section", role, 0)

(***************************************************************************)
(* build_default_edit_plan: what each intent does to the document.         *)
(***************************************************************************)
DefaultPlan(intent, terminals) ==
    LET target == IF terminals = <<>> THEN "" ELSE terminals[1]
        edits  == CASE intent = "bridge_and_continue" ->
                         << Op("replace_tail", "last_body_section", "smooth_bridge", 1),
                            Insertion(target, "continuation") >>
                    [] intent = "continue_append" -> << Insertion(target, "continuation") >>
                    [] intent = "update_references_only" ->
                         << Op("update_references",
                               IF target = "" THEN "references" ELSE target, "references", 0) >>
                    [] intent = "expand_section" ->
                         << Op("expand_section", "requested_section", "expansion", 0) >>
                    [] intent = "complete_missing_section" ->
                         << Insertion(target, "missing_section") >>
                    [] intent = "revise_in_place" ->
                         << Op("replace_range", "existing_body", "revision", 0) >>
                    [] intent = "restructure" ->
                         << Op("replace_range", "existing_body", "restructured_body", 0) >>
    IN  <<Op("preserve", "existing_body", "", 0)>> \o edits
        \o IF terminals = <<>> THEN <<>> ELSE <<Op("move_terminal_sections_to_end", "", "", 0)>>

-----------------------------------------------------------------------------
LastBody(doc, terminals) ==
    LET body == Chosen(Names(doc), {i \in DOMAIN doc : doc[i].name \notin ToSet(terminals)})
    IN  IF body = <<>> THEN "" ELSE body[Len(body)]

FirstTerminal(terminals, default) == IF terminals = <<>> THEN default ELSE terminals[1]

Resolve(target, doc, terminals) ==
    IF target = "last_body_section" THEN LastBody(doc, terminals)
    ELSE IF target \in {"references", "terminal_sections"} THEN FirstTerminal(terminals, "")
    ELSE IF target \in NameSet(doc) THEN target ELSE ""

(***************************************************************************)
(* validate_merge_operation_targets, against the source document alone.    *)
(***************************************************************************)
TargetIsValid(o, doc, terminals) ==
    LET r == Resolve(o.target, doc, terminals)
        body == r # "" /\ r \notin ToSet(terminals)
    IN  CASE o.op = "preserve" -> o.target \in {"", "existing_body"} \cup NameSet(doc)
          [] o.op = "replace_tail" -> body
          [] o.op = "append_after" -> o.target = "" \/ body
          [] o.op \in {"insert_before", "rename_heading"} -> r # ""
          [] o.op = "expand_section" -> o.target = "requested_section" \/ body
          [] o.op = "replace_range" -> o.target = "existing_body" \/ r # ""
          [] o.op = "update_references" ->
               \/ o.target \in {"", "references", "terminal_sections"}
               \/ r \in ToSet(terminals)
          [] OTHER -> TRUE

RequiredRoles(plan) == {plan[i].role : i \in DOMAIN plan} \ {""}

-----------------------------------------------------------------------------
(***************************************************************************)
(* apply_merge_operations: one operation on the document and the list of   *)
(* terminal names, which update_references may extend on the way.          *)
(***************************************************************************)
Edited(state, o, outputs) ==
    LET doc     == state.doc
        target  == Resolve(o.target, doc, state.terminals)
        content == IF o.role \in DOMAIN outputs THEN outputs[o.role] ELSE <<>>
        at      == CASE o.op = "append_after" /\ target = "" ->
                          IF LastBody(doc, state.terminals) = "" THEN "body"
                          ELSE LastBody(doc, state.terminals)
                     [] o.op = "expand_section" /\ target = "" -> o.role
                     [] o.op = "replace_range" /\ target = "" -> o.target
                     [] o.op = "update_references" /\ target = "" ->
                          FirstTerminal(state.terminals, "references")
                     [] OTHER -> target
    IN  CASE o.op = "replace_tail" /\ target # "" ->
               [state EXCEPT !.doc = Put(doc, at, ReplaceTail(TextOf(doc, at), content, o.count))]
          [] o.op \in {"append_after", "expand_section"} ->
               [state EXCEPT !.doc = Put(doc, at, AppendBlock(TextOf(doc, at), content))]
          [] o.op = "insert_before" ->
               [state EXCEPT !.doc =
                   CASE o.role \in NameSet(doc) ->
                          Put(doc, o.role, AppendBlock(TextOf(doc, o.role), content))
                     [] o.role \notin NameSet(doc) /\ target \in NameSet(doc) ->
                          InsertBefore(doc, target, o.role, content)
                     [] OTHER -> Append(doc, Section(o.role, content))]
          [] o.op = "replace_range" ->
               [state EXCEPT !.doc = IF o.target = "existing_body"
                                     THEN <<Section("body", Strip(content))>>
                                     ELSE Put(doc, at, content)]
          [] o.op = "update_references" ->
               [doc       |-> Put(doc, at, MergeReferences(TextOf(doc, at), content)),
                terminals |-> IF at \in ToSet(state.terminals) THEN state.terminals
                              ELSE Append(state.terminals, at)]
          [] o.op = "move_terminal_sections_to_end" ->
               [state EXCEPT !.doc = Partition(doc, ToSet(state.terminals))]
          [] OTHER -> state          \* preserve, and what is recorded only

Applied(doc, plan, outputs) ==
    LET after[i \in 0..Len(plan)] ==
            IF i = 0 THEN [doc |-> doc, terminals |-> Terminals(doc)]
            ELSE Edited(after[i - 1], plan[i], outputs)
    IN  after[Len(plan)].doc

-----------------------------------------------------------------------------
(***************************************************************************)
(* A patch is a sequence of blocks [first, last, lines].  It is refused    *)
(* when a range is empty, out of bounds or overlaps another; the blocks    *)
(* are applied from the last one up, so that each finds its lines where    *)
(* they were: a block's lines take the place of the first of its range.    *)
(***************************************************************************)
InBounds(text, b) == 1 <= b.first /\ b.first <= b.last /\ b.last <= Len(text)

PatchIsValid(text, blocks) ==
    /\ \A i \in DOMAIN blocks : InBounds(text, blocks[i])
    /\ \A i, j \in DOMAIN blocks :
          i # j => blocks[i].last < blocks[j].first \/ blocks[j].last < blocks[i].first

Patched(text, blocks) ==
    LET over(i) == {b \in ToSet(blocks) : b.first <= i /\ i <= b.last}
        first(i) == {b \in over(i) : b.first = i}
    IN  FlattenSeq([i \in DOMAIN text |->
            IF over(i) = {} THEN <<text[i]>>
            ELSE IF first(i) = {} THEN <<>> ELSE (CHOOSE b \in first(i) : TRUE).lines])
=============================================================================
