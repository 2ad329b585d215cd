---------------------------- MODULE DocumentText ----------------------------
(***************************************************************************)
(* The text of a document as the continuation, merge and assembly code of  *)
(* core/ sees it: an ordered dictionary from section names to text.  A     *)
(* text is a sequence of lines.  A line is its key, the wording left when  *)
(* a leading list marker is dropped and case is folded, and its marks: the *)
(* things the patterns of the code find in it, such as <<"src", 2>> for    *)
(* [SRC-002], <<"cite", 3>> for [3], <<"calc", "C1", 5>> for a shown       *)
(* result, <<"ref">> for a line that parses as a reference.                *)
(***************************************************************************)
EXTENDS Naturals, Sequences, SequencesExt

CONSTANTS
    TerminalNames,     \* names continuation.py takes for terminal sections, by a list
    LastNames,         \* names document_assembly.py moves to the end, by a pattern
    ReferenceNames     \* names document_assembly.py takes for references

Blank == [key |-> "", marks |-> {}]

Has(line, kind) == \E m \in line.marks : m[1] = kind
Found(line, kind) == {m \in line.marks : m[1] = kind}

(***************************************************************************)
(* The elements of a sequence at some of its places, in their order.       *)
(***************************************************************************)
Chosen(s, places) ==
    LET upto[k \in 0..Len(s)] ==
            IF k = 0 THEN <<>>
            ELSE IF k \in places THEN Append(upto[k - 1], s[k]) ELSE upto[k - 1]
    IN  upto[Len(s)]

Full(text)  == {i \in DOMAIN text : text[i] # Blank}
Lines(text) == Chosen(text, Full(text))

RStrip(text) ==
    LET full == Full(text) IN Chosen(text, {i \in DOMAIN text : \E b \in full : i <= b})

Strip(text) ==
    LET full == Full(text)
    IN  Chosen(text, {i \in DOMAIN text : \E a, b \in full : a <= i /\ i <= b})

AppendBlock(existing, content) ==
    IF Full(existing) = {} THEN Strip(content)
    ELSE IF Full(content) = {} THEN Strip(existing)
    ELSE RStrip(existing) \o <<Blank>> \o Strip(content)

(***************************************************************************)
(* Paragraphs are the runs of lines between blank lines.  All but the last *)
(* ones are kept, with one blank line between two of them.                 *)
(***************************************************************************)
ReplaceTail(existing, replacement, count) ==
    LET starts == {i \in Full(existing) : i - 1 \notin Full(existing)}
        kept   == {i \in Full(existing) : Cardinality({j \in starts : j > i}) >= count}
        gaps   == {i - 1 : i \in {j \in kept \cap starts : \E k \in kept : k < j}}
    IN  AppendBlock(Chosen(existing, kept \cup gaps), replacement)

(***************************************************************************)
(* The first line of every key.                                            *)
(***************************************************************************)
Dedupe(lines) ==
    Chosen(lines, {i \in DOMAIN lines : \A j \in 1..(i - 1) : lines[j].key # lines[i].key})

Entries(text) == Chosen(text, {i \in Full(text) : ~Has(text[i], "refheading")})

\* Fault: the references there were are not kept.
FaultyMergeReferences(existing, content) == Dedupe(Entries(content))

MergeReferences(existing, content) == Dedupe(Entries(existing \o content))

-----------------------------------------------------------------------------
(***************************************************************************)
(* An ordered dictionary.  Put keeps the place of a name that is there.    *)
(***************************************************************************)
Section(n, t) == [name |-> n, text |-> t]
Names(doc)    == [i \in DOMAIN doc |-> doc[i].name]
NameSet(doc)  == {doc[i].name : i \in DOMAIN doc}
TextOf(doc, n) ==
    IF n \in NameSet(doc)
    THEN doc[CHOOSE i \in DOMAIN doc : doc[i].name = n].text ELSE <<>>

IsSequence(s) == s \in Seq(ToSet(s))

IsDocument(doc) ==
    /\ IsSequence(doc)
    /\ \A i \in DOMAIN doc : doc[i] = Section(doc[i].name, doc[i].text) /\ IsSequence(doc[i].text)
    /\ \A i, j \in DOMAIN doc : doc[i].name = doc[j].name => i = j

Put(doc, n, t) ==
    IF n \in NameSet(doc)
    THEN [i \in DOMAIN doc |-> IF doc[i].name = n THEN Section(n, t) ELSE doc[i]]
    ELSE Append(doc, Section(n, t))

InsertBefore(doc, target, n, t) ==
    LET i == CHOOSE j \in DOMAIN doc : doc[j].name = target
    IN  SubSeq(doc, 1, i - 1) \o <<Section(n, Strip(t))>> \o SubSeq(doc, i, Len(doc))

\* Fault: the terminal sections stay where they are.
FaultyPartition(doc, last) == doc

Partition(doc, last) ==
    LET moved == {i \in DOMAIN doc : doc[i].name \in last}
    IN  Chosen(doc, DOMAIN doc \ moved) \o Chosen(doc, moved)

-----------------------------------------------------------------------------
(***************************************************************************)
(* What extract_document_state keeps of a source document: its sections,   *)
(* the terminal ones, the references found in them and the language.       *)
(***************************************************************************)
IsTerminal(n) == n \in TerminalNames
Terminals(doc) == Chosen(Names(doc), {i \in DOMAIN doc : IsTerminal(doc[i].name)})

Registry(doc) ==
    LET lines == FlattenSeq([i \in DOMAIN doc |-> IF IsTerminal(doc[i].name)
                                                  THEN doc[i].text ELSE <<>>])
    IN  Dedupe(Chosen(lines, {i \in DOMAIN lines : Has(lines[i], "ref")}))

BodyText(doc, terminals) ==
    FlattenSeq([i \in DOMAIN doc |-> IF doc[i].name \in terminals
                                     THEN <<>> ELSE Lines(doc[i].text)])

LanguageHint(lines) ==
    LET ru == Cardinality({i \in DOMAIN lines : <<"ru">> \in lines[i].marks})
    IN  IF lines = <<>> THEN "unknown" ELSE IF 2 * ru > Len(lines) THEN "ru" ELSE "en"

Extract(doc) ==
    [names     |-> NameSet(doc),
     terminals |-> ToSet(Terminals(doc)),
     registry  |-> Registry(doc),
     language  |-> LanguageHint(BodyText(doc, {}))]

(***************************************************************************)
(* assemble_document: body sections in the configured order, the terminal  *)
(* ones after them, all reference sections merged into the first of them.  *)
(***************************************************************************)
Assembled(doc, order) ==
    LET known   == Chosen(order, {i \in DOMAIN order : order[i] \in NameSet(doc)})
        rest    == Chosen(Names(doc), {i \in DOMAIN doc : doc[i].name \notin ToSet(order)})
        listed  == [i \in DOMAIN (known \o rest) |->
                       Section((known \o rest)[i], TextOf(doc, (known \o rest)[i]))]
        ordered == Partition(listed, LastNames)
        refs    == Chosen(ordered, {i \in DOMAIN ordered : ordered[i].name \in ReferenceNames})
        merged  == Dedupe(Lines(FlattenSeq([i \in DOMAIN refs |-> refs[i].text])))
    IN  IF refs = <<>> THEN ordered
        ELSE Chosen(Put(ordered, refs[1].name, merged),
                    {i \in DOMAIN ordered : ordered[i].name \in ReferenceNames =>
                                                ordered[i].name = refs[1].name})
=============================================================================
