------------------------ MODULE MCExtensionRegistry ------------------------
(***************************************************************************)
(* A registry of the six ids 0 .. 5 whose ranges are shaped as those of    *)
(* the published one: zero reserved, two policies, a reserved rest.        *)
(***************************************************************************)
EXTENDS ExtensionRegistry

RangeOf(first, last, policy) ==
    [first |-> first, last |-> last, policy |-> policy, detail |-> PlainText]

SmallRanges ==
    <<RangeOf(0, 0, "Reserved"), RangeOf(1, 2, "Standards"), RangeOf(3, 4, "Private"),
      RangeOf(5, 5, "Reserved")>>

SomePolicies == {"Reserved", "Private"}

Word(word) == [word |-> word, marks |-> <<>>]
Marked(marks) == [word |-> "text", marks |-> marks]

\* Details called as keys of each part of the document, and one with brackets.
SomeDetails == {Word("first"), Word("assignments"), Word("total"), Marked(<<Close, Open>>)}

Assignment(id, status, fields) ==
    [id |-> id, status |-> status, fields |-> fields,
     texts |-> [field \in TextFields |-> PlainText]]

All == ToSet(Fields)

\* A whole entry with one text that is not plain.
Saying(id, field, text) == [Assignment(id, "stable", All) EXCEPT !.texts[field] = text]

\* An interval written "[0, 10)", the second half of one, one that is closed.
Interval == Marked(<<Open>>)

\* Whole entries for every id and one beyond, one called as a count of the summary,
\* and entries that lack one field.
PlainAssignments ==
    {Assignment(id, "stable", All) : id \in 0 .. IdMax + 1}
        \cup {Assignment(2, "assigned", All)}
        \cup {Assignment(3, "stable", All \ {field}) : field \in All \ {"id", "status"}}

\* With them names and details that are keys, and brackets of every sort.
SomeAssignments ==
    PlainAssignments
        \cup {Saying(3, "name", Word(word)) : word \in {"total", "id", "status", "first"}}
        \cup {Saying(id, "detail", text) : id \in {2, 5},
                text \in {Word("id"), Interval, Marked(<<Close>>), Marked(<<Open, Close>>)}}

\* Entries of assignments that are whole, for the question whether they pass.
WholeAssignments == {Assignment(id, "stable", All) : id \in 1 .. 2}

PlainDetails == {PlainText}
=============================================================================
