-------------------------- MODULE ExtensionRegistry --------------------------
(***************************************************************************)
(* The registry of extension ids (registries/extension-ids-v0.1.json) and  *)
(* the tool every change to it has to pass,                                *)
(* tools/validate_extension_registry.c, a test of the build.  Maintainers  *)
(* edit a draft one field or entry at a time; what the tool passes may be  *)
(* published.                                                              *)
(*                                                                         *)
(* The tool does not parse: it searches the text for quoted words.  So the *)
(* document is a sequence of tokens here, a position is an index into it,  *)
(* 0 stands for NULL, and every search runs on to the end of the document  *)
(* as strstr and strchr do.  What a text says is told apart as far as the  *)
(* tool can: a text may be one of the words it searches for, and may hold  *)
(* brackets.  A colon in a text changes nothing: a search that stops at a  *)
(* text stops at its closing quote, and the next colon is behind a key.    *)
(***************************************************************************)
EXTENDS Integers, FiniteSets, SequencesExt

CONSTANTS IdMax,            \* MCL_EXTENSION_ID_MAX
          MaxRanges,        \* MAX_RANGES
          MaxAssignments,   \* MAX_ASSIGNMENTS
          FirstRanges,      \* the range table before any edit
          Policies,         \* policies of a range, "Reserved" among them
          Details,          \* texts that a range may be described by
          NewAssignments,   \* assignments [id, status, fields, texts] that may be added
          MaxEdits          \* bound on the edits of one behaviour

Fields == <<"id", "name", "status", "specification", "criticality_guidance", "detail">>
TextFields == {"name", "specification", "criticality_guidance", "detail"}

\* The document's tokens.
Token(kind, text, number) == [kind |-> kind, text |-> text, number |-> number]
Quoted(text) == Token("string", text, 0)
Number(n)    == Token("number", "", n)
Colon == Token("colon", "", 0)
Open  == Token("open", "", 0)
Close == Token("close", "", 0)

\* A text: the word a search finds in it, which is all of it or what stands between an
\* escaped quote and its end, and its brackets.  A policy or a status is a mere word.
IsText(text) == text.word \in STRING /\ text.marks \in Seq({Open, Close})
PlainText == [word |-> "text", marks |-> <<>>]

ASSUME RegistryAssumption ==
    /\ IdMax \in Nat /\ MaxRanges \in Nat /\ MaxAssignments \in Nat /\ MaxEdits \in Nat
    /\ "Reserved" \in Policies
    /\ \A text \in Details : IsText(text)
    /\ \A a \in NewAssignments :
          /\ {"id", "status"} \subseteq a.fields
          /\ \A field \in TextFields : IsText(a.texts[field])

VARIABLES draft,        \* [ranges, assignments, summary] being edited
          published,    \* the last version published
          edits         \* edits so far, recounts not counted

vars == <<draft, published, edits>>

-----------------------------------------------------------------------------
\* The document, in the order of the published file.
Member(key, tokens) == <<Quoted(key), Colon>> \o tokens
Array(key, tokens) == Member(key, <<Open>> \o tokens \o <<Close>>)
Text(text) == Append(text.marks, Quoted(text.word))

RangeEntry(r) ==
    Member("first", <<Number(r.first)>>) \o Member("last", <<Number(r.last)>>)
        \o Member("policy", <<Quoted(r.policy)>>) \o Member("detail", Text(r.detail))

AssignmentEntry(a) ==
    LET ValueOf(field) == CASE field = "id" -> <<Number(a.id)>>
                            [] field = "status" -> <<Quoted(a.status)>>
                            [] OTHER -> Text(a.texts[field])
    IN  FlattenSeq([n \in DOMAIN Fields |->
            IF Fields[n] \in a.fields THEN Member(Fields[n], ValueOf(Fields[n])) ELSE <<>>])

Document(r) ==
    Array("ranges", FlattenSeq([n \in DOMAIN r.ranges |-> RangeEntry(r.ranges[n])]))
    \o Array("assignments",
             FlattenSeq([n \in DOMAIN r.assignments |-> AssignmentEntry(r.assignments[n])]))
    \o Member("assignment_requirements", Array("required", [n \in DOMAIN Fields |-> Quoted(Fields[n])]))
    \o Member("criticality_guidance", Text(PlainText))
    \o Member("no_reuse", Text(PlainText))
    \o Member("summary", Member("assigned", <<Number(r.summary.assigned)>>))
    \o Member("deprecated", <<Number(r.summary.deprecated)>>)
    \o Member("total", <<Number(r.summary.total)>>)

-----------------------------------------------------------------------------
\* The first position from `from` on that satisfies Test, or 0.
FirstFrom(doc, from, Test(_)) ==
    LET found == {i \in from .. Len(doc) : Test(doc[i])}
    IN  IF found = {} THEN 0 ELSE Min(found)

\* strchr
NextOf(doc, from, kind) == FirstFrom(doc, from, LAMBDA t : t.kind = kind)

find_key(doc, from, key) == FirstFrom(doc, from, LAMBDA t : t.kind = "string" /\ t.text = key)

\* The colon behind the key; strtol gives 0 where no number stands.
read_long_after(doc, at, key) ==
    LET k     == find_key(doc, at, key)
        colon == NextOf(doc, k, "colon")
        found == k # 0 /\ colon # 0
    IN  [found |-> found, value |-> IF found THEN doc[colon + 1].number ELSE 0]

read_string_after(doc, at, key) ==
    LET k     == find_key(doc, at, key)
        colon == NextOf(doc, k, "colon")
        open  == NextOf(doc, colon, "string")
        found == k # 0 /\ colon # 0 /\ open # 0
    IN  [found |-> found, value |-> IF found THEN doc[open].text ELSE ""]

\* Opening less closing brackets from begin to end, those within texts counted too.
Depth(doc, begin, end) ==
    Cardinality({i \in begin .. end : doc[i].kind = "open"})
        - Cardinality({i \in begin .. end : doc[i].kind = "close"})

\* The array behind the key, up to where its brackets are closed, if they are.
array_span(doc, key) ==
    LET begin  == NextOf(doc, find_key(doc, 1, key), "open")
        closed == {i \in begin .. Len(doc) : Depth(doc, begin, i) = 0}
    IN  [found |-> closed # {}, begin |-> begin,
         end |-> IF closed = {} THEN 0 ELSE Min(closed)]

\* Where the key stands from first to last, at most `limit` of them.
KeysWithin(doc, key, first, last, limit) ==
    LET all == SetToSortSeq({i \in first .. last : doc[i].kind = "string" /\ doc[i].text = key}, <)
    IN  SubSeq(all, 1, Min({limit, Len(all)}))

-----------------------------------------------------------------------------
\* Where the range entries start that the tool reads, before the assignments.
RangeEntriesRead(doc) ==
    LET start == find_key(doc, 1, "ranges")
    IN  KeysWithin(doc, "first", start, find_key(doc, start, "assignments"), MaxRanges)

\* No entry is without its bounds; a last one is looked for in all that follows.
BoundsFound(doc) ==
    \A n \in DOMAIN RangeEntriesRead(doc) :
        LET entry == RangeEntriesRead(doc)[n]
        IN  read_long_after(doc, entry, "first").found /\ read_long_after(doc, entry, "last").found

RangesRead(doc) ==
    LET entries == RangeEntriesRead(doc)
    IN  [n \in DOMAIN entries |->
            [first  |-> read_long_after(doc, entries[n], "first").value,
             last   |-> read_long_after(doc, entries[n], "last").value,
             policy |-> read_string_after(doc, entries[n], "policy").value]]

SortedByNothing(ranges) == ranges
\* qsort with compare_ranges
Sorted(ranges) == SortSeq(ranges, LAMBDA a, b : a.first < b.first)

FollowsOrOverlaps(range, before) == range.first <= before.last + 1
\* No gap and no overlap.
Follows(range, before) == range.first = before.last + 1

RangesPass(ranges) ==
    /\ ranges # <<>>
    /\ \A n \in DOMAIN ranges : ranges[n].last >= ranges[n].first
    /\ ranges[1].first = 0
    /\ \A n \in 2 .. Len(ranges) : Follows(ranges[n], ranges[n - 1])
    /\ ranges[Len(ranges)].last = IdMax
    /\ \A n \in DOMAIN ranges :
          (ranges[n].first <= 0 /\ ranges[n].last >= 0) => ranges[n].policy = "Reserved"

\* Where the assignments start that the tool reads: none in an array without an end.
EntriesRead(doc) ==
    LET span == array_span(doc, "assignments")
    IN  IF span.found THEN KeysWithin(doc, "id", span.begin, span.end, MaxAssignments) ELSE <<>>

\* The fields the tool asks for, wherever behind the start of the entry they stand.
FieldsFound(doc, entry) ==
    /\ read_string_after(doc, entry, "name").found
    /\ read_string_after(doc, entry, "status").found
    /\ find_key(doc, entry, "specification") # 0
    /\ find_key(doc, entry, "criticality_guidance") # 0

InsideSomeRange(id, ranges) ==
    \E n \in DOMAIN ranges : id \in ranges[n].first .. ranges[n].last

\* The first range around the id is not a reserved one.
InsideAssignableRange(id, ranges) ==
    LET around == {n \in DOMAIN ranges : id \in ranges[n].first .. ranges[n].last}
    IN  around # {} /\ ranges[Min(around)].policy # "Reserved"

AssignmentsPass(doc, ranges) ==
    LET entries == EntriesRead(doc)
        Id(n)   == read_long_after(doc, entries[n], "id").value
    IN  \A n \in DOMAIN entries :
            /\ FieldsFound(doc, entries[n])
            /\ Id(n) \in 1 .. IdMax
            /\ InsideAssignableRange(Id(n), ranges)
            /\ \A m \in n + 1 .. Len(entries) : Id(n) # Id(m)

SummaryPasses(doc) ==
    LET entries == EntriesRead(doc)
        tombstones == {n \in DOMAIN entries :
                          read_string_after(doc, entries[n], "status").value = "deprecated"}
    IN  /\ read_long_after(doc, 1, "assigned").value = Len(entries) - Cardinality(tombstones)
        /\ read_long_after(doc, 1, "deprecated").value = Cardinality(tombstones)
        /\ read_long_after(doc, 1, "total").value = Len(entries)

\* main returns 0.
Passes(doc) ==
    LET ranges == Sorted(RangesRead(doc))
    IN  /\ BoundsFound(doc) /\ RangesPass(ranges)
        /\ AssignmentsPass(doc, ranges)
        /\ SummaryPasses(doc)

-----------------------------------------------------------------------------
Id == 0 .. IdMax

Counts(assignments) ==
    LET tombstones == {n \in DOMAIN assignments : assignments[n].status = "deprecated"}
    IN  [assigned |-> Len(assignments) - Cardinality(tombstones),
         deprecated |-> Cardinality(tombstones),
         total |-> Len(assignments)]

Init ==
    /\ draft = [ranges |-> FirstRanges, assignments |-> <<>>, summary |-> Counts(<<>>)]
    /\ published = draft
    /\ edits = 0

Edit(next) ==
    /\ edits < MaxEdits /\ edits' = edits + 1
    /\ draft' = next /\ UNCHANGED published

\* Edits of the range table: a bound, a policy, a detail, an entry more or less.  Here
\* and in Assign the document stays within what the tool has room to read.
MoveBound ==
    \E n \in DOMAIN draft.ranges, id \in Id :
        \/ Edit([draft EXCEPT !.ranges[n].first = id])
        \/ Edit([draft EXCEPT !.ranges[n].last = id])

ChangePolicy ==
    \E n \in DOMAIN draft.ranges, policy \in Policies :
        Edit([draft EXCEPT !.ranges[n].policy = policy])

Describe ==
    \E n \in DOMAIN draft.ranges, text \in Details :
        Edit([draft EXCEPT !.ranges[n].detail = text])

AddRange ==
    /\ Len(draft.ranges) < MaxRanges
    /\ \E first, last \in Id, policy \in Policies :
          Edit([draft EXCEPT !.ranges =
                    Append(@, [first |-> first, last |-> last, policy |-> policy,
                               detail |-> PlainText])])

RemoveRange ==
    \E n \in DOMAIN draft.ranges : Edit([draft EXCEPT !.ranges = RemoveAt(@, n)])

\* Edits of the assignments: a new one, a tombstone.
Assign ==
    /\ Len(draft.assignments) < MaxAssignments
    /\ \E a \in NewAssignments : Edit([draft EXCEPT !.assignments = Append(@, a)])

Withdraw ==
    \E n \in DOMAIN draft.assignments :
        Edit([draft EXCEPT !.assignments[n].status = "deprecated"])

\* The summary is brought up to date.
Recount ==
    /\ draft' = [draft EXCEPT !.summary = Counts(draft.assignments)]
    /\ UNCHANGED <<published, edits>>

\* The test mcl_wire_extension_registry stands before every publication.
Publish ==
    /\ Passes(Document(draft))
    /\ published' = draft
    /\ UNCHANGED <<draft, edits>>

Next ==
    \/ MoveBound \/ ChangePolicy \/ Describe \/ AddRange \/ RemoveRange
    \/ Assign \/ Withdraw \/ Recount \/ Publish

Spec == Init /\ [][Next]_vars

-----------------------------------------------------------------------------
\* What the registry promises, said of its content and without a scanner.
RangesAround(registry, id) ==
    {n \in DOMAIN registry.ranges : id \in registry.ranges[n].first .. registry.ranges[n].last}

IsPartition(registry) ==
    /\ \A id \in Id : Cardinality(RangesAround(registry, id)) = 1
    /\ \A n \in DOMAIN registry.ranges :
          /\ registry.ranges[n].first \in Id /\ registry.ranges[n].last \in Id
          /\ registry.ranges[n].first <= registry.ranges[n].last
    /\ \A n \in RangesAround(registry, 0) : registry.ranges[n].policy = "Reserved"

AreAssignable(registry) ==
    /\ \A n \in DOMAIN registry.assignments :
          LET a == registry.assignments[n]
          IN  /\ a.id \in 1 .. IdMax
              /\ \A k \in RangesAround(registry, a.id) : registry.ranges[k].policy # "Reserved"
              /\ \A m \in DOMAIN registry.assignments :
                    registry.assignments[m].id = a.id => m = n

AreCounted(registry) == registry.summary = Counts(registry.assignments)

AreComplete(registry) ==
    \A n \in DOMAIN registry.assignments : registry.assignments[n].fields = ToSet(Fields)

KeepsEveryPromise(registry) ==
    /\ IsPartition(registry) /\ AreAssignable(registry)
    /\ AreCounted(registry) /\ AreComplete(registry)

\* The words a range entry or an assignment holds as values.
RangeWords(registry) ==
    UNION {{registry.ranges[n].policy, registry.ranges[n].detail.word} : n \in DOMAIN registry.ranges}

TextsOf(a) == {a.texts[field] : field \in a.fields \cap TextFields}

AssignmentWords(registry) ==
    UNION {{a.status} \cup {text.word : text \in TextsOf(a)} : a \in ToSet(registry.assignments)}

BracketsClose(marks) ==
    /\ \A n \in DOMAIN marks : Depth(marks, 1, n) >= 0
    /\ Depth(marks, 1, Len(marks)) = 0

\* What the texts must not say for the searches to find the ranges, the assignments
\* and the counts of the summary where they stand, each once.
RangesAreSeen(registry) == {"first", "assignments"} \cap RangeWords(registry) = {}

AssignmentsAreSeen(registry) ==
    /\ "id" \notin AssignmentWords(registry)
    /\ \A a \in ToSet(registry.assignments) : \A text \in TextsOf(a) : BracketsClose(text.marks)

CountsAreSeen(registry) ==
    {"assigned", "deprecated", "total"}
        \cap (RangeWords(registry) \cup AssignmentWords(registry)) = {}

\* Whatever was edited in whatever order, every id has exactly one policy in what is
\* published, no range reaches outside the key, and zero is reserved
\* (validate_extension_registry.c:11-19, 215-299), provided no text of a range is taken
\* for the end of the table or for the start of an entry.
PublishedIsPartition == RangesAreSeen(published) => IsPartition(published)

\* Published ids are unique, encodable and of a policy under which ids are assigned, if
\* the tool saw them, and counted right in the summary, if it saw that
\* (validate_extension_registry.c:20-25, 301-400).
PublishedIdsAreAssignable ==
    RangesAreSeen(published) /\ AssignmentsAreSeen(published) =>
        /\ AreAssignable(published)
        /\ CountsAreSeen(published) => AreCounted(published)

\* A draft that keeps every promise passes, in whatever order its ranges stand and
\* although searches run on over the whole document, unless one of its texts is taken
\* for a key or holds brackets that do not close
\* (validate_extension_registry.c:86-106, 161-173, 380-382).
SoundDraftsPass ==
    (/\ KeepsEveryPromise(draft)
     /\ RangesAreSeen(draft) /\ AssignmentsAreSeen(draft) /\ CountsAreSeen(draft))
        => Passes(Document(draft))

-----------------------------------------------------------------------------
\* registries/extension-ids-v0.1.json, assignment_requirements: "Every entry in
\* `assignments` must carry these fields. Enforced by
\* tools/validate_extension_registry.c rather than by review alone."
PublishedEntriesAreComplete == AreComplete(published)

\* registries/extension-ids-v0.1.json, no_reuse: "A withdrawn assignment leaves a
\* tombstone with status `deprecated`": so a registry with one can be published.
TombstonesPass == KeepsEveryPromise(draft) => Passes(Document(draft))
=============================================================================
