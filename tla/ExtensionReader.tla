-------------------------- MODULE ExtensionReader --------------------------
(***************************************************************************)
(* The extension block reader of src/src/extension.c: one behaviour is one *)
(* mcl_wire_extension_reader_init on a block followed by calls to          *)
(* mcl_wire_extension_reader_next, made by a caller who may go on calling  *)
(* after an error.  One action per way out of a call.                      *)
(*                                                                         *)
(* Offsets are those of the code: offset n is the octet block[n + 1].      *)
(***************************************************************************)
EXTENDS Uvarint, SequencesExt

CONSTANT Blocks     \* the blocks a reader may be initialised on

ASSUME BlocksAssumption == Blocks \subseteq Seq(Octet)

VARIABLES block,            \* the octets the reader borrows
          reader,           \* mcl_wire_extension_reader_t, less data and size
          extension,        \* the caller's mcl_wire_extension_t
          has_extension,    \* the caller's flag
          status,           \* what the last call returned
          yielded,          \* history: the extensions handed out, in order
          failed            \* history: some call has returned an error

outputs == <<extension, has_extension>>
vars == <<block, reader, outputs, status, yielded, failed>>

Reader == [offset : Nat, previous_id : Nat, has_previous : BOOLEAN]

\* mcl_wire_extension_reader_init
ReaderInit == [offset |-> 0, previous_id |-> 0, has_previous |-> FALSE]

\* A value is the window of value_size octets at offset value of the block.
Extension == [id : Nat, critical : {0, 1}, value : Nat, value_size : Nat]

\* What the caller's mcl_wire_extension_t holds before any call.
Unwritten == [id |-> 0, critical |-> 0, value |-> 0, value_size |-> 0]

IdOf(key) == key \div 2
CriticalOfUnmasked(key) == key
CriticalOf(key) == key % 2

\* The two uvarints a call reads, and where the value after them starts.
NumberAt    == [at \in 0 .. Len(block) |-> UvarintDecode(block, at)]
Key         == NumberAt[reader.offset]
AfterKey    == reader.offset + Key.used
ValueSize   == NumberAt[AfterKey]
AfterSize   == AfterKey + ValueSize.used

AtEnd      == reader.offset = Len(block)
IdIsNext   == /\ IdOf(Key.value) # 0
              /\ reader.has_previous => IdOf(Key.value) > reader.previous_id
ValueFitsBeforeSize == ValueSize.value <= Len(block) - AfterKey
ValueFits  == ValueSize.value <= Len(block) - AfterSize

-----------------------------------------------------------------------------
FinishKeepingFlag ==
    /\ AtEnd
    /\ status' = "OK"
    /\ UNCHANGED <<block, reader, outputs, yielded, failed>>

\* Everything read: has_extension is cleared.
Finish ==
    /\ AtEnd
    /\ has_extension' = FALSE
    /\ status' = "OK"
    /\ UNCHANGED <<block, reader, extension, yielded, failed>>

FailForgettingPrevious(error, offset) ==
    /\ status' = error
    /\ reader' = [reader EXCEPT !.offset = offset, !.has_previous = FALSE]
    /\ failed' = TRUE
    /\ UNCHANGED <<block, outputs, yielded>>

FailRewinding(error, offset) ==
    /\ status' = error
    /\ reader' = ReaderInit
    /\ failed' = TRUE
    /\ UNCHANGED <<block, outputs, yielded>>

\* An error leaves the caller's outputs alone, but the reader where it got to.
Fail(error, offset) ==
    /\ status' = error
    /\ reader' = [reader EXCEPT !.offset = offset]
    /\ failed' = TRUE
    /\ UNCHANGED <<block, outputs, yielded>>

FailInKey ==
    /\ ~AtEnd
    /\ Key.status # "OK"
    /\ Fail(Key.status, reader.offset)

FailOnId ==
    /\ ~AtEnd
    /\ Key.status = "OK"
    /\ ~IdIsNext
    /\ Fail("NONCANONICAL", AfterKey)

FailInSize ==
    /\ ~AtEnd
    /\ Key.status = "OK" /\ IdIsNext
    /\ ValueSize.status # "OK"
    /\ Fail(ValueSize.status, AfterKey)

FailOnValue ==
    /\ ~AtEnd
    /\ Key.status = "OK" /\ IdIsNext
    /\ ValueSize.status = "OK" /\ ~ValueFits
    /\ Fail("TRUNCATED", AfterSize)

FoundBeforeSize == [id |-> IdOf(Key.value), critical |-> CriticalOf(Key.value),
                    value |-> AfterKey, value_size |-> ValueSize.value]

Found == [id |-> IdOf(Key.value), critical |-> CriticalOf(Key.value),
          value |-> AfterSize, value_size |-> ValueSize.value]

Yield ==
    /\ ~AtEnd
    /\ Key.status = "OK" /\ IdIsNext
    /\ ValueSize.status = "OK" /\ ValueFits
    /\ extension' = Found
    /\ has_extension' = TRUE
    /\ reader' = [offset |-> AfterSize + ValueSize.value,
                  previous_id |-> Found.id, has_previous |-> TRUE]
    /\ yielded' = Append(yielded, Found)
    /\ status' = "OK"
    /\ UNCHANGED <<block, failed>>

\* One call of mcl_wire_extension_reader_next.
Next == Finish \/ FailInKey \/ FailOnId \/ FailInSize \/ FailOnValue \/ Yield

\* A reader that has just been initialised on the given block.
StartOn(octets) ==
    /\ block = octets
    /\ reader = ReaderInit
    /\ extension = Unwritten
    /\ has_extension = FALSE
    /\ status = "OK"
    /\ yielded = <<>>
    /\ failed = FALSE

Init == \E octets \in Blocks : StartOn(octets)

Spec == Init /\ [][Next]_vars

\* A caller that keeps calling, as the scan of decode_ext_accept does.
FairSpec == Spec /\ WF_vars(Next)

-----------------------------------------------------------------------------
\* The types of the reader, of the outputs and of the histories.
TypeOK ==
    /\ block \in Seq(Octet)
    /\ reader \in Reader
    /\ extension \in Extension
    /\ has_extension \in BOOLEAN
    /\ status \in Status
    /\ yielded \in Seq(Extension)
    /\ failed \in BOOLEAN

\* Ids strictly increase over everything one reader hands out, also when the
\* caller went on after an error and the reader resumed inside an element:
\* previous_id survives a failed call (extension.c:417-422, 443-444).
IdsAscend ==
    \A i, j \in DOMAIN yielded : i < j => yielded[i].id < yielded[j].id

\* Every value is a window inside the borrowed block, after the header of its
\* own element and before the next: no two values overlap, none reaches past
\* the block, and the reader stands behind the last (extension.c:433-443).
ValuesInOrder ==
    /\ reader.offset <= Len(block)
    /\ \A i \in DOMAIN yielded :
          yielded[i].value + yielded[i].value_size <=
              (IF i < Len(yielded) THEN yielded[i + 1].value - 2 ELSE reader.offset)

\* The octets the encoder writes for one extension of this block.
Element(e) == UvarintEncode(2 * e.id + e.critical) \o UvarintEncode(e.value_size)
                  \o SubSeq(block, e.value + 1, e.value + e.value_size)

\* While no call has failed, what was handed out accounts for every octet read:
\* encoding it again gives those octets.  A block walked to its end without an
\* error has therefore exactly one reading, and it is the encoder's.
CleanWalkIsCanonical ==
    ~failed => SubSeq(block, 1, reader.offset) =
                   FlattenSeq([i \in DOMAIN yielded |-> Element(yielded[i])])

\* A call that succeeds either reports the end, with has_extension cleared and
\* nothing else touched, or moves at least the two octets of the smallest
\* element; and no call ever moves the reader back (extension.c:402-405, 443).
CallsMoveForward ==
    [][/\ reader'.offset >= reader.offset
       /\ (status' = "OK" /\ has_extension') => reader'.offset >= reader.offset + 2
       /\ (status' = "OK" /\ ~has_extension') => UNCHANGED <<reader, yielded>>]_vars

\* The loop "call until an error or no extension" ends on every block.
WalkEnds == <>(status # "OK" \/ (AtEnd /\ ~has_extension))
=============================================================================
