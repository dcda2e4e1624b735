------------------------------ MODULE Uvarint ------------------------------
(***************************************************************************)
(* The canonical variable-length integer of src/src/extension.c: most      *)
(* significant group first, one continuation mark per octet, at most five  *)
(* octets, minimal length only.  The module holds operators, no state.     *)
(*                                                                         *)
(* An octet is a number in 0 .. 2*Group-1; octets at or above Group have   *)
(* the continuation bit set.  The code has Group = 128 and WordMax =       *)
(* UINT32_MAX.  Both are parameters so that TLC can also visit every octet *)
(* and every word of a scaled-down codec with the same edge cases.         *)
(*                                                                         *)
(* Here and in the other modules a definition that carries the name of     *)
(* another with a suffix and stands just before it is a mutated form: what *)
(* a plausible slip would make of that code.  PROJECT.json says which      *)
(* property notices each; nothing else refers to them.                     *)
(***************************************************************************)
EXTENDS Naturals, Sequences, FiniteSets

CONSTANTS Group,    \* values of one payload group: 2^7 in the code
          WordMax   \* largest value of the word decoded into: UINT32_MAX

\* The bound written as the literal 5 in the decoder and its byte buffer.
MaxGroups == 5

Octet == 0 .. 2 * Group - 1
Word  == 0 .. WordMax

\* mcl_wire_status_t, less the statuses of null arguments.
Status == {"OK", "BUFFER_TOO_SMALL", "RANGE", "TRUNCATED",
           "UNSUPPORTED_SEMANTIC", "NONCANONICAL"}

More(octet)    == octet >= Group
Payload(octet) == octet % Group

\* `value` after `value >>= 7` has been done k times.
ShiftedOut(value, k) ==
    LET s1 == value \div Group
        s2 == s1 \div Group
        s3 == s2 \div Group
        s4 == s3 \div Group
    IN  CASE k = 0 -> value [] k = 1 -> s1 [] k = 2 -> s2 [] k = 3 -> s3 [] k = 4 -> s4

\* A word takes five groups, the fifth of them only partly: so a five-octet
\* input can be too large, and the decoder needs its range check.
ASSUME UvarintAssumption ==
    /\ Group \in Nat /\ Group > 1
    /\ WordMax \in Nat /\ WordMax >= Group
    /\ (WordMax + 1) % Group = 0
    /\ ShiftedOut(WordMax, MaxGroups - 1) \in 1 .. Group - 1

\* `(acc << 7) | payload` in a word: what leaves at the top is lost.
ShiftedIn(acc, octet) ==
    (acc % ((WordMax + 1) \div Group)) * Group + Payload(octet)

\* As UvarintSize, but not counting the shift that leaves exactly Group.
UvarintSizeShort(value) ==
    1 + Cardinality({k \in 0 .. MaxGroups - 2 : ShiftedOut(value, k) > Group})

\* mcl_uvarint_size: one octet, and one more for every shift that still
\* leaves at least Group.
UvarintSize(value) ==
    1 + Cardinality({k \in 0 .. MaxGroups - 2 : ShiftedOut(value, k) >= Group})

\* The encoder counts on its own: groups are taken until nothing is left.
UvarintGroups(value) ==
    CHOOSE n \in 1 .. MaxGroups :
        /\ ShiftedOut(value, n - 1) \div Group = 0
        /\ \A m \in 1 .. n - 1 : ShiftedOut(value, m - 1) \div Group # 0

\* mcl_wire_uvarint_encode, given the room.
UvarintEncode(value) ==
    LET count == UvarintGroups(value)
    IN  [i \in 1 .. count |->
            (ShiftedOut(value, count - i) % Group) + (IF i < count THEN Group ELSE 0)]

\* `result` after the decoder's loop has taken n octets of data after offset at.
Accumulated(data, at, n) ==
    LET a1 == ShiftedIn(0,  data[at + 1])
        a2 == ShiftedIn(a1, data[at + 2])
        a3 == ShiftedIn(a2, data[at + 3])
        a4 == ShiftedIn(a3, data[at + 4])
        a5 == ShiftedIn(a4, data[at + 5])
    IN  CASE n = 0 -> 0  [] n = 1 -> a1 [] n = 2 -> a2
          [] n = 3 -> a3 [] n = 4 -> a4 [] n = 5 -> a5

\* The iteration i leaves the loop: the word would overflow, or the octet is
\* the last of the number.
OverflowsEarly(data, at, i) == Accumulated(data, at, i - 1) >= WordMax \div Group
Overflows(data, at, i) == Accumulated(data, at, i - 1) > WordMax \div Group
Halts(data, at, i) == Overflows(data, at, i) \/ ~More(data[at + i])

RefusedAsEncoder(status) ==
    [status |-> IF status = "TRUNCATED" THEN "BUFFER_TOO_SMALL" ELSE status,
     value |-> 0, used |-> 0]
Refused(status) == [status |-> status, value |-> 0, used |-> 0]

\* The answer when the loop has run out of octets: five of them are too many
\* whatever follows, fewer may still become a number.
OutOfOctetsLate(size)  == IF size <= MaxGroups THEN "TRUNCATED" ELSE "RANGE"
OutOfOctetsEarly(size) == IF size < MaxGroups - 1 THEN "TRUNCATED" ELSE "RANGE"
OutOfOctets(size)      == IF size < MaxGroups THEN "TRUNCATED" ELSE "RANGE"

\* mcl_wire_uvarint_decode on the octets of data after offset at: the status,
\* and when it is OK the value and the octets used.  A refusal leaves both
\* outputs of the code unwritten; callers return the status at once.
UvarintDecode(data, at) ==
    LET size  == Len(data) - at
        halts == {i \in 1 .. MaxGroups : i <= size /\ Halts(data, at, i)}
        Outcome == [i \in halts |->
            LET value == Accumulated(data, at, i)
            IN  IF Overflows(data, at, i) THEN Refused("RANGE")
                ELSE IF UvarintSize(value) # i THEN Refused("NONCANONICAL")
                ELSE [status |-> "OK", value |-> value, used |-> i]]
    IN  IF halts = {} THEN Refused(OutOfOctets(size))
        ELSE Outcome[CHOOSE i \in halts : \A j \in halts : i <= j]
=============================================================================
