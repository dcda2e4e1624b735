-------------------------- MODULE Tier0CodecProofs --------------------------
(***************************************************************************)
(* Proofs about the fixed codec, for every set of objects, rooms and       *)
(* altered octets.  First what is carried of an object and that the two    *)
(* switches have the published layout, row by row; then the calls.         *)
(***************************************************************************)
EXTENDS Tier0Codec, CodecLemmas

-----------------------------------------------------------------------------
\* The invariant of the sender and the receiver.
Calls ==
    /\ phase \in {"idle", "encoded", "decoded"}
    /\ memory \in [1 .. MemorySize -> Octets]
    /\ encoded.written \in 0 .. 17
    /\ disturbed \in BOOLEAN
    /\ object.kind \in Kind => DOMAIN object.body = Members(object.kind)
    /\ decoded.consumed \in 0 .. 17

\* What stands behind a successful encode call: the object fits, and until the
\* medium alters one the octets of memory are the object's.
SentStands ==
    /\ phase \in {"idle", "encoded"} => object = Nothing
    /\ (phase # "idle" /\ encoded.status = "OK") =>
          /\ sent.object \in Objects /\ AllFit(sent.major, sent.object)
          /\ encoded.written = Required(sent.major, sent.object)
          /\ encoded.written \in 10 .. 17
          /\ ~disturbed => Carries(memory, sent.major, sent.object)

CodecInv ==
    /\ Calls /\ SentStands /\ SentIsReceived /\ DecodedIsCanonical /\ LayoutAsPublished
    /\ EncodeRefusesExactly /\ OnlyAdmissibleObjectsCross

\* The member of a Stable PRESENCE that is not carried, and no other, reads as zero.
LEMMA SentIsCarried ==
    ASSUME NEW major \in {EXPERIMENTAL_MAJOR, STABLE_MAJOR}, NEW o, o.kind \in Kind, WellTyped(o)
    PROVE  Sent(major, o) = Carried(major, o)
  BY SentIs DEF Carried, WithoutClass

-----------------------------------------------------------------------------
\* Field i of a layout as a line of the published table.
Published(layout, i) ==
    [field |-> layout[i].name, offset |-> PositionOf(layout, i), width |-> layout[i].width,
     is_signed |-> layout[i].signed]

\* A row of the table and the layout of the encoder's switch say the same.
RowIs(row, layout, kind) ==
    /\ row.bytes = EncodedSize(kind)
    /\ KindToCode(kind) = [category |-> row.category, opcode |-> row.opcode]
    /\ row.category \in {0, 1, 3, 5, 6, 8} /\ row.opcode \in {0, 1}
    /\ 8 * row.bytes - row.pad_bits = PositionOf(layout, Len(layout) + 1)
    /\ FieldsOfRow(row) = {Published(layout, i) : i \in 1 .. Len(layout)}
RowMatches(kind) == RowIs(k_table[kind], LayoutWritten(EXPERIMENTAL_MAJOR, kind), kind)

LEMMA UnsignedLine ==
    ASSUME NEW s, NEW i, NEW name, NEW w, NEW at, s[i] = Unsigned(name, w), PositionOf(s, i) = at
    PROVE  Published(s, i) = U(name, at, w)
<1>1. s[i].name = name /\ s[i].width = w /\ s[i].signed = FALSE
  BY DEF Unsigned
<1> QED
  BY <1>1 DEF Published, U

LEMMA SignedLine ==
    ASSUME NEW s, NEW i, NEW name, NEW w, NEW at, s[i] = Signed(name, w), PositionOf(s, i) = at
    PROVE  Published(s, i) = S(name, at, w)
<1>1. s[i].name = name /\ s[i].width = w /\ s[i].signed = TRUE
  BY DEF Signed
<1> QED
  BY <1>1 DEF Published, S

LEMMA RowOfPresence == RowMatches("PRESENCE")
<1> DEFINE s == Layout(EXPERIMENTAL_MAJOR, "PRESENCE")
           row == k_table["PRESENCE"]
           rest == {U("machine_class", 48, 8), U("capability_tag", 56, 24),
                    U("ttl", 80, 8)}
<1>1. /\ Len(s) = 4
      /\ s[1] = Unsigned("source_ref", 32) /\ s[2] = Unsigned("machine_class", 8)
      /\ s[3] = Unsigned("capability_tag", 24) /\ s[4] = Unsigned("ttl", 8)
  BY DEF Layout, EXPERIMENTAL_MAJOR, STABLE_MAJOR
<1>2. LayoutWritten(EXPERIMENTAL_MAJOR, "PRESENCE") = s
  BY LayoutIs DEF Kind
<1> HIDE DEF s
<1>3. \A i \in 1 .. 4 : s[i].width \in Nat
  BY <1>1 DEF Unsigned, Signed
<1>4. /\ PositionOf(s, 1) = 16 /\ PositionOf(s, 2) = 48 /\ PositionOf(s, 3) = 56
      /\ PositionOf(s, 4) = 80 /\ PositionOf(s, 5) = 88
  <2>1. /\ PositionOf(s, 1) = 16
        /\ \A i \in 1 .. 4 : PositionOf(s, i + 1) = PositionOf(s, i) + s[i].width
    BY <1>3, PositionSteps
  <2>2. /\ s[1].width = 32 /\ s[2].width = 8 /\ s[3].width = 24 /\ s[4].width = 8
    BY <1>1 DEF Unsigned, Signed
  <2> QED
    BY <2>1, <2>2
<1>5. /\ Published(s, 1) = U("source_ref", 16, 32)
      /\ Published(s, 2) = U("machine_class", 48, 8)
      /\ Published(s, 3) = U("capability_tag", 56, 24)
      /\ Published(s, 4) = U("ttl", 80, 8)
  <2>1. Published(s, 1) = U("source_ref", 16, 32)
    BY <1>1, <1>4, UnsignedLine
  <2>2. Published(s, 2) = U("machine_class", 48, 8)
    BY <1>1, <1>4, UnsignedLine
  <2>3. Published(s, 3) = U("capability_tag", 56, 24)
    BY <1>1, <1>4, UnsignedLine
  <2>4. Published(s, 4) = U("ttl", 80, 8)
    BY <1>1, <1>4, UnsignedLine
  <2> QED
    BY <2>1, <2>2, <2>3, <2>4
<1>6. row = Row(0, 0, 11, 0, rest)
  BY DEF k_table
<1>7. /\ row.category = 0 /\ row.opcode = 0 /\ row.bytes = 11 /\ row.pad_bits = 0
      /\ row.fields = rest
  <2> HIDE DEF row, rest
  <2> QED
    BY <1>6 DEF Row
<1> HIDE DEF row
<1>8. FieldsOfRow(row) = {Published(s, i) : i \in 1 .. Len(s)}
  <2>1. {Published(s, i) : i \in 1 .. Len(s)} =
           {Published(s, 1), Published(s, 2), Published(s, 3), Published(s, 4)}
    BY <1>1
  <2> DEFINE all == {U("source_ref", 16, 32), U("machine_class", 48, 8),
            U("capability_tag", 56, 24), U("ttl", 80, 8)}
  <2>2. {Published(s, i) : i \in 1 .. Len(s)} = all
    BY Zenon, <1>5, <2>1
  <2>3. rest \cup {U("source_ref", 16, 32)} = all
    OBVIOUS
  <2>4. row.fields = rest
    BY Zenon, <1>7
  <2> HIDE DEF rest, all
  <2> QED
    BY Zenon, <2>2, <2>3, <2>4 DEF FieldsOfRow, SourceRef
<1>9. /\ EncodedSize("PRESENCE") = 11 
      /\ KindToCode("PRESENCE") = [category |-> 0, opcode |-> 0]
  BY DEF EncodedSize, KindToCode
<1>10. RowIs(row, s, "PRESENCE")
  BY <1>1, <1>4, <1>7, <1>8, <1>9 DEF RowIs
<1> QED
  BY <1>2, <1>10 DEF RowMatches, row

LEMMA RowOfHazard == RowMatches("HAZARD")
<1> DEFINE s == Layout(EXPERIMENTAL_MAJOR, "HAZARD")
           row == k_table["HAZARD"]
           rest == {U("hazard_class", 48, 8), U("severity", 56, 3),
                    U("confidence", 59, 7), S("x", 66, 12), S("y", 78, 12),
                    S("z", 90, 10), U("radius", 100, 10), U("ttl", 110, 8)}
<1>1. /\ Len(s) = 9
      /\ s[1] = Unsigned("source_ref", 32) /\ s[2] = Unsigned("hazard_class", 8)
      /\ s[3] = Unsigned("severity", 3) /\ s[4] = Unsigned("confidence", 7)
      /\ s[5] = Signed("x", 12) /\ s[6] = Signed("y", 12) /\ s[7] = Signed("z", 10)
      /\ s[8] = Unsigned("radius", 10) /\ s[9] = Unsigned("ttl", 8)
  BY DEF Layout, EXPERIMENTAL_MAJOR, STABLE_MAJOR
<1>2. LayoutWritten(EXPERIMENTAL_MAJOR, "HAZARD") = s
  BY LayoutIs DEF Kind
<1> HIDE DEF s
<1>3. \A i \in 1 .. 9 : s[i].width \in Nat
  BY <1>1 DEF Unsigned, Signed
<1>4. /\ PositionOf(s, 1) = 16 /\ PositionOf(s, 2) = 48 /\ PositionOf(s, 3) = 56
      /\ PositionOf(s, 4) = 59 /\ PositionOf(s, 5) = 66 /\ PositionOf(s, 6) = 78
      /\ PositionOf(s, 7) = 90 /\ PositionOf(s, 8) = 100 /\ PositionOf(s, 9) = 110
      /\ PositionOf(s, 10) = 118
  <2>1. /\ PositionOf(s, 1) = 16
        /\ \A i \in 1 .. 9 : PositionOf(s, i + 1) = PositionOf(s, i) + s[i].width
    BY <1>3, PositionSteps
  <2>2. /\ s[1].width = 32 /\ s[2].width = 8 /\ s[3].width = 3 /\ s[4].width = 7
        /\ s[5].width = 12 /\ s[6].width = 12 /\ s[7].width = 10 /\ s[8].width = 10
        /\ s[9].width = 8
    BY <1>1 DEF Unsigned, Signed
  <2> QED
    BY <2>1, <2>2
<1>5. /\ Published(s, 1) = U("source_ref", 16, 32)
      /\ Published(s, 2) = U("hazard_class", 48, 8)
      /\ Published(s, 3) = U("severity", 56, 3)
      /\ Published(s, 4) = U("confidence", 59, 7)
      /\ Published(s, 5) = S("x", 66, 12)
      /\ Published(s, 6) = S("y", 78, 12)
      /\ Published(s, 7) = S("z", 90, 10)
      /\ Published(s, 8) = U("radius", 100, 10)
      /\ Published(s, 9) = U("ttl", 110, 8)
  <2>1. Published(s, 1) = U("source_ref", 16, 32)
    BY <1>1, <1>4, UnsignedLine
  <2>2. Published(s, 2) = U("hazard_class", 48, 8)
    BY <1>1, <1>4, UnsignedLine
  <2>3. Published(s, 3) = U("severity", 56, 3)
    BY <1>1, <1>4, UnsignedLine
  <2>4. Published(s, 4) = U("confidence", 59, 7)
    BY <1>1, <1>4, UnsignedLine
  <2>5. Published(s, 5) = S("x", 66, 12)
    BY <1>1, <1>4, SignedLine
  <2>6. Published(s, 6) = S("y", 78, 12)
    BY <1>1, <1>4, SignedLine
  <2>7. Published(s, 7) = S("z", 90, 10)
    BY <1>1, <1>4, SignedLine
  <2>8. Published(s, 8) = U("radius", 100, 10)
    BY <1>1, <1>4, UnsignedLine
  <2>9. Published(s, 9) = U("ttl", 110, 8)
    BY <1>1, <1>4, UnsignedLine
  <2> QED
    BY <2>1, <2>2, <2>3, <2>4, <2>5, <2>6, <2>7, <2>8, <2>9
<1>6. row = Row(3, 1, 15, 2, rest)
  BY DEF k_table
<1>7. /\ row.category = 3 /\ row.opcode = 1 /\ row.bytes = 15 /\ row.pad_bits = 2
      /\ row.fields = rest
  <2> HIDE DEF row, rest
  <2> QED
    BY <1>6 DEF Row
<1> HIDE DEF row
<1>8. FieldsOfRow(row) = {Published(s, i) : i \in 1 .. Len(s)}
  <2>1. {Published(s, i) : i \in 1 .. Len(s)} =
           {Published(s, 1), Published(s, 2), Published(s, 3), Published(s, 4),
            Published(s, 5), Published(s, 6), Published(s, 7), Published(s, 8),
            Published(s, 9)}
    BY <1>1
  <2> DEFINE all == {U("source_ref", 16, 32), U("hazard_class", 48, 8), U("severity", 56, 3),
            U("confidence", 59, 7), S("x", 66, 12), S("y", 78, 12), S("z", 90, 10),
            U("radius", 100, 10), U("ttl", 110, 8)}
  <2>2. {Published(s, i) : i \in 1 .. Len(s)} = all
    BY Zenon, <1>5, <2>1
  <2>3. rest \cup {U("source_ref", 16, 32)} = all
    OBVIOUS
  <2>4. row.fields = rest
    BY Zenon, <1>7
  <2> HIDE DEF rest, all
  <2> QED
    BY Zenon, <2>2, <2>3, <2>4 DEF FieldsOfRow, SourceRef
<1>9. /\ EncodedSize("HAZARD") = 15 
      /\ KindToCode("HAZARD") = [category |-> 3, opcode |-> 1]
  BY DEF EncodedSize, KindToCode
<1>10. RowIs(row, s, "HAZARD")
  BY <1>1, <1>4, <1>7, <1>8, <1>9 DEF RowIs
<1> QED
  BY <1>2, <1>10 DEF RowMatches, row

LEMMA RowOfRequest == RowMatches("REQUEST")
<1> DEFINE s == Layout(EXPERIMENTAL_MAJOR, "REQUEST")
           row == k_table["REQUEST"]
           rest == {U("request_class", 48, 8), U("target_ref", 56, 32), S("x", 88, 12),
                    S("y", 100, 12), U("radius", 112, 10), U("ttl", 122, 8)}
<1>1. /\ Len(s) = 7
      /\ s[1] = Unsigned("source_ref", 32) /\ s[2] = Unsigned("request_class", 8)
      /\ s[3] = Unsigned("target_ref", 32) /\ s[4] = Signed("x", 12)
      /\ s[5] = Signed("y", 12) /\ s[6] = Unsigned("radius", 10)
      /\ s[7] = Unsigned("ttl", 8)
  BY DEF Layout, EXPERIMENTAL_MAJOR, STABLE_MAJOR
<1>2. LayoutWritten(EXPERIMENTAL_MAJOR, "REQUEST") = s
  BY LayoutIs DEF Kind
<1> HIDE DEF s
<1>3. \A i \in 1 .. 7 : s[i].width \in Nat
  BY <1>1 DEF Unsigned, Signed
<1>4. /\ PositionOf(s, 1) = 16 /\ PositionOf(s, 2) = 48 /\ PositionOf(s, 3) = 56
      /\ PositionOf(s, 4) = 88 /\ PositionOf(s, 5) = 100 /\ PositionOf(s, 6) = 112
      /\ PositionOf(s, 7) = 122 /\ PositionOf(s, 8) = 130
  <2>1. /\ PositionOf(s, 1) = 16
        /\ \A i \in 1 .. 7 : PositionOf(s, i + 1) = PositionOf(s, i) + s[i].width
    BY <1>3, PositionSteps
  <2>2. /\ s[1].width = 32 /\ s[2].width = 8 /\ s[3].width = 32 /\ s[4].width = 12
        /\ s[5].width = 12 /\ s[6].width = 10 /\ s[7].width = 8
    BY <1>1 DEF Unsigned, Signed
  <2> QED
    BY <2>1, <2>2
<1>5. /\ Published(s, 1) = U("source_ref", 16, 32)
      /\ Published(s, 2) = U("request_class", 48, 8)
      /\ Published(s, 3) = U("target_ref", 56, 32)
      /\ Published(s, 4) = S("x", 88, 12)
      /\ Published(s, 5) = S("y", 100, 12)
      /\ Published(s, 6) = U("radius", 112, 10)
      /\ Published(s, 7) = U("ttl", 122, 8)
  <2>1. Published(s, 1) = U("source_ref", 16, 32)
    BY <1>1, <1>4, UnsignedLine
  <2>2. Published(s, 2) = U("request_class", 48, 8)
    BY <1>1, <1>4, UnsignedLine
  <2>3. Published(s, 3) = U("target_ref", 56, 32)
    BY <1>1, <1>4, UnsignedLine
  <2>4. Published(s, 4) = S("x", 88, 12)
    BY <1>1, <1>4, SignedLine
  <2>5. Published(s, 5) = S("y", 100, 12)
    BY <1>1, <1>4, SignedLine
  <2>6. Published(s, 6) = U("radius", 112, 10)
    BY <1>1, <1>4, UnsignedLine
  <2>7. Published(s, 7) = U("ttl", 122, 8)
    BY <1>1, <1>4, UnsignedLine
  <2> QED
    BY <2>1, <2>2, <2>3, <2>4, <2>5, <2>6, <2>7
<1>6. row = Row(5, 1, 17, 6, rest)
  BY DEF k_table
<1>7. /\ row.category = 5 /\ row.opcode = 1 /\ row.bytes = 17 /\ row.pad_bits = 6
      /\ row.fields = rest
  <2> HIDE DEF row, rest
  <2> QED
    BY <1>6 DEF Row
<1> HIDE DEF row
<1>8. FieldsOfRow(row) = {Published(s, i) : i \in 1 .. Len(s)}
  <2>1. {Published(s, i) : i \in 1 .. Len(s)} =
           {Published(s, 1), Published(s, 2), Published(s, 3), Published(s, 4),
            Published(s, 5), Published(s, 6), Published(s, 7)}
    BY <1>1
  <2> DEFINE all == {U("source_ref", 16, 32), U("request_class", 48, 8), U("target_ref", 56, 32),
            S("x", 88, 12), S("y", 100, 12), U("radius", 112, 10), U("ttl", 122, 8)}
  <2>2. {Published(s, i) : i \in 1 .. Len(s)} = all
    BY Zenon, <1>5, <2>1
  <2>3. rest \cup {U("source_ref", 16, 32)} = all
    OBVIOUS
  <2>4. row.fields = rest
    BY Zenon, <1>7
  <2> HIDE DEF rest, all
  <2> QED
    BY Zenon, <2>2, <2>3, <2>4 DEF FieldsOfRow, SourceRef
<1>9. /\ EncodedSize("REQUEST") = 17 
      /\ KindToCode("REQUEST") = [category |-> 5, opcode |-> 1]
  BY DEF EncodedSize, KindToCode
<1>10. RowIs(row, s, "REQUEST")
  BY <1>1, <1>4, <1>7, <1>8, <1>9 DEF RowIs
<1> QED
  BY <1>2, <1>10 DEF RowMatches, row

LEMMA RowOfAuthorityClaim == RowMatches("AUTHORITY_CLAIM")
<1> DEFINE s == Layout(EXPERIMENTAL_MAJOR, "AUTHORITY_CLAIM")
           row == k_table["AUTHORITY_CLAIM"]
           rest == {U("authority_class", 48, 6), U("jurisdiction", 54, 12),
                    U("credential_ref", 66, 32), U("validity", 98, 8)}
<1>1. /\ Len(s) = 5
      /\ s[1] = Unsigned("source_ref", 32) /\ s[2] = Unsigned("authority_class", 6)
      /\ s[3] = Unsigned("jurisdiction", 12) /\ s[4] = Unsigned("credential_ref", 32)
      /\ s[5] = Unsigned("validity", 8)
  BY DEF Layout, EXPERIMENTAL_MAJOR, STABLE_MAJOR
<1>2. LayoutWritten(EXPERIMENTAL_MAJOR, "AUTHORITY_CLAIM") = s
  BY LayoutIs DEF Kind
<1> HIDE DEF s
<1>3. \A i \in 1 .. 5 : s[i].width \in Nat
  BY <1>1 DEF Unsigned, Signed
<1>4. /\ PositionOf(s, 1) = 16 /\ PositionOf(s, 2) = 48 /\ PositionOf(s, 3) = 54
      /\ PositionOf(s, 4) = 66 /\ PositionOf(s, 5) = 98 /\ PositionOf(s, 6) = 106
  <2>1. /\ PositionOf(s, 1) = 16
        /\ \A i \in 1 .. 5 : PositionOf(s, i + 1) = PositionOf(s, i) + s[i].width
    BY <1>3, PositionSteps
  <2>2. /\ s[1].width = 32 /\ s[2].width = 6 /\ s[3].width = 12 /\ s[4].width = 32
        /\ s[5].width = 8
    BY <1>1 DEF Unsigned, Signed
  <2> QED
    BY <2>1, <2>2
<1>5. /\ Published(s, 1) = U("source_ref", 16, 32)
      /\ Published(s, 2) = U("authority_class", 48, 6)
      /\ Published(s, 3) = U("jurisdiction", 54, 12)
      /\ Published(s, 4) = U("credential_ref", 66, 32)
      /\ Published(s, 5) = U("validity", 98, 8)
  <2>1. Published(s, 1) = U("source_ref", 16, 32)
    BY <1>1, <1>4, UnsignedLine
  <2>2. Published(s, 2) = U("authority_class", 48, 6)
    BY <1>1, <1>4, UnsignedLine
  <2>3. Published(s, 3) = U("jurisdiction", 54, 12)
    BY <1>1, <1>4, UnsignedLine
  <2>4. Published(s, 4) = U("credential_ref", 66, 32)
    BY <1>1, <1>4, UnsignedLine
  <2>5. Published(s, 5) = U("validity", 98, 8)
    BY <1>1, <1>4, UnsignedLine
  <2> QED
    BY <2>1, <2>2, <2>3, <2>4, <2>5
<1>6. row = Row(1, 1, 14, 6, rest)
  BY DEF k_table
<1>7. /\ row.category = 1 /\ row.opcode = 1 /\ row.bytes = 14 /\ row.pad_bits = 6
      /\ row.fields = rest
  <2> HIDE DEF row, rest
  <2> QED
    BY <1>6 DEF Row
<1> HIDE DEF row
<1>8. FieldsOfRow(row) = {Published(s, i) : i \in 1 .. Len(s)}
  <2>1. {Published(s, i) : i \in 1 .. Len(s)} =
           {Published(s, 1), Published(s, 2), Published(s, 3), Published(s, 4),
            Published(s, 5)}
    BY <1>1
  <2> DEFINE all == {U("source_ref", 16, 32), U("authority_class", 48, 6),
            U("jurisdiction", 54, 12), U("credential_ref", 66, 32), U("validity", 98, 8)}
  <2>2. {Published(s, i) : i \in 1 .. Len(s)} = all
    BY Zenon, <1>5, <2>1
  <2>3. rest \cup {U("source_ref", 16, 32)} = all
    OBVIOUS
  <2>4. row.fields = rest
    BY Zenon, <1>7
  <2> HIDE DEF rest, all
  <2> QED
    BY Zenon, <2>2, <2>3, <2>4 DEF FieldsOfRow, SourceRef
<1>9. /\ EncodedSize("AUTHORITY_CLAIM") = 14 
      /\ KindToCode("AUTHORITY_CLAIM") = [category |-> 1, opcode |-> 1]
  BY DEF EncodedSize, KindToCode
<1>10. RowIs(row, s, "AUTHORITY_CLAIM")
  BY <1>1, <1>4, <1>7, <1>8, <1>9 DEF RowIs
<1> QED
  BY <1>2, <1>10 DEF RowMatches, row

LEMMA RowOfDegradedState == RowMatches("DEGRADED_STATE")
<1> DEFINE s == Layout(EXPERIMENTAL_MAJOR, "DEGRADED_STATE")
           row == k_table["DEGRADED_STATE"]
           rest == {U("affected_capability", 48, 8), U("health", 56, 7),
                    U("severity", 63, 3), U("ttl", 66, 8)}
<1>1. /\ Len(s) = 5
      /\ s[1] = Unsigned("source_ref", 32) /\ s[2] = Unsigned("affected_capability", 8)
      /\ s[3] = Unsigned("health", 7) /\ s[4] = Unsigned("severity", 3)
      /\ s[5] = Unsigned("ttl", 8)
  BY DEF Layout, EXPERIMENTAL_MAJOR, STABLE_MAJOR
<1>2. LayoutWritten(EXPERIMENTAL_MAJOR, "DEGRADED_STATE") = s
  BY LayoutIs DEF Kind
<1> HIDE DEF s
<1>3. \A i \in 1 .. 5 : s[i].width \in Nat
  BY <1>1 DEF Unsigned, Signed
<1>4. /\ PositionOf(s, 1) = 16 /\ PositionOf(s, 2) = 48 /\ PositionOf(s, 3) = 56
      /\ PositionOf(s, 4) = 63 /\ PositionOf(s, 5) = 66 /\ PositionOf(s, 6) = 74
  <2>1. /\ PositionOf(s, 1) = 16
        /\ \A i \in 1 .. 5 : PositionOf(s, i + 1) = PositionOf(s, i) + s[i].width
    BY <1>3, PositionSteps
  <2>2. /\ s[1].width = 32 /\ s[2].width = 8 /\ s[3].width = 7 /\ s[4].width = 3
        /\ s[5].width = 8
    BY <1>1 DEF Unsigned, Signed
  <2> QED
    BY <2>1, <2>2
<1>5. /\ Published(s, 1) = U("source_ref", 16, 32)
      /\ Published(s, 2) = U("affected_capability", 48, 8)
      /\ Published(s, 3) = U("health", 56, 7)
      /\ Published(s, 4) = U("severity", 63, 3)
      /\ Published(s, 5) = U("ttl", 66, 8)
  <2>1. Published(s, 1) = U("source_ref", 16, 32)
    BY <1>1, <1>4, UnsignedLine
  <2>2. Published(s, 2) = U("affected_capability", 48, 8)
    BY <1>1, <1>4, UnsignedLine
  <2>3. Published(s, 3) = U("health", 56, 7)
    BY <1>1, <1>4, UnsignedLine
  <2>4. Published(s, 4) = U("severity", 63, 3)
    BY <1>1, <1>4, UnsignedLine
  <2>5. Published(s, 5) = U("ttl", 66, 8)
    BY <1>1, <1>4, UnsignedLine
  <2> QED
    BY <2>1, <2>2, <2>3, <2>4, <2>5
<1>6. row = Row(6, 1, 10, 6, rest)
  BY DEF k_table
<1>7. /\ row.category = 6 /\ row.opcode = 1 /\ row.bytes = 10 /\ row.pad_bits = 6
      /\ row.fields = rest
  <2> HIDE DEF row, rest
  <2> QED
    BY <1>6 DEF Row
<1> HIDE DEF row
<1>8. FieldsOfRow(row) = {Published(s, i) : i \in 1 .. Len(s)}
  <2>1. {Published(s, i) : i \in 1 .. Len(s)} =
           {Published(s, 1), Published(s, 2), Published(s, 3), Published(s, 4),
            Published(s, 5)}
    BY <1>1
  <2> DEFINE all == {U("source_ref", 16, 32), U("affected_capability", 48, 8), U("health", 56, 7),
            U("severity", 63, 3), U("ttl", 66, 8)}
  <2>2. {Published(s, i) : i \in 1 .. Len(s)} = all
    BY Zenon, <1>5, <2>1
  <2>3. rest \cup {U("source_ref", 16, 32)} = all
    OBVIOUS
  <2>4. row.fields = rest
    BY Zenon, <1>7
  <2> HIDE DEF rest, all
  <2> QED
    BY Zenon, <2>2, <2>3, <2>4 DEF FieldsOfRow, SourceRef
<1>9. /\ EncodedSize("DEGRADED_STATE") = 10 
      /\ KindToCode("DEGRADED_STATE") = [category |-> 6, opcode |-> 1]
  BY DEF EncodedSize, KindToCode
<1>10. RowIs(row, s, "DEGRADED_STATE")
  BY <1>1, <1>4, <1>7, <1>8, <1>9 DEF RowIs
<1> QED
  BY <1>2, <1>10 DEF RowMatches, row

LEMMA RowOfTransportOffer == RowMatches("TRANSPORT_OFFER")
<1> DEFINE s == Layout(EXPERIMENTAL_MAJOR, "TRANSPORT_OFFER")
           row == k_table["TRANSPORT_OFFER"]
           rest == {U("migration_ref", 48, 32), U("transport_id", 80, 8),
                    U("profile_id", 88, 8), U("endpoint_token", 96, 32),
                    U("validity", 128, 8)}
<1>1. /\ Len(s) = 6
      /\ s[1] = Unsigned("source_ref", 32) /\ s[2] = Unsigned("migration_ref", 32)
      /\ s[3] = Unsigned("transport_id", 8) /\ s[4] = Unsigned("profile_id", 8)
      /\ s[5] = Unsigned("endpoint_token", 32) /\ s[6] = Unsigned("validity", 8)
  BY DEF Layout, EXPERIMENTAL_MAJOR, STABLE_MAJOR
<1>2. LayoutWritten(EXPERIMENTAL_MAJOR, "TRANSPORT_OFFER") = s
  BY LayoutIs DEF Kind
<1> HIDE DEF s
<1>3. \A i \in 1 .. 6 : s[i].width \in Nat
  BY <1>1 DEF Unsigned, Signed
<1>4. /\ PositionOf(s, 1) = 16 /\ PositionOf(s, 2) = 48 /\ PositionOf(s, 3) = 80
      /\ PositionOf(s, 4) = 88 /\ PositionOf(s, 5) = 96 /\ PositionOf(s, 6) = 128
      /\ PositionOf(s, 7) = 136
  <2>1. /\ PositionOf(s, 1) = 16
        /\ \A i \in 1 .. 6 : PositionOf(s, i + 1) = PositionOf(s, i) + s[i].width
    BY <1>3, PositionSteps
  <2>2. /\ s[1].width = 32 /\ s[2].width = 32 /\ s[3].width = 8 /\ s[4].width = 8
        /\ s[5].width = 32 /\ s[6].width = 8
    BY <1>1 DEF Unsigned, Signed
  <2> QED
    BY <2>1, <2>2
<1>5. /\ Published(s, 1) = U("source_ref", 16, 32)
      /\ Published(s, 2) = U("migration_ref", 48, 32)
      /\ Published(s, 3) = U("transport_id", 80, 8)
      /\ Published(s, 4) = U("profile_id", 88, 8)
      /\ Published(s, 5) = U("endpoint_token", 96, 32)
      /\ Published(s, 6) = U("validity", 128, 8)
  <2>1. Published(s, 1) = U("source_ref", 16, 32)
    BY <1>1, <1>4, UnsignedLine
  <2>2. Published(s, 2) = U("migration_ref", 48, 32)
    BY <1>1, <1>4, UnsignedLine
  <2>3. Published(s, 3) = U("transport_id", 80, 8)
    BY <1>1, <1>4, UnsignedLine
  <2>4. Published(s, 4) = U("profile_id", 88, 8)
    BY <1>1, <1>4, UnsignedLine
  <2>5. Published(s, 5) = U("endpoint_token", 96, 32)
    BY <1>1, <1>4, UnsignedLine
  <2>6. Published(s, 6) = U("validity", 128, 8)
    BY <1>1, <1>4, UnsignedLine
  <2> QED
    BY <2>1, <2>2, <2>3, <2>4, <2>5, <2>6
<1>6. row = Row(8, 0, 17, 0, rest)
  BY DEF k_table
<1>7. /\ row.category = 8 /\ row.opcode = 0 /\ row.bytes = 17 /\ row.pad_bits = 0
      /\ row.fields = rest
  <2> HIDE DEF row, rest
  <2> QED
    BY <1>6 DEF Row
<1> HIDE DEF row
<1>8. FieldsOfRow(row) = {Published(s, i) : i \in 1 .. Len(s)}
  <2>1. {Published(s, i) : i \in 1 .. Len(s)} =
           {Published(s, 1), Published(s, 2), Published(s, 3), Published(s, 4),
            Published(s, 5), Published(s, 6)}
    BY <1>1
  <2> DEFINE all == {U("source_ref", 16, 32), U("migration_ref", 48, 32),
            U("transport_id", 80, 8), U("profile_id", 88, 8),
            U("endpoint_token", 96, 32), U("validity", 128, 8)}
  <2>2. {Published(s, i) : i \in 1 .. Len(s)} = all
    BY Zenon, <1>5, <2>1
  <2>3. rest \cup {U("source_ref", 16, 32)} = all
    OBVIOUS
  <2>4. row.fields = rest
    BY Zenon, <1>7
  <2> HIDE DEF rest, all
  <2> QED
    BY Zenon, <2>2, <2>3, <2>4 DEF FieldsOfRow, SourceRef
<1>9. /\ EncodedSize("TRANSPORT_OFFER") = 17 
      /\ KindToCode("TRANSPORT_OFFER") = [category |-> 8, opcode |-> 0]
  BY DEF EncodedSize, KindToCode
<1>10. RowIs(row, s, "TRANSPORT_OFFER")
  BY <1>1, <1>4, <1>7, <1>8, <1>9 DEF RowIs
<1> QED
  BY <1>2, <1>10 DEF RowMatches, row

LEMMA RowOfTransportAccept == RowMatches("TRANSPORT_ACCEPT")
<1> DEFINE s == Layout(EXPERIMENTAL_MAJOR, "TRANSPORT_ACCEPT")
           row == k_table["TRANSPORT_ACCEPT"]
           rest == {U("migration_ref", 48, 32), U("transport_id", 80, 8),
                    U("profile_id", 88, 8), U("session_ref", 96, 32)}
<1>1. /\ Len(s) = 5
      /\ s[1] = Unsigned("source_ref", 32) /\ s[2] = Unsigned("migration_ref", 32)
      /\ s[3] = Unsigned("transport_id", 8) /\ s[4] = Unsigned("profile_id", 8)
      /\ s[5] = Unsigned("session_ref", 32)
  BY DEF Layout, EXPERIMENTAL_MAJOR, STABLE_MAJOR
<1>2. LayoutWritten(EXPERIMENTAL_MAJOR, "TRANSPORT_ACCEPT") = s
  BY LayoutIs DEF Kind
<1> HIDE DEF s
<1>3. \A i \in 1 .. 5 : s[i].width \in Nat
  BY <1>1 DEF Unsigned, Signed
<1>4. /\ PositionOf(s, 1) = 16 /\ PositionOf(s, 2) = 48 /\ PositionOf(s, 3) = 80
      /\ PositionOf(s, 4) = 88 /\ PositionOf(s, 5) = 96 /\ PositionOf(s, 6) = 128
  <2>1. /\ PositionOf(s, 1) = 16
        /\ \A i \in 1 .. 5 : PositionOf(s, i + 1) = PositionOf(s, i) + s[i].width
    BY <1>3, PositionSteps
  <2>2. /\ s[1].width = 32 /\ s[2].width = 32 /\ s[3].width = 8 /\ s[4].width = 8
        /\ s[5].width = 32
    BY <1>1 DEF Unsigned, Signed
  <2> QED
    BY <2>1, <2>2
<1>5. /\ Published(s, 1) = U("source_ref", 16, 32)
      /\ Published(s, 2) = U("migration_ref", 48, 32)
      /\ Published(s, 3) = U("transport_id", 80, 8)
      /\ Published(s, 4) = U("profile_id", 88, 8)
      /\ Published(s, 5) = U("session_ref", 96, 32)
  <2>1. Published(s, 1) = U("source_ref", 16, 32)
    BY <1>1, <1>4, UnsignedLine
  <2>2. Published(s, 2) = U("migration_ref", 48, 32)
    BY <1>1, <1>4, UnsignedLine
  <2>3. Published(s, 3) = U("transport_id", 80, 8)
    BY <1>1, <1>4, UnsignedLine
  <2>4. Published(s, 4) = U("profile_id", 88, 8)
    BY <1>1, <1>4, UnsignedLine
  <2>5. Published(s, 5) = U("session_ref", 96, 32)
    BY <1>1, <1>4, UnsignedLine
  <2> QED
    BY <2>1, <2>2, <2>3, <2>4, <2>5
<1>6. row = Row(8, 1, 16, 0, rest)
  BY DEF k_table
<1>7. /\ row.category = 8 /\ row.opcode = 1 /\ row.bytes = 16 /\ row.pad_bits = 0
      /\ row.fields = rest
  <2> HIDE DEF row, rest
  <2> QED
    BY <1>6 DEF Row
<1> HIDE DEF row
<1>8. FieldsOfRow(row) = {Published(s, i) : i \in 1 .. Len(s)}
  <2>1. {Published(s, i) : i \in 1 .. Len(s)} =
           {Published(s, 1), Published(s, 2), Published(s, 3), Published(s, 4),
            Published(s, 5)}
    BY <1>1
  <2> DEFINE all == {U("source_ref", 16, 32), U("migration_ref", 48, 32),
            U("transport_id", 80, 8), U("profile_id", 88, 8), U("session_ref", 96, 32)}
  <2>2. {Published(s, i) : i \in 1 .. Len(s)} = all
    BY Zenon, <1>5, <2>1
  <2>3. rest \cup {U("source_ref", 16, 32)} = all
    OBVIOUS
  <2>4. row.fields = rest
    BY Zenon, <1>7
  <2> HIDE DEF rest, all
  <2> QED
    BY Zenon, <2>2, <2>3, <2>4 DEF FieldsOfRow, SourceRef
<1>9. /\ EncodedSize("TRANSPORT_ACCEPT") = 16 
      /\ KindToCode("TRANSPORT_ACCEPT") = [category |-> 8, opcode |-> 1]
  BY DEF EncodedSize, KindToCode
<1>10. RowIs(row, s, "TRANSPORT_ACCEPT")
  BY <1>1, <1>4, <1>7, <1>8, <1>9 DEF RowIs
<1> QED
  BY <1>2, <1>10 DEF RowMatches, row

LEMMA RowOfEach ==
    ASSUME NEW kind \in Kind
    PROVE  RowMatches(kind)
  BY RowOfPresence, RowOfHazard, RowOfRequest, RowOfAuthorityClaim, RowOfDegradedState,
     RowOfTransportOffer, RowOfTransportAccept DEF Kind

-----------------------------------------------------------------------------
\* Fields are read of the same bits alike.
LEMMA SameBitsReadAlike ==
    ASSUME NEW data, NEW other, NEW at \in Nat, NEW field, field.width \in 1 .. 24 \cup {32},
           \A p \in at .. at + field.width - 1 : Bit(other, p) = Bit(data, p)
    PROVE  ReadField(other, at, field) = ReadField(data, at, field)
<1> DEFINE w == field.width
<1>1. ASSUME NEW from \in Nat, NEW n \in Nat, at <= from, from + n <= at + w
      PROVE  ReadU(other, from, n) = ReadU(data, from, n)
  <2>1. w \in Nat
    BY WidthIsNumber
  <2>2. ASSUME NEW i \in 1 .. n PROVE Bit(other, from + i - 1) = Bit(data, from + i - 1)
    <3>1. from + i - 1 \in at .. at + w - 1
      <4> HIDE DEF w
      <4> QED
        BY <1>1, <2>1
    <3> QED
      BY <3>1
  <2>3. [i \in 1 .. n |-> Bit(other, from + i - 1)] = [i \in 1 .. n |-> Bit(data, from + i - 1)]
    BY <2>2
  <2> QED
    BY <2>3 DEF ReadU
<1>2. CASE w = 32
  <2>1. ReadU(other, at, 16) = ReadU(data, at, 16)
    <3>1. 16 \in Nat /\ at <= at /\ at + 16 <= at + w
      BY <1>2
    <3> QED
      BY <1>1, <3>1
  <2>2. ReadU(other, at + 16, 16) = ReadU(data, at + 16, 16)
    <3> DEFINE h == at + 16
    <3>1. 16 \in Nat /\ h \in Nat /\ at <= h /\ h + 16 <= at + w
      BY <1>2
    <3> HIDE DEF h
    <3>2. ReadU(other, h, 16) = ReadU(data, h, 16)
      BY <1>1, <3>1
    <3> QED
      BY <3>2 DEF h
  <2> QED
    BY <1>2, <2>1, <2>2 DEF ReadField
<1>3. CASE w # 32
  <2>1. w \in Nat /\ at <= at /\ at + w <= at + w
    <3>1. w \in Nat
      BY WidthIsNumber
    <3> HIDE DEF w
    <3> QED
      BY <3>1
  <2>2. ReadU(other, at, w) = ReadU(data, at, w)
    <3> HIDE DEF w
    <3> QED
      BY <1>1, <2>1
  <2> QED
    BY <1>3, <2>2 DEF ReadField, ReadS
<1> QED
  BY <1>2, <1>3

\* What the document means by a line of a row is what the decoder reads there.
LEMMA DocumentedIsRead ==
    ASSUME NEW data, NEW layout, NEW i
    PROVE  Documented(data, Published(layout, i)) =
              ReadField(data, PositionOf(layout, i), layout[i])
<1> DEFINE f == Published(layout, i)
           at == PositionOf(layout, i)
<1>1. \A from, width : read_bits(data, from, width) = ReadU(data, from, width)
  BY DEF read_bits, ReadU
<1>2. /\ f.offset = at /\ f.width = layout[i].width /\ f.is_signed = layout[i].signed
  BY DEF Published
<1> HIDE DEF f, at
<1> QED
  BY <1>1, <1>2 DEF Documented, ReadField, ReadS, f, at

\* One bit, read as a number.
LEMMA OneBit ==
    ASSUME NEW data, NEW p \in Nat, Bit(data, p) = 0
    PROVE  read_bits(data, p, 1) = 0
<1>1. 1 \in 1 .. 24 /\ 0 \in Nat /\ 0 < 2^1
  <2>1. 2^1 = 2
    BY Powers DEF Doubles
  <2> QED
    BY <2>1
<1>2. \A i \in 1 .. 1 : Bit(data, p + i - 1) = BitsOf(0, 1)[i]
  <2>1. BitsOf(0, 1)[1] = 0
    BY DEF BitsOf
  <2> QED
    BY <2>1
<1>3. ReadU(data, p, 1) = 0
  BY <1>1, <1>2, ReadBack
<1> QED
  BY <1>3 DEF read_bits, ReadU

\* An object read of some octets is, in any octets with the same bits, where the
\* document says.
LEMMA ReadAsPublished ==
    ASSUME NEW kind \in Kind, NEW o, o.kind = kind, NEW data,
           Reads(o.body, data, EXPERIMENTAL_MAJOR, kind),
           PaddingIsZero(data, EXPERIMENTAL_MAJOR, kind, EncodedSize(kind)), NEW other,
           \A p \in 16 .. 8 * EncodedSize(kind) - 1 : Bit(other, p) = Bit(data, p)
    PROVE  FieldsAsPublished(other, o) /\ PaddingAsPublished(other, k_table[kind])
<1> DEFINE layout == LayoutWritten(EXPERIMENTAL_MAJOR, kind)
           n == Len(layout)
           row == k_table[kind]
           end == PositionOf(layout, n + 1)
           size == EncodedSize(kind)
<1>1. RowIs(row, layout, kind)
  BY RowOfEach DEF RowMatches
<1>2. EncodedSizeAtMajor(EXPERIMENTAL_MAJOR, kind) = size /\ size \in 10 .. 17
  BY DEF EncodedSizeAtMajor, KindAllowedAtMajor, EncodedSize, Kind, EXPERIMENTAL_MAJOR, STABLE_MAJOR
<1>3. /\ n \in Nat /\ DOMAIN layout = 1 .. n
      /\ end \in Nat /\ 16 <= end /\ end <= 8 * size
      /\ \A i \in 1 .. n :
            /\ layout[i].width \in 1 .. 24 \cup {32}
            /\ PositionOf(layout, i) \in Nat /\ 16 <= PositionOf(layout, i)
            /\ PositionOf(layout, i + 1) = PositionOf(layout, i) + layout[i].width
            /\ PositionOf(layout, i + 1) <= end
  <2>1. EncodedSizeAtMajor(EXPERIMENTAL_MAJOR, kind) # 0
    <3> HIDE DEF size
    <3> QED
      BY <1>2
  <2> QED
    BY SMTT(30), <1>2, <2>1, LayoutFacts
<1>4. Members(kind) = {layout[i].name : i \in 1 .. n}
  <2>1. LayoutRead(EXPERIMENTAL_MAJOR, kind) = layout
    BY ReadAsWritten
  <2> HIDE DEF layout, n
  <2> QED
    BY <1>3, <2>1 DEF Members
<1>5. EndOfFields(EXPERIMENTAL_MAJOR, kind) = end
  <2>1. LayoutRead(EXPERIMENTAL_MAJOR, kind) = layout
    BY ReadAsWritten
  <2> QED
    BY <2>1 DEF EndOfFields
<1>6. /\ DOMAIN o.body = Members(kind)
      /\ \A i \in 1 .. n : o.body[layout[i].name] = ReadField(data, PositionOf(layout, i), layout[i])
  BY DEF Reads
<1> HIDE DEF layout, n, end, size
<1>7. ASSUME NEW i \in 1 .. n
      PROVE  o.body[layout[i].name] = Documented(other, Published(layout, i))
  <2> DEFINE at == PositionOf(layout, i)
             w == layout[i].width
  <2>1. w \in Nat /\ at \in Nat /\ 16 <= at /\ at + w <= end /\ end \in Nat /\ end <= 8 * size
        /\ size \in Nat
    <3>1. w \in Nat
      BY Zenon, <1>3, WidthIsNumber
    <3>2. /\ at \in Nat /\ 16 <= at /\ end \in Nat /\ end <= 8 * size /\ size \in Nat
          /\ PositionOf(layout, i + 1) = at + w /\ PositionOf(layout, i + 1) <= end
      <4>1. size \in Nat
        BY <1>2
      <4> QED
        BY Zenon, <1>3, <4>1
    <3> HIDE DEF at, w
    <3> QED
      BY <3>1, <3>2
  <2>2. ASSUME NEW p \in at .. at + w - 1 PROVE Bit(other, p) = Bit(data, p)
    <3> HIDE DEF at, w
    <3>1. p \in 16 .. 8 * size - 1
      BY <2>1
    <3> QED
      BY <3>1 DEF size
  <2>3. ReadField(other, at, layout[i]) = ReadField(data, at, layout[i])
    BY <1>3, <2>1, <2>2, SameBitsReadAlike
  <2> QED
    BY <1>6, <2>3, DocumentedIsRead
<1>8. FieldsAsPublished(other, o)
  <2>1. FieldsOfRow(row) = {Published(layout, i) : i \in 1 .. n}
    BY <1>1 DEF RowIs, n
  <2>2. \A i : Published(layout, i).field = layout[i].name
    BY DEF Published
  <2> HIDE DEF row
  <2>3. \A f \in FieldsOfRow(row) : o.body[f.field] = Documented(other, f)
    BY <1>7, <2>1, <2>2
  <2>4. DOMAIN o.body = {f.field : f \in FieldsOfRow(row)}
    BY <1>4, <1>6, <2>1, <2>2
  <2> QED
    BY <2>3, <2>4 DEF FieldsAsPublished, row
<1>9. PaddingAsPublished(other, row)
  <2>1. 8 * row.bytes - row.pad_bits = end /\ row.bytes = size
    BY <1>1 DEF RowIs, end, n, size
  <2> HIDE DEF row
  <2> SUFFICES ASSUME NEW p \in end .. 8 * size - 1 PROVE read_bits(other, p, 1) = 0
    BY <2>1 DEF PaddingAsPublished
  <2>2. p \in 16 .. 8 * size - 1 /\ p \in Nat
    BY <1>2, <1>3
  <2>3. Bit(data, p) = 0
    BY <1>5 DEF PaddingIsZero, size
  <2>4. Bit(other, p) = 0
    BY <2>2, <2>3 DEF size
  <2> QED
    BY <2>2, <2>4, OneBit
<1> QED
  BY <1>8, <1>9 DEF row

\* The header of an object at the Experimental major, read as the document says.
LEMMA HeaderAsPublished ==
    ASSUME NEW kind \in Kind, NEW o, o.kind = kind, o.priority \in 0 .. 3, NEW data,
           data[1] = HeaderEncode(HeaderOf(EXPERIMENTAL_MAJOR, o))[1],
           data[2] = HeaderEncode(HeaderOf(EXPERIMENTAL_MAJOR, o))[2]
    PROVE  /\ read_bits(data, 4, 4) = k_table[kind].category
           /\ read_bits(data, 8, 5) = k_table[kind].opcode
<1> DEFINE row == k_table[kind]
           c == row.category
           q == row.opcode
           r == o.priority
<1>1. c \in {0, 1, 3, 5, 6, 8} /\ q \in {0, 1} /\ KindToCode(kind) = [category |-> c, opcode |-> q]
  BY RowOfEach DEF RowMatches, RowIs
<1> HIDE DEF c, q
<1>2. /\ HeaderOf(EXPERIMENTAL_MAJOR, o).major_version = 0
      /\ HeaderOf(EXPERIMENTAL_MAJOR, o).category = c
      /\ HeaderOf(EXPERIMENTAL_MAJOR, o).opcode = q
      /\ HeaderOf(EXPERIMENTAL_MAJOR, o).priority = r
      /\ HeaderOf(EXPERIMENTAL_MAJOR, o).extension_present = 0
  BY <1>1 DEF HeaderOf, EXPERIMENTAL_MAJOR
<1>3. data[1] = 0 * 16 + c /\ data[2] = q * 8 + r * 2 + 0
  BY <1>2 DEF HeaderEncode
<1> HIDE DEF r
<1>4. r \in 0 .. 3
  BY DEF r
<1>5. /\ 2^0 = 1 /\ 2^1 = 2 /\ 2^2 = 4 /\ 2^3 = 8 /\ 2^4 = 16 /\ 2^5 = 32 /\ 2^6 = 64
      /\ 2^7 = 128
  BY DEF Doubles
<1>6. ASSUME NEW i \in 1 .. 4 PROVE Bit(data, 4 + i - 1) = BitsOf(c, 4)[i]
  <2>1. i = 1 \/ i = 2 \/ i = 3 \/ i = 4
    OBVIOUS
  <2>2. data[1] = c
    BY <1>1, <1>3
  <2>3. Bit(data, 4 + i - 1) = (c \div 2^(4 - i)) % 2
    <3>1. (4 + i - 1) \div 8 = 0 /\ 7 - ((4 + i - 1) % 8) = 4 - i
      BY <2>1
    <3> QED
      BY <2>2, <3>1 DEF Bit
  <2> QED
    BY <2>3 DEF BitsOf
<1>7. ASSUME NEW i \in 1 .. 5 PROVE Bit(data, 8 + i - 1) = BitsOf(q, 5)[i]
  <2>1. i = 1 \/ i = 2 \/ i = 3 \/ i = 4 \/ i = 5
    OBVIOUS
  <2>2. data[2] = 8 * q + 2 * r
    BY <1>1, <1>3, <1>4
  <2>3. Bit(data, 8 + i - 1) = (data[2] \div 2^(8 - i)) % 2
    <3>1. (8 + i - 1) \div 8 = 1 /\ 7 - ((8 + i - 1) % 8) = 8 - i
      BY <2>1
    <3> QED
      BY <3>1 DEF Bit
  <2>4. ((8 * q + 2 * r) \div 2^(8 - i)) % 2 = (q \div 2^(5 - i)) % 2
    <3>1. CASE i = 1
      BY <1>1, <1>4, <1>5, <3>1
    <3>2. CASE i = 2
      BY <1>1, <1>4, <1>5, <3>2
    <3>3. CASE i = 3
      BY <1>1, <1>4, <1>5, <3>3
    <3>4. CASE i = 4
      BY <1>1, <1>4, <1>5, <3>4
    <3>5. CASE i = 5
      BY <1>1, <1>4, <1>5, <3>5
    <3> QED
      BY <2>1, <3>1, <3>2, <3>3, <3>4, <3>5
  <2> QED
    BY <2>2, <2>3, <2>4 DEF BitsOf
<1>8. ReadU(data, 4, 4) = c
  <2>1. c \in Nat /\ c < 2^4 /\ 4 \in 1 .. 24
    BY <1>1, <1>5
  <2> QED
    BY <1>6, <2>1, ReadBack
<1>9. ReadU(data, 8, 5) = q
  <2>1. q \in Nat /\ q < 2^5 /\ 5 \in 1 .. 24
    BY <1>1, <1>5
  <2> QED
    BY <1>7, <2>1, ReadBack
<1> QED
  BY <1>8, <1>9 DEF read_bits, ReadU, c, q

\* What was decoded of octets at the Experimental major is as published of them, and
\* of any others that begin with them.
LEMMA DecodedIsPublished ==
    ASSUME NEW entry, NEW data, Len(data) \in Nat, NEW old,
           Received(entry, data, old).status = "OK",
           HeaderDecode(data).major_version = EXPERIMENTAL_MAJOR,
           NEW other, \A k \in 1 .. Len(data) : other[k] = data[k]
    PROVE  DecodedAsPublished(other, Received(entry, data, old).object,
                              Received(entry, data, old).consumed)
<1> DEFINE kind == KindIn(data)
           size == RequiredIn(data)
           l == Len(data)
           q == HeaderDecode(data).priority
           o == Received(entry, data, old).object
<1>1. /\ kind \in Kind /\ size \in 10 .. 17 /\ ~(l < size)
      /\ PaddingIsZero(data, EXPERIMENTAL_MAJOR, kind, size)
      /\ o = ReadIn(data) /\ Received(entry, data, old).consumed = size
  BY DecodeFinds
<1>2. /\ size = EncodedSizeAtMajor(EXPERIMENTAL_MAJOR, kind)
      /\ ReadIn(data) = ReadObject(data, EXPERIMENTAL_MAJOR, kind, q, size)
  BY DEF RequiredIn, ReadIn
<1> HIDE DEF kind, size, q
<1>3. size = EncodedSize(kind) /\ k_table[kind].bytes = size
  <2>1. EncodedSizeAtMajor(EXPERIMENTAL_MAJOR, kind) = EncodedSize(kind)
    BY <1>1 DEF EncodedSizeAtMajor, KindAllowedAtMajor, EXPERIMENTAL_MAJOR, STABLE_MAJOR
  <2>2. k_table[kind].bytes = EncodedSize(kind)
    BY <1>1, RowOfEach DEF RowMatches, RowIs
  <2> QED
    BY <1>2, <2>1, <2>2
<1>4. o.kind = kind /\ Reads(o.body, data, EXPERIMENTAL_MAJOR, kind)
  <2> DEFINE read == ReadObject(data, EXPERIMENTAL_MAJOR, kind, q, size)
  <2>1. size # 0
    BY <1>1
  <2>2. /\ read = [kind |-> kind, priority |-> q, body |-> read.body]
        /\ Reads(read.body, data, EXPERIMENTAL_MAJOR, kind)
    BY <1>1, <1>2, <2>1, ObjectReads
  <2>3. o = read
    BY <1>1, <1>2
  <2> HIDE DEF o, read
  <2> QED
    BY <2>2, <2>3
<1>5. ASSUME NEW p \in 16 .. 8 * size - 1 PROVE Bit(other, p) = Bit(data, p)
  <2> DEFINE k == (p \div 8) + 1
  <2>1. k \in 1 .. l
    <3>1. l \in Nat
      OBVIOUS
    <3> HIDE DEF l
    <3> QED
      BY <1>1, <3>1
  <2>2. other[k] = data[k]
    BY <2>1
  <2> QED
    BY <2>2 DEF Bit
<1> HIDE DEF o
<1>6. FieldsAsPublished(other, o) /\ PaddingAsPublished(other, k_table[kind])
  BY <1>1, <1>3, <1>4, <1>5, ReadAsPublished
<1> QED
  BY <1>1, <1>3, <1>4, <1>6 DEF DecodedAsPublished, o

\* And what was encoded there is, since it would be decoded.
LEMMA EncodedIsPublished ==
    ASSUME NEW o, WellTyped(o), AllFit(EXPERIMENTAL_MAJOR, o), o.priority \in Nat,
           Required(EXPERIMENTAL_MAJOR, o) \in 10 .. 17, NEW octets, Len(octets) \in Nat,
           17 <= Len(octets), Carries(octets, EXPERIMENTAL_MAJOR, o)
    PROVE  EncodedAsPublished(octets, o, Required(EXPERIMENTAL_MAJOR, o))
<1> DEFINE required == Required(EXPERIMENTAL_MAJOR, o)
           kind == o.kind
           r == Received("decode_body", octets, Nothing)
           q == o.priority
           l == Len(octets)
<1>1. kind \in Kind
  <2>1. required # 0
    OBVIOUS
  <2>2. KindAllowedAtMajor(EXPERIMENTAL_MAJOR, kind)
    BY <2>1 DEF Required, EncodedSizeAtMajor
  <2> HIDE DEF kind
  <2> QED
    BY <2>2 DEF KindAllowedAtMajor, Kind
<1>2. required = EncodedSize(kind)
  BY <1>1 DEF Required, EncodedSizeAtMajor, KindAllowedAtMajor, EXPERIMENTAL_MAJOR, STABLE_MAJOR
<1>3. r = [status |-> "OK", object |-> Sent(EXPERIMENTAL_MAJOR, o), consumed |-> required]
  <2>1. r = IF l >= required
            THEN [status |-> "OK", object |-> Sent(EXPERIMENTAL_MAJOR, o), consumed |-> required]
            ELSE Undecoded("TRUNCATED", Nothing)
    BY DecodeCarried
  <2>2. l >= required
    <3>1. l \in Nat /\ 17 <= l /\ required \in 10 .. 17
      OBVIOUS
    <3> HIDE DEF l, required
    <3> QED
      BY <3>1
  <2> HIDE DEF r, l, required
  <2> QED
    BY <2>1, <2>2
<1>4. Sent(EXPERIMENTAL_MAJOR, o) = o
  <2>1. Sent(EXPERIMENTAL_MAJOR, o) = Carried(EXPERIMENTAL_MAJOR, o)
    BY <1>1, SentIsCarried
  <2> QED
    BY <2>1 DEF Carried, EXPERIMENTAL_MAJOR, STABLE_MAJOR
<1>5. q \in 0 .. 3
  <2>1. q \in Nat /\ q <= 3
    BY DEF AllFit
  <2> HIDE DEF q
  <2> QED
    BY <2>1
<1>6. /\ octets[1] = HeaderEncode(HeaderOf(EXPERIMENTAL_MAJOR, o))[1]
      /\ octets[2] = HeaderEncode(HeaderOf(EXPERIMENTAL_MAJOR, o))[2]
  BY DEF Carries
<1>7. HeaderDecode(octets).major_version = EXPERIMENTAL_MAJOR
  BY <1>1, <1>5, <1>6, HeaderCarried
<1> HIDE DEF r, required
<1>8. DecodedAsPublished(octets, o, required)
  <2>1. DecodedAsPublished(octets, r.object, r.consumed)
    BY <1>3, <1>7, DecodedIsPublished DEF r
  <2>2. r.object = o /\ r.consumed = required
    BY <1>3, <1>4
  <2> QED
    BY <2>1, <2>2
<1>9. /\ read_bits(octets, 4, 4) = k_table[kind].category
      /\ read_bits(octets, 8, 5) = k_table[kind].opcode
  BY <1>1, <1>5, <1>6, HeaderAsPublished
<1> QED
  BY <1>2, <1>8, <1>9 DEF DecodedAsPublished, EncodedAsPublished, required

-----------------------------------------------------------------------------
LEMMA CodecArguments ==
    /\ \A o \in Objects : o.priority \in Nat
    /\ \A capacity \in Capacities : capacity \in 0 .. MemorySize
    /\ \A octet \in Noise \cup Stale : octet \in Octets
<1>1. \A o \in Objects : o.priority \in 0 .. 255
  BY CodecAssumption
<1>2. \A o \in Objects : o.priority \in Nat
  <2> SUFFICES ASSUME NEW o \in Objects PROVE o.priority \in Nat
    OBVIOUS
  <2>1. o.priority \in 0 .. 255
    BY <1>1
  <2> QED
    BY <2>1
<1> QED
  BY <1>2, CodecAssumption DEF Octets

LEMMA EncodeKeeps ==
    ASSUME CodecInv, NEW major \in Majors, NEW o \in Objects, NEW capacity \in Capacities,
           Encode(major, o, capacity)
    PROVE  CodecInv'
<1> DEFINE r == EncodeAtMajor(major, o, memory, capacity)
<1>1. /\ phase' = "encoded" /\ memory' = r.memory
      /\ sent' = [major |-> major, object |-> o, capacity |-> capacity]
      /\ encoded' = [status |-> r.status, written |-> r.written]
      /\ disturbed' = disturbed /\ object' = object /\ decoded' = decoded
  BY DEF Encode
<1>2. EncodesInto(r, major, o, memory, capacity, MemorySize)
  <2>1. o.priority \in Nat /\ capacity \in 0 .. MemorySize
    BY CodecArguments
  <2>2. MemorySize \in Nat /\ memory \in [1 .. MemorySize -> 0 .. 255]
    BY DEF MemorySize, CodecInv, Calls, Octets
  <2> HIDE DEF r
  <2> QED
    BY <2>1, <2>2, EncodeAtMajorWrites DEF r
<1>3. r.status = CodecAnswer(major, o, capacity)
  BY EncodeAnswers
<1> HIDE DEF r
<1>4. r.memory \in [1 .. MemorySize -> Octets] /\ r.written \in 0 .. 17
  <2>1. r.written \in {0} \cup 10 .. 17
    BY <1>2 DEF EncodesInto
  <2>2. r.memory \in [1 .. MemorySize -> 0 .. 255]
    BY <1>2 DEF EncodesInto
  <2> QED
    BY <2>1, <2>2 DEF Octets
<1>5. Calls'
  BY <1>1, <1>4 DEF CodecInv, Calls
<1>6. EncodeRefusesExactly'
  <2>1. /\ sent'.major = major /\ sent'.object = o /\ sent'.capacity = capacity
        /\ encoded'.status = r.status
    BY <1>1
  <2>2. encoded'.status = CodecAnswer(sent'.major, sent'.object, sent'.capacity)
    BY <1>3, <2>1
  <2> QED
    BY <2>2 DEF EncodeRefusesExactly, CodecAnswer, AllFit, Required
<1>7. OnlyAdmissibleObjectsCross' /\ SentIsReceived' /\ DecodedIsCanonical'
  BY <1>1 DEF OnlyAdmissibleObjectsCross, SentIsReceived, DecodedIsCanonical
<1>8. ASSUME r.status = "OK"
      PROVE  /\ Carries(r.memory, major, o) /\ AllFit(major, o)
             /\ r.written = Required(major, o) /\ r.written \in 10 .. 17
  <2>1. o.priority \in Nat /\ capacity \in 0 .. MemorySize
    BY CodecArguments
  <2>2. MemorySize \in Nat /\ memory \in [1 .. MemorySize -> 0 .. 255]
    BY DEF MemorySize, CodecInv, Calls, Octets
  <2>3. Carries(r.memory, major, o) /\ AllFit(major, o)
    BY <1>8, <2>1, <2>2, EncodeCarries DEF r
  <2> QED
    BY <1>2, <1>8, <2>3 DEF EncodesInto
<1>9. SentStands'
  <2>1. object' = Nothing
    BY <1>1 DEF Encode, CodecInv, SentStands
  <2>2. /\ sent'.major = major /\ sent'.object = o
        /\ encoded'.status = r.status /\ encoded'.written = r.written /\ memory' = r.memory
    BY <1>1
  <2> QED
    BY <1>8, <2>1, <2>2 DEF SentStands
<1>10. LayoutAsPublished'
  <2> SUFFICES ASSUME r.status = "OK", major = EXPERIMENTAL_MAJOR
               PROVE  EncodedAsPublished(r.memory, o, r.written)
    <3>1. phase' # "decoded"
      BY <1>1
    <3> QED
      BY <1>1, <3>1 DEF LayoutAsPublished
  <2> DEFINE octets == r.memory
  <2>1. Len(octets) \in Nat /\ 17 <= Len(octets)
    <3>1. octets \in [1 .. 18 -> Octets] /\ 18 \in Nat
      BY <1>4 DEF MemorySize
    <3> HIDE DEF octets
    <3>2. Len(octets) = 18
      BY ZenonT(30), <3>1, FunctionIsSequence
    <3> QED
      BY <3>2
  <2>2. WellTyped(o) /\ o.priority \in Nat
    BY CodecArguments, CodecAssumption
  <2>3. /\ AllFit(EXPERIMENTAL_MAJOR, o) /\ Carries(octets, EXPERIMENTAL_MAJOR, o)
        /\ r.written = Required(EXPERIMENTAL_MAJOR, o) /\ r.written \in 10 .. 17
    BY <1>8
  <2> HIDE DEF octets
  <2> QED
    BY <2>1, <2>2, <2>3, EncodedIsPublished DEF octets
<1> QED
  BY <1>5, <1>6, <1>7, <1>9, <1>10 DEF CodecInv

LEMMA DisturbKeeps ==
    ASSUME CodecInv, NEW k \in 1 .. MemorySize, NEW octet \in Noise, Disturb(k, octet)
    PROVE  CodecInv'
<1>1. /\ phase = "encoded" /\ phase' = phase /\ sent' = sent /\ encoded' = encoded
      /\ object' = object /\ decoded' = decoded /\ disturbed' = TRUE
      /\ memory' = [memory EXCEPT ![k] = octet]
  BY DEF Disturb
<1>2. memory' \in [1 .. MemorySize -> Octets]
  BY <1>1, CodecArguments DEF CodecInv, Calls
<1>3. Calls'
  BY <1>1, <1>2 DEF CodecInv, Calls
<1>4. EncodeRefusesExactly'
  BY <1>1 DEF CodecInv, EncodeRefusesExactly
<1>5. OnlyAdmissibleObjectsCross' /\ SentIsReceived' /\ DecodedIsCanonical'
  BY <1>1 DEF OnlyAdmissibleObjectsCross, SentIsReceived, DecodedIsCanonical
<1>6. SentStands'
  BY <1>1 DEF CodecInv, SentStands
<1>7. LayoutAsPublished'
  BY <1>1 DEF LayoutAsPublished
<1> QED
  BY <1>3, <1>4, <1>5, <1>6, <1>7 DEF CodecInv

LEMMA ReceiveKeeps ==
    ASSUME CodecInv, NEW entry \in {"decode", "decode_body"}, NEW size \in Sizes,
           Receive(entry, size)
    PROVE  CodecInv'
<1> DEFINE data == SubSeq(memory, 1, size)
           r == Received(entry, data, object)
           major == HeaderDecode(data).major_version
           kind == KindIn(data)
<1>1. /\ phase' = "decoded" /\ object' = r.object
      /\ decoded' = [status |-> r.status, consumed |-> r.consumed,
                     entry |-> entry, size |-> size]
      /\ memory' = memory /\ sent' = sent /\ encoded' = encoded /\ disturbed' = disturbed
      /\ phase = "encoded"
  BY DEF Receive, Received
<1>2. size \in 0 .. MemorySize
  <2>1. encoded.written \in 0 .. 17 /\ size \in Nat
        /\ size \in {0, 1, encoded.written - 1, encoded.written, 18}
    BY DEF CodecInv, Calls, Sizes, MemorySize
  <2> QED
    BY <2>1 DEF MemorySize
<1>3. Len(data) = size /\ \A k \in 1 .. size : data[k] = memory[k]
  <2>1. size \in Nat /\ size <= 18
    BY <1>2 DEF MemorySize
  <2>2. memory \in Seq(Octets) /\ Len(memory) = 18
    <3>1. memory \in [1 .. 18 -> Octets]
      BY DEF CodecInv, Calls, MemorySize
    <3>2. 18 \in Nat
      OBVIOUS
    <3> QED
      BY ZenonT(40), <3>1, <3>2, FunctionIsSequence
  <2>3. data = [k \in 1 .. size |-> memory[k]]
    BY <2>1, <2>2
  <2> HIDE DEF data
  <2> QED
    BY <2>1, <2>3
<1>4. /\ r.object = object \/ (kind \in Kind /\ r.object = ReadIn(data))
      /\ r.consumed \in 0 .. 17
      /\ r.status = "OK" => /\ ~(Len(data) < 2) /\ kind \in Kind
                            /\ RequiredIn(data) # 0 /\ r.object = ReadIn(data)
                            /\ entry = "decode" => HeaderDecode(data).extension_present = 0
  BY DecodeGives
<1> HIDE DEF data, r
<1>5. ReadIn(data).kind = kind /\ DOMAIN ReadIn(data).body = Members(kind)
  BY DEF ReadIn, ReadObject
<1>6. Calls'
  <2>1. object'.kind \in Kind => DOMAIN object'.body = Members(object'.kind)
    BY <1>1, <1>4, <1>5 DEF CodecInv, Calls
  <2>2. decoded'.consumed = r.consumed
    BY <1>1
  <2> QED
    BY <1>1, <1>4, <2>1, <2>2 DEF CodecInv, Calls
<1>7. EncodeRefusesExactly'
  BY <1>1 DEF CodecInv, EncodeRefusesExactly
<1>8. OnlyAdmissibleObjectsCross'
  <2> SUFFICES ASSUME r.status = "OK"
               PROVE  LET header == HeaderDecode(memory)
                      IN  /\ header.major_version \in {EXPERIMENTAL_MAJOR, STABLE_MAJOR}
                          /\ header.major_version = STABLE_MAJOR =>
                               kind \in {"PRESENCE", "TRANSPORT_OFFER", "TRANSPORT_ACCEPT"}
                          /\ entry = "decode" => header.extension_present = 0
    BY <1>1, <1>4, <1>5 DEF OnlyAdmissibleObjectsCross
  <2>1. data[1] = memory[1] /\ data[2] = memory[2]
    <3>1. 1 \in 1 .. size /\ 2 \in 1 .. size
      BY <1>2, <1>3, <1>4
    <3> QED
      BY <1>3, <3>1
  <2>2. HeaderDecode(memory) = HeaderDecode(data)
    BY <2>1 DEF HeaderDecode
  <2>3. KindAllowedAtMajor(major, kind)
    BY <1>4 DEF RequiredIn, EncodedSizeAtMajor
  <2>4. /\ major \in {EXPERIMENTAL_MAJOR, STABLE_MAJOR}
        /\ major = STABLE_MAJOR => kind \in {"PRESENCE", "TRANSPORT_OFFER", "TRANSPORT_ACCEPT"}
    BY <2>3 DEF KindAllowedAtMajor, STABLE_MAJOR, EXPERIMENTAL_MAJOR
  <2> QED
    BY <1>4, <2>2, <2>4
<1>9. SentStands'
  BY <1>1 DEF CodecInv, SentStands
<1>10. SentIsReceived'
  <2> SUFFICES ASSUME ~disturbed
               PROVE  IF size >= encoded.written
                      THEN /\ r.status = "OK" /\ r.object = Carried(sent.major, sent.object)
                           /\ r.consumed = encoded.written
                      ELSE r.status = "TRUNCATED" /\ r.object = Nothing
    BY <1>1 DEF SentIsReceived
  <2> DEFINE asked == sent.major
             o == sent.object
             required == Required(asked, o)
  <2>1. /\ o \in Objects /\ AllFit(asked, o) /\ encoded.written = required
        /\ required \in 10 .. 17 /\ Carries(memory, asked, o) /\ object = Nothing
    BY <1>1 DEF CodecInv, SentStands, Receive
  <2>2. o.priority \in Nat /\ WellTyped(o)
    BY <2>1, CodecArguments, CodecAssumption
  <2>3. o.kind \in Kind /\ asked \in {EXPERIMENTAL_MAJOR, STABLE_MAJOR}
    <3>1. required # 0
      BY <2>1
    <3>2. KindAllowedAtMajor(asked, o.kind)
      BY <3>1 DEF Required, EncodedSizeAtMajor
    <3> HIDE DEF o, asked
    <3> QED
      BY <3>2 DEF KindAllowedAtMajor, Kind
  <2>4. Len(data) \in Nat /\ \A k \in 1 .. Len(data) : data[k] = memory[k]
    BY <1>2, <1>3
  <2> HIDE DEF required, o, asked
  <2>5. r = IF Len(data) >= required
            THEN [status |-> "OK", object |-> Sent(asked, o), consumed |-> required]
            ELSE Undecoded("TRUNCATED", object)
    BY <2>1, <2>2, <2>4, DecodeCarried DEF r, required
  <2>6. Sent(asked, o) = Carried(asked, o)
    BY <2>2, <2>3, SentIsCarried
  <2>7. Len(data) = size
    BY <1>3
  <2> QED
    BY <2>1, <2>5, <2>6, <2>7 DEF Undecoded, o, asked
<1>11. DecodedIsCanonical'
  <2> DEFINE clear == [k \in 1 .. MemorySize |-> 0]
             again == EncodeAtMajor(major, r.object, clear, MemorySize)
             ebit == HeaderDecode(data).extension_present
  <2> SUFFICES ASSUME r.status = "OK"
               PROVE  /\ HeaderDecode(memory) = HeaderDecode(data)
                      /\ again.status = "OK" /\ again.written = r.consumed
                      /\ \A k \in 1 .. r.consumed :
                            memory[k] = again.memory[k] + (IF k = 2 THEN ebit ELSE 0)
    BY <1>1 DEF DecodedIsCanonical
  <2>1. /\ Len(data) \in Nat /\ \A k \in 1 .. Len(data) : data[k] \in 0 .. 255
        /\ \A k \in 1 .. Len(data) : data[k] = memory[k]
    <3> DEFINE l == Len(data)
    <3>1. l \in Nat /\ l <= MemorySize /\ \A k \in 1 .. l : data[k] = memory[k]
      BY <1>2, <1>3
    <3>2. memory \in [1 .. MemorySize -> 0 .. 255] /\ MemorySize \in Nat
      BY DEF CodecInv, Calls, Octets, MemorySize
    <3> HIDE DEF l
    <3>3. \A k \in 1 .. l : k \in 1 .. MemorySize
      BY <3>1, <3>2
    <3>4. \A k \in 1 .. l : data[k] \in 0 .. 255
      BY ZenonT(40), <3>1, <3>2, <3>3
    <3> QED
      BY <3>1, <3>4 DEF l
  <2>2. /\ MemorySize \in Nat /\ MemorySize \in 0 .. MemorySize /\ 17 <= MemorySize
        /\ clear \in [1 .. MemorySize -> 0 .. 255]
    BY DEF MemorySize
  <2> HIDE DEF clear
  <2>3. /\ again.status = "OK" /\ again.written = r.consumed
        /\ r.consumed \in 10 .. 17 /\ r.consumed <= Len(data)
        /\ \A k \in 1 .. r.consumed : data[k] = again.memory[k] + (IF k = 2 THEN ebit ELSE 0)
    <3> DEFINE n == MemorySize
    <3>1. r.status = "OK" /\ n \in Nat /\ n \in 0 .. n /\ 17 <= n /\ clear \in [1 .. n -> 0 .. 255]
      BY <2>2
    <3>2. Len(data) \in Nat /\ \A k \in 1 .. Len(data) : data[k] \in 0 .. 255
      BY <2>1
    <3> HIDE DEF n
    <3>3. EncodesBack(entry, data, object, clear, n)
      BY <3>1, <3>2, DecodedEncodesBack DEF r
    <3> QED
      BY <3>3 DEF EncodesBack, r, n
  <2> HIDE DEF again, ebit
  <2>4. \A k \in 1 .. r.consumed : k \in 1 .. Len(data)
    BY <2>1, <2>3
  <2>5. HeaderDecode(memory) = HeaderDecode(data)
    <3>1. 1 \in 1 .. r.consumed /\ 2 \in 1 .. r.consumed
      BY <2>3
    <3>2. data[1] = memory[1] /\ data[2] = memory[2]
      BY <2>1, <2>4, <3>1
    <3> QED
      BY <3>2 DEF HeaderDecode
  <2> QED
    BY <2>1, <2>3, <2>4, <2>5
<1>12. LayoutAsPublished'
  <2> SUFFICES ASSUME r.status = "OK", HeaderDecode(memory).major_version = EXPERIMENTAL_MAJOR
               PROVE  DecodedAsPublished(memory, r.object, r.consumed)
    <3>1. phase' # "encoded"
      BY <1>1
    <3> QED
      BY <1>1, <3>1 DEF LayoutAsPublished
  <2>1. Len(data) \in Nat /\ \A k \in 1 .. Len(data) : memory[k] = data[k]
    BY <1>2, <1>3
  <2>2. HeaderDecode(data) = HeaderDecode(memory)
    <3>1. 1 \in 1 .. size /\ 2 \in 1 .. size
      BY <1>2, <1>3, <1>4
    <3>2. data[1] = memory[1] /\ data[2] = memory[2]
      BY <1>3, <3>1
    <3> QED
      BY <3>2 DEF HeaderDecode
  <2> QED
    BY <2>1, <2>2, DecodedIsPublished DEF r
<1> QED
  BY <1>6, <1>7, <1>8, <1>9, <1>10, <1>11, <1>12 DEF CodecInv

\* The calls of the sender and of the receiver keep the invariant.
THEOREM CodecInvariant == Spec => []CodecInv
<1>1. Init => CodecInv
  <2> SUFFICES ASSUME Init PROVE CodecInv
    OBVIOUS
  <2>1. memory \in [1 .. MemorySize -> Octets]
    BY CodecArguments DEF Init
  <2>2. object.kind = "none" /\ encoded.written = 0 /\ decoded.consumed = 0
    BY DEF Init, Nothing
  <2>3. "none" \notin Kind /\ 0 \in 0 .. 17
    BY DEF Kind
  <2>4. Calls
    BY <2>1, <2>2, <2>3 DEF Init, Calls
  <2> QED
    BY <2>4 DEF CodecInv, Init, SentStands, SentIsReceived, DecodedIsCanonical,
                LayoutAsPublished, EncodeRefusesExactly, OnlyAdmissibleObjectsCross
<1>2. CodecInv /\ [Next]_vars => CodecInv'
  <2> SUFFICES ASSUME CodecInv, [Next]_vars PROVE CodecInv'
    OBVIOUS
  <2>1. CASE UNCHANGED vars
    BY ZenonT(60), <2>1 DEF vars, CodecInv, Calls, SentStands, SentIsReceived, DecodedIsCanonical,
                LayoutAsPublished, EncodeRefusesExactly, OnlyAdmissibleObjectsCross
  <2>2. CASE \E major \in Majors, o \in Objects, capacity \in Capacities :
                Encode(major, o, capacity)
    BY <2>2, EncodeKeeps
  <2>3. CASE \E k \in 1 .. MemorySize, octet \in Noise : Disturb(k, octet)
    BY <2>3, DisturbKeeps
  <2>4. CASE \E entry \in {"decode", "decode_body"}, size \in Sizes : Receive(entry, size)
    BY <2>4, ReceiveKeeps
  <2> QED
    BY <2>1, <2>2, <2>3, <2>4 DEF Next
<1> QED
  BY <1>1, <1>2, PTL DEF Spec

\* The shapes of memory, results and objects (wire.c:405-527, 584-715).
THEOREM CodecTypes == Spec => []TypeOK
<1>1. CodecInv => TypeOK
  BY DEF CodecInv, Calls, TypeOK
<1> QED
  BY <1>1, CodecInvariant, PTL

\* The encode call blames the first thing that is wrong, and nothing is wrong
\* with what it encodes: its own room check never fires (wire.c:429-435, 329-386).
THEOREM CodecRefusesExactly == Spec => []EncodeRefusesExactly
<1>1. CodecInv => EncodeRefusesExactly
  BY DEF CodecInv
<1> QED
  BY <1>1, CodecInvariant, PTL

\* What is encoded and not altered is decoded as it was: every field crosses the
\* bits, at either major, into memory that held anything (wire.c:447-521, 584-715).
THEOREM CodecSentIsReceived == Spec => []SentIsReceived
<1>1. CodecInv => SentIsReceived
  BY DEF CodecInv
<1> QED
  BY <1>1, CodecInvariant, PTL

\* Whatever octets arrive, the ones a successful decode consumed are what encoding
\* the object again writes, extension bit aside: an object has one encoding
\* (wire.c:134-150, 612-715).
THEOREM CodecDecodedIsCanonical == Spec => []DecodedIsCanonical
<1>1. CodecInv => DecodedIsCanonical
  BY DEF CodecInv
<1> QED
  BY <1>1, CodecInvariant, PTL

\* What is encoded at the Experimental major, and what is decoded there of whatever
\* octets, is the published layout bit for bit (wire.c:447-521, 612-711;
\* tools/validate_tier0_layout.c:69-135, 363-477).
THEOREM CodecLayoutAsPublished == Spec => []LayoutAsPublished
<1>1. CodecInv => LayoutAsPublished
  BY DEF CodecInv
<1> QED
  BY <1>1, CodecInvariant, PTL

\* Only a kind the major carries is ever decoded, whatever octets arrive
\* (wire.c:529-554, 601-610, 731-746).
THEOREM CodecOnlyAdmissibleCross == Spec => []OnlyAdmissibleObjectsCross
<1>1. CodecInv => OnlyAdmissibleObjectsCross
  BY DEF CodecInv
<1> QED
  BY <1>1, CodecInvariant, PTL

\* Encoding stays within the object and the room, and a call refused before it
\* writes leaves every octet as it was (wire.c:430-437).
THEOREM CodecStaysInRoom == Spec => WritesStayInRoom
<1> DEFINE Stays == phase = "idle" =>
              LET required == EncodedSizeAtMajor(sent'.major, sent'.object.kind)
                  room     == IF sent'.capacity < required THEN 0 ELSE required
              IN  \A k \in 1 .. MemorySize : k > room => memory'[k] = memory[k]
<1>1. CodecInv /\ [Next]_vars => [Stays]_vars
  <2> SUFFICES ASSUME CodecInv, Next, phase = "idle" PROVE Stays
    BY DEF vars
  <2>1. PICK major \in Majors, o \in Objects, capacity \in Capacities : Encode(major, o, capacity)
    BY DEF Next, Disturb, Receive
  <2> DEFINE r == EncodeAtMajor(major, o, memory, capacity)
             required == Required(major, o)
  <2>2. EncodesInto(r, major, o, memory, capacity, MemorySize)
    <3>1. o.priority \in Nat /\ capacity \in 0 .. MemorySize
      BY CodecArguments
    <3>2. MemorySize \in Nat /\ memory \in [1 .. MemorySize -> 0 .. 255]
      BY DEF MemorySize, CodecInv, Calls, Octets
    <3> HIDE DEF r
    <3> QED
      BY <3>1, <3>2, EncodeAtMajorWrites DEF r
  <2>3. /\ memory' = r.memory /\ sent'.major = major /\ sent'.object = o
        /\ sent'.capacity = capacity
    BY <2>1 DEF Encode
  <2> HIDE DEF r
  <2>4. /\ capacity < required => r.memory = memory
        /\ \A k \in 1 .. MemorySize : k > required => r.memory[k] = memory[k]
    BY <2>2 DEF EncodesInto
  <2>5. EncodedSizeAtMajor(sent'.major, sent'.object.kind) = required
    BY <2>3 DEF Required
  <2> HIDE DEF required
  <2> QED
    BY <2>3, <2>4, <2>5
<1> QED
  BY <1>1, CodecInvariant, PTL DEF Spec, WritesStayInRoom
=============================================================================
