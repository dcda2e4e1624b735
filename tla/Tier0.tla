------------------------------- MODULE Tier0 -------------------------------
(***************************************************************************)
(* The fixed Tier-0 objects of src/src/wire.c: the common header, the      *)
(* tables that tie kinds to wire codes, sizes and majors, and the bit      *)
(* layout of each body.  Operators only; memory is a sequence of octets    *)
(* and bit position p is bit 7 - p%8 of octet p \div 8, as in the code.    *)
(*                                                                         *)
(* A 32-bit reference is the pair of its halves <<high, low>>, so that     *)
(* every number stays within TLC's integers; nothing is ever computed from *)
(* a reference.                                                            *)
(***************************************************************************)
EXTENDS Integers, FiniteSets, SequencesExt

Kind == {"PRESENCE", "HAZARD", "REQUEST", "AUTHORITY_CLAIM", "DEGRADED_STATE",
         "TRANSPORT_OFFER", "TRANSPORT_ACCEPT"}

EXPERIMENTAL_MAJOR == 0
STABLE_MAJOR == 1
COMMON_HEADER_SIZE == 2

-----------------------------------------------------------------------------
HeaderFitsLoose(h) ==
    /\ h.major_version <= 15 /\ h.category <= 15 /\ h.opcode <= 31
    /\ h.priority <= 7 /\ h.extension_present <= 1

\* mcl_wire_header_encode: every field has to fit, then two octets.
HeaderFits(h) ==
    /\ h.major_version <= 15 /\ h.category <= 15 /\ h.opcode <= 31
    /\ h.priority <= 3 /\ h.extension_present <= 1

HeaderEncode(h) ==
    <<h.major_version * 16 + h.category,
      h.opcode * 8 + h.priority * 2 + h.extension_present>>

\* mcl_wire_header_decode: total on two octets.
HeaderDecode(data) ==
    [major_version |-> data[1] \div 16,
     category |-> data[1] % 16,
     opcode |-> data[2] \div 8,
     priority |-> (data[2] \div 2) % 4,
     extension_present |-> data[2] % 2]

\* mcl_kind_to_code, the encoder's table.
KindToCode(kind) ==
    CASE kind = "PRESENCE"         -> [category |-> 0, opcode |-> 0]
      [] kind = "HAZARD"           -> [category |-> 3, opcode |-> 1]
      [] kind = "REQUEST"          -> [category |-> 5, opcode |-> 1]
      [] kind = "AUTHORITY_CLAIM"  -> [category |-> 1, opcode |-> 1]
      [] kind = "DEGRADED_STATE"   -> [category |-> 6, opcode |-> 1]
      [] kind = "TRANSPORT_OFFER"  -> [category |-> 8, opcode |-> 0]
      [] kind = "TRANSPORT_ACCEPT" -> [category |-> 8, opcode |-> 1]

\* mcl_code_to_kind, the decoder's table, kept separately as in the code.
CodeToKind(category, opcode) ==
    CASE category = 0 /\ opcode = 0 -> "PRESENCE"
      [] category = 3 /\ opcode = 1 -> "HAZARD"
      [] category = 5 /\ opcode = 1 -> "REQUEST"
      [] category = 1 /\ opcode = 1 -> "AUTHORITY_CLAIM"
      [] category = 6 /\ opcode = 1 -> "DEGRADED_STATE"
      [] category = 8 /\ opcode = 0 -> "TRANSPORT_OFFER"
      [] category = 8 /\ opcode = 1 -> "TRANSPORT_ACCEPT"
      [] OTHER -> "unassigned"

KindAllowedAtAnyMajor(major, kind) ==
    major \in {EXPERIMENTAL_MAJOR, STABLE_MAJOR} /\ kind \in Kind

\* mcl_wire_kind_allowed_at_major
KindAllowedAtMajor(major, kind) ==
    \/ major = EXPERIMENTAL_MAJOR /\ kind \in Kind
    \/ major = STABLE_MAJOR /\ kind \in {"PRESENCE", "TRANSPORT_OFFER", "TRANSPORT_ACCEPT"}

\* mcl_wire_tier0_encoded_size
EncodedSize(kind) ==
    CASE kind = "PRESENCE" -> 11
      [] kind = "HAZARD" -> 15
      [] kind = "REQUEST" -> 17
      [] kind = "AUTHORITY_CLAIM" -> 14
      [] kind = "DEGRADED_STATE" -> 10
      [] kind = "TRANSPORT_OFFER" -> 17
      [] kind = "TRANSPORT_ACCEPT" -> 16

EncodedSizeAtMajorRoundedTwice(major, kind) ==
    IF ~KindAllowedAtMajor(major, kind) THEN 0 ELSE EncodedSize(kind) + 1

\* mcl_wire_tier0_encoded_size_at_major: 0 when the major does not carry it.
EncodedSizeAtMajor(major, kind) ==
    IF ~KindAllowedAtMajor(major, kind) THEN 0
    ELSE IF major = STABLE_MAJOR /\ kind = "PRESENCE" THEN 10
    ELSE EncodedSize(kind)

-----------------------------------------------------------------------------
Unsigned(name, width) == [name |-> name, width |-> width, signed |-> FALSE]
Signed(name, width)   == [name |-> name, width |-> width, signed |-> TRUE]

\* The fields of a body in wire order, with their widths in bits: the calls of
\* mcl_write_u and mcl_write_s in the encoder's switch.
LayoutWritten(major, kind) ==
    <<Unsigned("source_ref", 32)>> \o
    CASE kind = "PRESENCE" ->
           (IF major = STABLE_MAJOR THEN <<>> ELSE <<Unsigned("machine_class", 8)>>)
               \o <<Unsigned("capability_tag", 24), Unsigned("ttl", 8)>>
      [] kind = "HAZARD" ->
           <<Unsigned("hazard_class", 8), Unsigned("severity", 3), Unsigned("confidence", 7),
             Signed("x", 12), Signed("y", 12), Signed("z", 10),
             Unsigned("radius", 10), Unsigned("ttl", 8)>>
      [] kind = "REQUEST" ->
           <<Unsigned("request_class", 8), Unsigned("target_ref", 32),
             Signed("x", 12), Signed("y", 12), Unsigned("radius", 10), Unsigned("ttl", 8)>>
      [] kind = "AUTHORITY_CLAIM" ->
           <<Unsigned("authority_class", 6), Unsigned("jurisdiction", 12),
             Unsigned("credential_ref", 32), Unsigned("validity", 8)>>
      [] kind = "DEGRADED_STATE" ->
           <<Unsigned("affected_capability", 8), Unsigned("health", 7),
             Unsigned("severity", 3), Unsigned("ttl", 8)>>
      [] kind = "TRANSPORT_OFFER" ->
           <<Unsigned("migration_ref", 32), Unsigned("transport_id", 8),
             Unsigned("profile_id", 8), Unsigned("endpoint_token", 32),
             Unsigned("validity", 8)>>
      [] kind = "TRANSPORT_ACCEPT" ->
           <<Unsigned("migration_ref", 32), Unsigned("transport_id", 8),
             Unsigned("profile_id", 8), Unsigned("session_ref", 32)>>

LayoutReadSwapped(major, kind) ==
    LET layout == LayoutWritten(major, kind)
    IN  IF kind = "TRANSPORT_OFFER" THEN [layout EXCEPT ![3] = layout[4], ![4] = layout[3]]
        ELSE layout

\* The decoder's switch spells the layout out a second time, with mcl_read_u and
\* mcl_read_s, so it is written out a second time here.
LayoutRead(major, kind) ==
    <<Unsigned("source_ref", 32)>> \o
    CASE kind = "PRESENCE" ->
           (IF major = STABLE_MAJOR THEN <<>> ELSE <<Unsigned("machine_class", 8)>>)
               \o <<Unsigned("capability_tag", 24), Unsigned("ttl", 8)>>
      [] kind = "HAZARD" ->
           <<Unsigned("hazard_class", 8), Unsigned("severity", 3), Unsigned("confidence", 7),
             Signed("x", 12), Signed("y", 12), Signed("z", 10),
             Unsigned("radius", 10), Unsigned("ttl", 8)>>
      [] kind = "REQUEST" ->
           <<Unsigned("request_class", 8), Unsigned("target_ref", 32),
             Signed("x", 12), Signed("y", 12), Unsigned("radius", 10), Unsigned("ttl", 8)>>
      [] kind = "AUTHORITY_CLAIM" ->
           <<Unsigned("authority_class", 6), Unsigned("jurisdiction", 12),
             Unsigned("credential_ref", 32), Unsigned("validity", 8)>>
      [] kind = "DEGRADED_STATE" ->
           <<Unsigned("affected_capability", 8), Unsigned("health", 7),
             Unsigned("severity", 3), Unsigned("ttl", 8)>>
      [] kind = "TRANSPORT_OFFER" ->
           <<Unsigned("migration_ref", 32), Unsigned("transport_id", 8),
             Unsigned("profile_id", 8), Unsigned("endpoint_token", 32),
             Unsigned("validity", 8)>>
      [] kind = "TRANSPORT_ACCEPT" ->
           <<Unsigned("migration_ref", 32), Unsigned("transport_id", 8),
             Unsigned("profile_id", 8), Unsigned("session_ref", 32)>>

-----------------------------------------------------------------------------
Bit(data, position) == (data[(position \div 8) + 1] \div 2^(7 - (position % 8))) % 2

\* The most significant bit first.
NumberOf(bits) ==
    LET result[i \in 0 .. Len(bits)] == IF i = 0 THEN 0 ELSE 2 * result[i - 1] + bits[i]
    IN  result[Len(bits)]
BitsOf(value, width) == [i \in 1 .. width |-> (value \div 2^(width - i)) % 2]

\* mcl_read_u, for a width below 32.
ReadU(data, position, width) ==
    NumberOf([i \in 1 .. width |-> Bit(data, position + i - 1)])

ReadSUnextended(data, position, width) == ReadU(data, position, width)

\* mcl_read_s: two's complement in `width` bits.
ReadS(data, position, width) ==
    LET encoded == ReadU(data, position, width)
    IN  IF encoded >= 2^(width - 1) THEN encoded - 2^width ELSE encoded

ReadField(data, position, field) ==
    IF field.width = 32 THEN <<ReadU(data, position, 16), ReadU(data, position + 16, 16)>>
    ELSE IF field.signed THEN ReadS(data, position, field.width)
    ELSE ReadU(data, position, field.width)

\* The range checks of mcl_write_u and mcl_write_s.
Fits(value, field) ==
    IF field.width = 32 THEN TRUE
    ELSE IF field.signed
         THEN value \in -(2^(field.width - 1)) .. 2^(field.width - 1) - 1
         ELSE value < 2^field.width

\* The bits the two writers append for a value that fits.
FieldBits(value, field) ==
    IF field.width = 32 THEN BitsOf(value[1], 16) \o BitsOf(value[2], 16)
    ELSE IF value < 0 THEN BitsOf(2^field.width + value, field.width)
    ELSE BitsOf(value, field.width)

\* The body of mcl_write_u's loop: bits are or-ed into what the memory holds.
OrBits(memory, position, bits) ==
    LET New(p) == IF p \in position .. position + Len(bits) - 1
                  THEN bits[p - position + 1] ELSE 0
        Old(p) == Bit(memory, p)
    IN  [k \in DOMAIN memory |->
            NumberOf([b \in 1 .. 8 |->
                LET p == 8 * (k - 1) + b - 1
                IN  IF Old(p) = 1 \/ New(p) = 1 THEN 1 ELSE 0])]

\* Where field i of a layout starts: behind the header and the fields before it.
PositionOf(layout, i) ==
    LET position[n \in 1 .. i] ==
            IF n = 1 THEN 8 * COMMON_HEADER_SIZE ELSE position[n - 1] + layout[n - 1].width
    IN  position[i]

-----------------------------------------------------------------------------
ZeroedOneMore(memory, required) ==
    [k \in DOMAIN memory |-> IF k <= required + 1 THEN 0 ELSE memory[k]]

\* mcl_zero_bytes(out, required)
Zeroed(memory, required) == [k \in DOMAIN memory |-> IF k <= required THEN 0 ELSE memory[k]]

Refusal(status, memory) == [status |-> status, memory |-> memory, written |-> 0]

\* mcl_wire_tier0_encode_at_major into `memory`, of which `capacity` octets may
\* be written.  A refusal leaves *written alone, and the memory as far as the
\* encoder got: fields are written in order until one does not fit.
EncodeAtMajor(major, object, memory, capacity) ==
    LET required == EncodedSizeAtMajor(major, object.kind)
        code     == KindToCode(object.kind)
        header   == [major_version |-> major, category |-> code.category,
                     opcode |-> code.opcode, priority |-> object.priority,
                     extension_present |-> 0]
        zeroed   == Zeroed(memory, required)
        headed   == [zeroed EXCEPT ![1] = HeaderEncode(header)[1],
                                   ![2] = HeaderEncode(header)[2]]
        layout   == LayoutWritten(major, object.kind)
        \* The first field that mcl_write_u or mcl_write_s refuses, if any.
        Room(i)  == PositionOf(layout, i + 1) <= 8 * required
        Value(i) == object.body[layout[i].name]
        written  == {i \in DOMAIN layout :
                        \A j \in 1 .. i : Fits(Value(j), layout[j]) /\ Room(j)}
        stuck    == Cardinality(written) + 1
        bits     == FlattenSeq([i \in 1 .. stuck - 1 |-> FieldBits(Value(i), layout[i])])
        bodied   == OrBits(headed, 8 * COMMON_HEADER_SIZE, bits)
    IN  IF required = 0 THEN Refusal("UNSUPPORTED_SEMANTIC", memory)
        ELSE IF capacity < required THEN Refusal("BUFFER_TOO_SMALL", memory)
        ELSE IF ~HeaderFits(header) THEN Refusal("RANGE", zeroed)
        ELSE IF written = DOMAIN layout
             THEN [status |-> "OK", memory |-> bodied, written |-> required]
        ELSE IF ~Fits(Value(stuck), layout[stuck]) THEN Refusal("RANGE", bodied)
        ELSE Refusal("BUFFER_TOO_SMALL", bodied)

\* Names of the members of the kind's struct, whatever the major carries.
Members(kind) ==
    LET layout == LayoutRead(EXPERIMENTAL_MAJOR, kind)
    IN  {layout[i].name : i \in DOMAIN layout}

\* The fields of LayoutRead, each with the position it is read from.
PlacedFields(layout) ==
    {[field |-> layout[i], at |-> PositionOf(layout, i)] : i \in DOMAIN layout}
FieldsRead ==
    [major \in {EXPERIMENTAL_MAJOR, STABLE_MAJOR} |->
        [kind \in Kind |-> PlacedFields(LayoutRead(major, kind))]]

\* The values a member of a struct may hold: a reference is the pair of its halves.
\* Whether a value fits the field is for the encoder to say.
Half == 0 .. 65535
MemberType(field) ==
    IF field.width = 32 THEN Half \X Half ELSE IF field.signed THEN Int ELSE Nat

\* A mcl_wire_tier0_t whose union holds the struct of its kind.
WellTyped(o) ==
    /\ o = [kind |-> o.kind, priority |-> o.priority, body |-> o.body]
    /\ o.kind \in Kind =>
          LET layout == LayoutRead(EXPERIMENTAL_MAJOR, o.kind)
          IN  /\ o.body = [name \in Members(o.kind) |-> o.body[name]]
              /\ \A i \in DOMAIN layout : o.body[layout[i].name] \in MemberType(layout[i])

\* The object the decoder fills: zero everywhere, then each field read, up to
\* the first that mcl_read_u finds no room for.
ReadObject(data, major, kind, priority, required) ==
    LET Read(name) == {f \in FieldsRead[major][kind] :
                          f.field.name = name /\ f.at + f.field.width <= 8 * required}
    IN  [kind |-> kind, priority |-> priority,
         body |-> [name \in Members(kind) |->
            IF Read(name) = {} THEN 0
            ELSE CHOOSE value \in {ReadField(data, f.at, f.field) : f \in Read(name)} : TRUE]]

\* Where the fields end: the rest of the last octet is padding.
EndOfFields(major, kind) ==
    LET layout == LayoutRead(major, kind) IN PositionOf(layout, Len(layout) + 1)

PaddingIsZeroButLast(data, major, kind, required) ==
    \A p \in EndOfFields(major, kind) .. 8 * required - 2 : Bit(data, p) = 0

\* mcl_require_zero_padding from the end of the last field to the last octet.
PaddingIsZero(data, major, kind, required) ==
    \A p \in EndOfFields(major, kind) .. 8 * required - 1 : Bit(data, p) = 0

Undecoded(status, object) == [status |-> status, object |-> object, consumed |-> 0]

\* mcl_wire_tier0_decode_body on all of data, into a caller's object.  Only the
\* padding check comes after *object has been overwritten.
DecodeBody(data, object) ==
    LET header   == HeaderDecode(data)
        major    == header.major_version
        kind     == CodeToKind(header.category, header.opcode)
        required == EncodedSizeAtMajor(major, kind)
        read     == ReadObject(data, major, kind, header.priority, required)
    IN  IF Len(data) < COMMON_HEADER_SIZE THEN Undecoded("TRUNCATED", object)
        ELSE IF \/ major \notin {EXPERIMENTAL_MAJOR, STABLE_MAJOR}
                \/ kind \notin Kind
                \/ required = 0
             THEN Undecoded("UNSUPPORTED_SEMANTIC", object)
        ELSE IF Len(data) < required THEN Undecoded("TRUNCATED", object)
        ELSE IF EndOfFields(major, kind) > 8 * required THEN Undecoded("TRUNCATED", read)
        ELSE IF ~PaddingIsZero(data, major, kind, required) THEN Undecoded("NONCANONICAL", read)
        ELSE [status |-> "OK", object |-> read, consumed |-> required]

\* mcl_wire_tier0_decode: the same, for an object without extensions only.
Decode(data, object) ==
    IF Len(data) < COMMON_HEADER_SIZE THEN Undecoded("TRUNCATED", object)
    ELSE IF HeaderDecode(data).extension_present # 0
         THEN Undecoded("UNSUPPORTED_SEMANTIC", object)
    ELSE DecodeBody(data, object)
=============================================================================
