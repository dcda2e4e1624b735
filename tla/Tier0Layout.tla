----------------------------- MODULE Tier0Layout -----------------------------
(***************************************************************************)
(* The published table of the seven bodies, as                             *)
(* tools/validate_tier0_layout.c holds it: typed from                      *)
(* spec/tier0-layout-v0.2.md, with offsets in bits from the start of the   *)
(* object, and not computed from the codec.  And the comparison that tool  *)
(* makes in both directions, as operators on an object and its octets, so  *)
(* that a run can make it of more objects than the tool's probes.          *)
(***************************************************************************)
EXTENDS Tier0

U(field, offset, width) ==
    [field |-> field, offset |-> offset, width |-> width, is_signed |-> FALSE]
S(field, offset, width) ==
    [field |-> field, offset |-> offset, width |-> width, is_signed |-> TRUE]

Row(category, opcode, bytes, pad_bits, fields) ==
    [category |-> category, opcode |-> opcode, bytes |-> bytes, pad_bits |-> pad_bits,
     fields |-> fields]

k_table == [
    PRESENCE |-> Row(0, 0, 11, 0,
        {U("machine_class", 48, 8), U("capability_tag", 56, 24), U("ttl", 80, 8)}),
    HAZARD |-> Row(3, 1, 15, 2,
        {U("hazard_class", 48, 8), U("severity", 56, 3), U("confidence", 59, 7),
         S("x", 66, 12), S("y", 78, 12), S("z", 90, 10), U("radius", 100, 10),
         U("ttl", 110, 8)}),
    REQUEST |-> Row(5, 1, 17, 6,
        {U("request_class", 48, 8), U("target_ref", 56, 32), S("x", 88, 12),
         S("y", 100, 12), U("radius", 112, 10), U("ttl", 122, 8)}),
    AUTHORITY_CLAIM |-> Row(1, 1, 14, 6,
        {U("authority_class", 48, 6), U("jurisdiction", 54, 12), U("credential_ref", 66, 32),
         U("validity", 98, 8)}),
    DEGRADED_STATE |-> Row(6, 1, 10, 6,
        {U("affected_capability", 48, 8), U("health", 56, 7), U("severity", 63, 3),
         U("ttl", 66, 8)}),
    TRANSPORT_OFFER |-> Row(8, 0, 17, 0,
        {U("migration_ref", 48, 32), U("transport_id", 80, 8), U("profile_id", 88, 8),
         U("endpoint_token", 96, 32), U("validity", 128, 8)}),
    TRANSPORT_ACCEPT |-> Row(8, 1, 16, 0,
        {U("migration_ref", 48, 32), U("transport_id", 80, 8), U("profile_id", 88, 8),
         U("session_ref", 96, 32)})]

\* The same 32 bits of every kind.
SourceRef == U("source_ref", 16, 32)
FieldsOfRow(row) == row.fields \cup {SourceRef}

\* read_bits, for a width below 32.
read_bits(data, offset, width) ==
    NumberOf([i \in 1 .. width |-> Bit(data, offset + i - 1)])

\* What the document means by the bits of a row: two's complement if signed.
Documented(data, f) ==
    LET bits == read_bits(data, f.offset, f.width)
    IN  IF f.width = 32
        THEN <<read_bits(data, f.offset, 16), read_bits(data, f.offset + 16, 16)>>
        ELSE IF f.is_signed /\ bits >= 2^(f.width - 1) THEN bits - 2^f.width
        ELSE bits

\* The documented bits hold the fields of the object, each its own.
FieldsAsPublished(data, o) ==
    /\ DOMAIN o.body = {f.field : f \in FieldsOfRow(k_table[o.kind])}
    /\ \A f \in FieldsOfRow(k_table[o.kind]) : o.body[f.field] = Documented(data, f)

PaddingAsPublished(data, row) ==
    \A p \in 8 * row.bytes - row.pad_bits .. 8 * row.bytes - 1 : read_bits(data, p, 1) = 0

\* The checks of check_kind on what the encoder wrote of an object, and on what
\* the decoder read.
EncodedAsPublished(data, o, written) ==
    LET row == k_table[o.kind]
    IN  /\ written = row.bytes /\ EncodedSize(o.kind) = row.bytes
        /\ read_bits(data, 4, 4) = row.category /\ read_bits(data, 8, 5) = row.opcode
        /\ FieldsAsPublished(data, o)
        /\ PaddingAsPublished(data, row)

DecodedAsPublished(data, o, consumed) ==
    LET row == k_table[o.kind]
    IN  consumed = row.bytes /\ FieldsAsPublished(data, o) /\ PaddingAsPublished(data, row)
=============================================================================
