------------------------------ MODULE Envelope ------------------------------
(***************************************************************************)
(* The octets of an object with extensions: the fixed body at the          *)
(* Experimental major, extension_present, the length of the block and the  *)
(* block (src/include/mcl/extension.h, CANONICAL LAYOUT).  Operators only. *)
(* That mcl_wire_tier0_encode_ext arrives at these octets, pass by pass,   *)
(* is what EncodeExt is about; the modules that only need an encoded       *)
(* object take it from here.                                               *)
(***************************************************************************)
EXTENDS Uvarint, Tier0

\* An extension [id, critical, value] starts with its key, the size of its value
\* follows, and then the value.
KeyOf(e) == 2 * e.id + e.critical

Elements(list) ==
    FlattenSeq([n \in DOMAIN list |->
        UvarintEncode(KeyOf(list[n])) \o UvarintEncode(Len(list[n].value)) \o list[n].value])

\* mcl_wire_tier0_encode_at_major into room enough for every object.
FixedEncoding(major, o) ==
    LET result == EncodeAtMajor(major, o, [k \in 1 .. 17 |-> 0], 17)
    IN  SubSeq(result.memory, 1, result.written)

\* The one encoding of an object with a list of extensions.
Canonical(o, list) ==
    LET fixed    == FixedEncoding(EXPERIMENTAL_MAJOR, o)
        elements == Elements(list)
    IN  IF list = <<>> THEN fixed
        ELSE [fixed EXCEPT ![2] = @ + 1] \o UvarintEncode(Len(elements)) \o elements
=============================================================================
