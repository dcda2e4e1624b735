----------------------------- MODULE Tier0Codec -----------------------------
(***************************************************************************)
(* A sender and a receiver of fixed Tier-0 objects around one piece of     *)
(* memory.  The sender encodes an object at a major with                   *)
(* mcl_wire_tier0_encode_at_major, the medium may change one octet, and    *)
(* the receiver decodes what has arrived with mcl_wire_tier0_decode or     *)
(* mcl_wire_tier0_decode_body into an object it used before.               *)
(***************************************************************************)
EXTENDS Tier0Layout

CONSTANTS Majors,       \* majors the sender may ask for
          Objects,      \* objects the sender may hold, fitting and not
          Capacities,   \* room the sender may offer
          Noise,        \* octets the medium may put in place of another
          Disturbed,    \* bound on the objects in which it may
          Stale         \* octets the memory may hold from before

\* Octets of the memory: the largest object and one that must stay untouched.
MemorySize == 18

\* The C types of the arguments, and no more room offered than there is.
ASSUME CodecAssumption ==
    /\ \A o \in Objects : o.priority \in 0 .. 255 /\ WellTyped(o)
    /\ Capacities \subseteq 0 .. MemorySize
    /\ Noise \subseteq 0 .. 255 /\ Stale \subseteq 0 .. 255

VARIABLES phase,        \* "idle", "encoded" or "decoded"
          memory,       \* the octets of the buffer
          sent,         \* the request of the encode call
          encoded,      \* status and *written of the encode call
          disturbed,    \* the medium has altered an octet
          object,       \* the receiver's object
          decoded       \* status, *consumed, entry point and size of the decode call

vars == <<phase, memory, sent, encoded, disturbed, object, decoded>>

Nothing == [kind |-> "none", priority |-> 0, body |-> <<>>]

Init ==
    /\ phase = "idle"
    /\ \E octet \in Stale : memory = [k \in 1 .. MemorySize |-> octet]
    /\ sent = [major |-> 0, object |-> Nothing, capacity |-> 0]
    /\ encoded = [status |-> "none", written |-> 0]
    /\ disturbed = FALSE
    /\ object = Nothing
    /\ decoded = [status |-> "none", consumed |-> 0, entry |-> "none", size |-> 0]

Encode(major, o, capacity) ==
    LET result == EncodeAtMajor(major, o, memory, capacity)
    IN  /\ phase = "idle"
        /\ phase' = "encoded"
        /\ sent' = [major |-> major, object |-> o, capacity |-> capacity]
        /\ memory' = result.memory
        /\ encoded' = [status |-> result.status, written |-> result.written]
        /\ UNCHANGED <<disturbed, object, decoded>>

\* One octet of the object arrives altered.
Disturb(k, octet) ==
    /\ phase = "encoded" /\ encoded.status = "OK" /\ ~disturbed
    /\ sent.object \in Disturbed
    /\ k <= encoded.written
    /\ memory[k] # octet
    /\ disturbed' = TRUE
    /\ memory' = [memory EXCEPT ![k] = octet]
    /\ UNCHANGED <<phase, sent, encoded, object, decoded>>

\* What arrives of an object: nothing, half a header, all but the last octet,
\* all of it, or all of it and what lies behind.
Sizes == {0, 1, encoded.written - 1, encoded.written, MemorySize} \cap Nat

\* The receiver decodes the first `size` octets.
Receive(entry, size) ==
    LET data   == SubSeq(memory, 1, size)
        result == IF entry = "decode" THEN Decode(data, object) ELSE DecodeBody(data, object)
    IN  /\ phase = "encoded" /\ encoded.status = "OK"
        /\ phase' = "decoded"
        /\ object' = result.object
        /\ decoded' = [status |-> result.status, consumed |-> result.consumed,
                       entry |-> entry, size |-> size]
        /\ UNCHANGED <<memory, sent, encoded, disturbed>>

Next ==
    \/ \E major \in Majors, o \in Objects, capacity \in Capacities : Encode(major, o, capacity)
    \/ \E k \in 1 .. MemorySize, octet \in Noise : Disturb(k, octet)
    \/ \E entry \in {"decode", "decode_body"}, size \in Sizes : Receive(entry, size)

Spec == Init /\ [][Next]_vars

-----------------------------------------------------------------------------
Octets == 0 .. 255

\* The shapes of the memory, the results and the objects.
TypeOK ==
    /\ phase \in {"idle", "encoded", "decoded"}
    /\ memory \in [1 .. MemorySize -> Octets]
    /\ encoded.written \in 0 .. 17
    /\ disturbed \in BOOLEAN
    /\ object.kind \in Kind => DOMAIN object.body = Members(object.kind)
    /\ decoded.consumed \in 0 .. 17

\* What the receiver is to see of an object sent at a major: at the Stable
\* major machine_class is not carried and reads as zero.
Carried(major, o) ==
    IF major = STABLE_MAJOR /\ o.kind = "PRESENCE"
    THEN [o EXCEPT !.body["machine_class"] = 0] ELSE o

\* An object that was sent and not altered arrives as it was from its whole
\* length on, and a shorter buffer is TRUNCATED and leaves the receiver's object
\* alone: no field is cut to its width, no sign is lost, and the encoder's table
\* and switch agree with the decoder's (wire.c:447-521 against 584-715).
SentIsReceived ==
    (phase = "decoded" /\ ~disturbed) =>
        IF decoded.size >= encoded.written
        THEN /\ decoded.status = "OK"
             /\ object = Carried(sent.major, sent.object)
             /\ decoded.consumed = encoded.written
        ELSE decoded.status = "TRUNCATED" /\ object = Nothing

\* Whatever octets arrive, the ones a successful decode consumed are the only
\* encoding of the object it returned: encoding that object again gives them
\* back, extension bit aside.  Padding bits and unassigned codes can not vary
\* (wire.c:134-150, 712).
DecodedIsCanonical ==
    (phase = "decoded" /\ decoded.status = "OK") =>
        LET major == HeaderDecode(memory).major_version
            again == EncodeAtMajor(major, object, [k \in 1 .. MemorySize |-> 0], MemorySize)
            ebit  == HeaderDecode(memory).extension_present
        IN  /\ again.status = "OK" /\ again.written = decoded.consumed
            /\ \A k \in 1 .. decoded.consumed :
                  memory[k] = again.memory[k] + (IF k = 2 THEN ebit ELSE 0)

\* An object crosses at the Stable major only if its kind is Stable, and never
\* at an unassigned major, and tier0_decode never returns one whose sender set
\* extension_present, even when noise on the header made it look so
\* (wire.c:529-554, 601-610, 731-746).
OnlyAdmissibleObjectsCross ==
    (phase = "decoded" /\ decoded.status = "OK") =>
        LET header == HeaderDecode(memory)
        IN  /\ header.major_version \in {EXPERIMENTAL_MAJOR, STABLE_MAJOR}
            /\ header.major_version = STABLE_MAJOR =>
                   object.kind \in {"PRESENCE", "TRANSPORT_OFFER", "TRANSPORT_ACCEPT"}
            /\ decoded.entry = "decode" => header.extension_present = 0

\* The encode call succeeds exactly when the major carries the kind, the room is
\* enough and every field fits, and blames the first of these that fails.  The
\* writers' own room check never fires: the size tables cover the layouts
\* (wire.c:429-435, 329-386).
EncodeRefusesExactly ==
    phase # "idle" =>
        LET o        == sent.object
            required == EncodedSizeAtMajor(sent.major, o.kind)
            layout   == LayoutWritten(sent.major, o.kind)
            AllFit   == /\ o.priority <= 3
                        /\ \A i \in DOMAIN layout : Fits(o.body[layout[i].name], layout[i])
        IN  encoded.status = IF required = 0 THEN "UNSUPPORTED_SEMANTIC"
                             ELSE IF sent.capacity < required THEN "BUFFER_TOO_SMALL"
                             ELSE IF AllFit THEN "OK" ELSE "RANGE"

\* What the encoder writes at major 0, and what the decoder reads there of octets
\* altered on the way too, is the published layout bit for bit: the two switches of
\* the codec agree with the document and not merely with each other
\* (wire.c:447-521, 612-711; tools/validate_tier0_layout.c:4-28).
LayoutAsPublished ==
    /\ (/\ phase = "encoded" /\ encoded.status = "OK" /\ ~disturbed
        /\ sent.major = EXPERIMENTAL_MAJOR)
           => EncodedAsPublished(memory, sent.object, encoded.written)
    /\ (/\ phase = "decoded" /\ decoded.status = "OK"
        /\ HeaderDecode(memory).major_version = EXPERIMENTAL_MAJOR)
           => DecodedAsPublished(memory, object, decoded.consumed)

\* Encoding, also when it fails half way, stays within the size of the object
\* and within the room offered; a call that is refused before it writes leaves
\* every octet as it was (wire.c:430-437).
WritesStayInRoom ==
    [][phase = "idle" =>
        LET required == EncodedSizeAtMajor(sent'.major, sent'.object.kind)
            room     == IF sent'.capacity < required THEN 0 ELSE required
        IN  \A k \in 1 .. MemorySize : k > room => memory'[k] = memory[k]]_vars

-----------------------------------------------------------------------------
\* spec/common-header-v0.2.md:105-107: "a major-0 PRESENCE presented at major 1
\* is refused on length rather than reading machine_class as part of
\* capability_tag".
MajorZeroPresenceRefusedAtMajorOne ==
    (/\ phase = "decoded" /\ disturbed
     /\ sent.major = EXPERIMENTAL_MAJOR /\ sent.object.kind = "PRESENCE"
     /\ memory[1] = 16 * STABLE_MAJOR + KindToCode("PRESENCE").category
     /\ decoded.size = encoded.written)
    => decoded.status # "OK"
=============================================================================
