------------------------------ MODULE EncodeExt ------------------------------
(***************************************************************************)
(* The encoding side of src/src/extension.c: mcl_wire_tier0_encode_ext,    *)
(* which sizes the extension block, encodes the body, writes the length,   *)
(* writes the block and only then sets extension_present; and the two      *)
(* functions it is made of, mcl_wire_extensions_encoded_size and           *)
(* mcl_wire_extensions_encode, which are public too.  One behaviour is one *)
(* call, one step per extension of each pass.                              *)
(***************************************************************************)
EXTENDS Envelope

CONSTANTS BlockMax,     \* MCL_WIRE_EXTENSION_BLOCK_MAX
          Objects,      \* objects the caller may hand in
          Lists,        \* lists of extensions [id, critical, value]
          Capacities,   \* room the caller may offer
          MemorySize    \* octets of memory, some of them beyond any room

\* The C types of the arguments, which can hold values that are refused; a word
\* has an odd maximum, and two octets are enough for the length of any block.
ASSUME EncodeExtAssumption ==
    /\ 2 * Group <= 256 /\ WordMax % 2 = 1
    /\ BlockMax \in 1 .. WordMax /\ BlockMax < Group * Group
    /\ MemorySize \in Nat
    /\ \A o \in Objects : o.priority \in 0 .. 255
    /\ Lists \subseteq Seq([id : Word, critical : 0 .. 255, value : Seq(0 .. 255)])
    /\ Capacities \subseteq 0 .. MemorySize

Entry == {"tier0_encode_ext", "extensions_encoded_size", "extensions_encode"}

VARIABLES pc,           \* "start", "size", "body", "length", "write", "finish" or "done"
          request,      \* the arguments of the call
          memory,       \* the caller's buffer and what lies behind it
          block,        \* the size the first pass arrives at
          body,         \* octets of the fixed body, once encoded
          start,        \* where the block goes
          i,            \* the extension a pass is at
          offset,       \* how far into the block the second pass has written
          status, written       \* what the call returns

vars == <<pc, request, memory, block, body, start, i, offset, status, written>>

NoObject == [kind |-> "none", priority |-> 0, body |-> <<>>]
Fill == 255     \* what the memory holds before

Init ==
    /\ pc = "start"
    /\ request = [entry |-> "none", object |-> NoObject, list |-> <<>>, capacity |-> 0]
    /\ memory = [k \in 1 .. MemorySize |-> Fill]
    /\ block = 0 /\ body = 0 /\ start = 0 /\ i = 1 /\ offset = 0
    /\ status = "OK" /\ written = 0

List     == request.list
Capacity == request.capacity

\* octets[1 ..] copied to memory from offset at on.
Put(at, octets) ==
    [k \in DOMAIN memory |->
        IF k \in at + 1 .. at + Len(octets) THEN octets[k - at] ELSE memory[k]]

Return(code) == pc' = "done" /\ status' = code

-----------------------------------------------------------------------------
\* The call is made.  Without extensions encode_ext is tier0_encode, at major 0.
Begin(entry, object, list, capacity) ==
    LET plain == EncodeAtMajor(EXPERIMENTAL_MAJOR, object, memory, capacity)
    IN  /\ pc = "start"
        /\ request' = [entry |-> entry, object |-> object, list |-> list, capacity |-> capacity]
        /\ UNCHANGED <<block, body, start, i, offset>>
        /\ \/ /\ entry = "tier0_encode_ext" /\ list = <<>>
              /\ memory' = plain.memory
              /\ written' = plain.written
              /\ Return(plain.status)
           \/ /\ entry = "extensions_encoded_size" \/ (entry = "tier0_encode_ext" /\ list # <<>>)
              /\ pc' = "size"
              /\ UNCHANGED <<memory, status, written>>
           \/ /\ entry = "extensions_encode"
              /\ pc' = "write"
              /\ UNCHANGED <<memory, status, written>>

\* The checks both passes make of an extension, each in its own loop.
InRange(e) == e.id # 0 /\ e.id <= WordMax \div 2 /\ e.critical <= 1 /\ Len(e.value) <= WordMax
InOrderWeakly == i # 1 => List[i].id >= List[i - 1].id
InOrder    == i # 1 => List[i].id > List[i - 1].id

\* The bound is checked before every addition, so that none can wrap.
FieldSize(e) == UvarintSize(KeyOf(e)) + UvarintSize(Len(e.value))

OutgrowsBlockByHeader(e) == FieldSize(e) > BlockMax - block
OutgrowsBlockEarly(e) ==
    \/ FieldSize(e) > BlockMax - block
    \/ Len(e.value) >= BlockMax - (block + FieldSize(e))
OutgrowsBlock(e) ==
    \/ FieldSize(e) > BlockMax - block
    \/ Len(e.value) > BlockMax - (block + FieldSize(e))

\* One round of the sizing pass, bounded by BlockMax.
SizeOne ==
    LET e == List[i]
    IN  /\ pc = "size" /\ i <= Len(List)
        /\ UNCHANGED <<request, memory, body, start, offset, written>>
        /\ \/ ~InRange(e) /\ Return("RANGE") /\ UNCHANGED <<block, i>>
           \/ InRange(e) /\ ~InOrder /\ Return("NONCANONICAL") /\ UNCHANGED <<block, i>>
           \/ /\ InRange(e) /\ InOrder /\ OutgrowsBlock(e)
              /\ Return("RANGE") /\ UNCHANGED <<block, i>>
           \/ /\ InRange(e) /\ InOrder /\ ~OutgrowsBlock(e)
              /\ block' = block + FieldSize(e) + Len(e.value)
              /\ i' = i + 1
              /\ UNCHANGED <<pc, status>>

SizeDone ==
    /\ pc = "size" /\ i > Len(List)
    /\ i' = 1
    /\ UNCHANGED <<request, memory, block, body, start, offset, status>>
    /\ IF request.entry = "extensions_encoded_size"
       THEN pc' = "done" /\ written' = block
       ELSE pc' = "body" /\ UNCHANGED written

EncodeBodyFlagged ==
    LET result == EncodeAtMajor(EXPERIMENTAL_MAJOR, request.object, memory, Capacity)
    IN  /\ pc = "body"
        /\ memory' = IF result.status = "OK" THEN [result.memory EXCEPT ![2] = @ + 1]
                                             ELSE result.memory
        /\ body' = result.written
        /\ UNCHANGED <<request, block, start, i, offset, written>>
        /\ IF result.status = "OK" THEN pc' = "length" /\ UNCHANGED status
                                   ELSE Return(result.status)

EncodeBody ==
    LET result == EncodeAtMajor(EXPERIMENTAL_MAJOR, request.object, memory, Capacity)
    IN  /\ pc = "body"
        /\ memory' = result.memory
        /\ body' = result.written
        /\ UNCHANGED <<request, block, start, i, offset, written>>
        /\ IF result.status = "OK" THEN pc' = "length" /\ UNCHANGED status
                                   ELSE Return(result.status)

EncodeLengthUnchecked ==
    LET octets == UvarintEncode(block)
    IN  /\ pc = "length"
        /\ UNCHANGED <<request, block, body, i, offset, status, written>>
        /\ memory' = Put(body, octets)
        /\ start' = body + Len(octets)
        /\ pc' = "write"

EncodeLength ==
    LET octets == UvarintEncode(block)
    IN  /\ pc = "length"
        /\ UNCHANGED <<request, block, body, i, offset, written>>
        /\ IF Capacity - body < Len(octets)
           THEN Return("BUFFER_TOO_SMALL") /\ UNCHANGED <<memory, start>>
           ELSE /\ memory' = Put(body, octets)
                /\ start' = body + Len(octets)
                /\ pc' = "write" /\ UNCHANGED status

\* One round of the writing pass: the key, the size, the value, each when there
\* is room for it, and what was written stays when there is none for the next.
WriteOne ==
    LET e      == List[i]
        key    == UvarintEncode(KeyOf(e))
        header == key \o UvarintEncode(Len(e.value))
        room   == Capacity - start - offset
    IN  /\ pc = "write" /\ i <= Len(List)
        /\ UNCHANGED <<request, block, body, start, written>>
        /\ \/ ~InRange(e) /\ Return("RANGE") /\ UNCHANGED <<memory, i, offset>>
           \/ InRange(e) /\ ~InOrder /\ Return("NONCANONICAL") /\ UNCHANGED <<memory, i, offset>>
           \/ /\ InRange(e) /\ InOrder
              /\ room < Len(header) + Len(e.value)
              /\ memory' = Put(start + offset, IF room < Len(key) THEN <<>>
                                               ELSE IF room < Len(header) THEN key
                                               ELSE header)
              /\ Return("BUFFER_TOO_SMALL") /\ UNCHANGED <<i, offset>>
           \/ /\ InRange(e) /\ InOrder
              /\ room >= Len(header) + Len(e.value)
              /\ memory' = Put(start + offset, header \o e.value)
              /\ offset' = offset + Len(header) + Len(e.value)
              /\ i' = i + 1
              /\ UNCHANGED <<pc, status>>

WriteDone ==
    /\ pc = "write" /\ i > Len(List)
    /\ UNCHANGED <<request, memory, block, body, start, i, offset, status>>
    /\ IF request.entry = "extensions_encode"
       THEN pc' = "done" /\ written' = offset
       ELSE pc' = "finish" /\ UNCHANGED written

\* The passes have to agree; then extension_present is set, last of all.
Finish ==
    /\ pc = "finish"
    /\ UNCHANGED <<request, block, body, start, i, offset>>
    /\ IF offset # block
       THEN Return("RANGE") /\ UNCHANGED <<memory, written>>
       ELSE /\ memory' = [memory EXCEPT ![2] = IF @ % 2 = 1 THEN @ ELSE @ + 1]
            /\ written' = start + block
            /\ Return("OK")

Next ==
    \/ \E entry \in Entry, object \in Objects, list \in Lists, capacity \in Capacities :
          Begin(entry, object, list, capacity)
    \/ SizeOne \/ SizeDone \/ EncodeBody \/ EncodeLength \/ WriteOne \/ WriteDone \/ Finish

Spec == Init /\ [][Next]_vars

-----------------------------------------------------------------------------
\* The types of the call's state.
TypeOK ==
    /\ pc \in {"start", "size", "body", "length", "write", "finish", "done"}
    /\ memory \in [1 .. MemorySize -> 0 .. 255]
    /\ block \in 0 .. BlockMax
    /\ start + offset <= MemorySize
    /\ i \in 1 .. Len(List) + 1
    /\ status \in Status

Done    == pc = "done"
Success == Done /\ status = "OK"

\* What the specification lets be encoded: every extension valid, ids ascending.
Encodable(list) ==
    /\ \A n \in DOMAIN list : InRange(list[n])
    /\ \A n \in 2 .. Len(list) : list[n - 1].id < list[n].id

\* A success has written the canonical octets and nothing else: the length names
\* the block after it, empty lists have no block, the bit says which it is.  The
\* block alone is the canonical block, and its size is what the size call said.
SuccessIsCanonical ==
    Success =>
        LET octets == CASE request.entry = "tier0_encode_ext" -> Canonical(request.object, List)
                        [] request.entry = "extensions_encode" -> Elements(List)
                        [] OTHER -> <<>>
        IN  /\ Encodable(List)
            /\ SubSeq(memory, 1, Len(octets)) = octets
            /\ written = IF request.entry = "extensions_encoded_size"
                         THEN Len(Elements(List)) ELSE Len(octets)

\* The two passes can not drift apart: the writing pass, reached through the
\* sizing pass, meets no extension it refuses as invalid, writes what was
\* counted, and the check that they agree never fails (extension.c:180-183,
\* 258-262).  A list that was sized is refused only for want of room.
PassesAgree ==
    request.entry = "tier0_encode_ext" =>
        /\ pc = "finish" => offset = block
        /\ (Done /\ body > 0 /\ status # "OK") => status = "BUFFER_TOO_SMALL"

\* An object within the limits is encoded whenever the room is enough for it, and
\* room of MCL_WIRE_TIER0_EXT_MAX_SIZE, 17 + 2 + BlockMax, is enough for every
\* one (extension.h:115-119): neither pass refuses at the boundary.
RoomForEveryObject ==
    (Done /\ request.entry = "tier0_encode_ext") =>
        LET octets   == Canonical(request.object, List)
            allowed  == Encodable(List) /\ Len(Elements(List)) <= BlockMax
            fits     == EncodeAtMajor(EXPERIMENTAL_MAJOR, request.object,
                                      [k \in 1 .. 17 |-> 0], 17).status = "OK"
        IN  /\ (allowed /\ fits) => /\ status = "OK" <=> Capacity >= Len(octets)
                                    /\ Len(octets) <= 17 + 2 + BlockMax
            /\ ~allowed => status \notin {"OK", "BUFFER_TOO_SMALL"}
            /\ ~fits => status # "OK"

\* No step writes outside the room offered, and none that fails reports a length
\* (extension.c:44-46, 130-152, 239-254).
WritesStayInRoom ==
    [][/\ \A k \in 1 .. MemorySize : k > request'.capacity => memory'[k] = memory[k]
       /\ status' # "OK" => written' = 0]_vars

\* extension_present is never set in the buffer over a body until the whole block
\* stands behind it: a call that fails half way leaves an object that says it has
\* no block, not one that promises a block that is not there (extension.c:264-266).
BitIsSetLast ==
    (request.entry = "tier0_encode_ext" /\ body > 0 /\ ~Success) => memory[2] % 2 = 0

-----------------------------------------------------------------------------
\* include/mcl/extension.h:105 of MCL_WIRE_EXTENSION_BLOCK_MAX: "Largest extension
\* block this implementation will encode or accept."
NoBlockAboveTheLargest ==
    (Success /\ request.entry = "extensions_encode") => written <= BlockMax
=============================================================================
