------------------------------ MODULE DecodeExt ------------------------------
(***************************************************************************)
(* mcl_wire_tier0_decode_ext and mcl_wire_tier0_decode_ext_accept          *)
(* (src/src/extension.c) and the caller around them.  The caller makes one *)
(* call after another into the same object, reader and consumed, and       *)
(* answers for every critical extension it is shown; the scan of the block *)
(* is the reader of ExtensionReader, on a reader of its own.               *)
(***************************************************************************)
EXTENDS Uvarint, Tier0

CONSTANTS BlockMax,     \* MCL_WIRE_EXTENSION_BLOCK_MAX
          Inputs,       \* the buffers the caller may hand in
          MaxCalls      \* bound on the calls of one behaviour

\* An octet has eight bits: the Tier-0 header and body are read from them.
ASSUME DecodeExtAssumption ==
    /\ 2 * Group <= 256
    /\ BlockMax \in Nat \ {0}
    /\ Inputs \subseteq Seq(Octet)
    /\ MaxCalls \in Nat

VARIABLES pc,               \* "idle", or inside a call: "scan" or "ask"
          calls,            \* calls made so far
          data,             \* the buffer of the current or last call
          callback,         \* whether that call came with an accept function
          base, block,      \* where the block of the current call starts, and its octets
          scan,             \* the call's own reader
          extension, has_extension,     \* what the scan read last
          status,           \* the last status seen, of the call when pc = "idle"
          object, reader, consumed,     \* the caller's outputs
          scanned,          \* history: extensions the current call has read
          asked,            \* history: [extension, answer] the accept function gave
          released          \* history: data, reader and consumed of the last success

outputs == <<object, reader, consumed>>
scanVars == <<scan, extension, has_extension, scanned>>
vars == <<pc, calls, data, callback, base, block, scanVars, status, outputs, asked, released>>

Scan == INSTANCE ExtensionReader WITH
            Blocks <- {}, reader <- scan, yielded <- scanned, failed <- status # "OK"

\* mcl_wire_extension_reader_init, with the window the reader borrows.
ReaderOn(from, length) == [base |-> from, size |-> length, next |-> Scan!ReaderInit]

NoReader == ReaderOn(0, 0)
NoObject == [kind |-> "none", priority |-> 0, body |-> <<>>]

Init ==
    /\ pc = "idle" /\ calls = 0
    /\ data = <<>> /\ callback = FALSE /\ base = 0 /\ block = <<>>
    /\ scan = Scan!ReaderInit /\ extension = Scan!Unwritten /\ has_extension = FALSE
    /\ status = "OK"
    /\ object = NoObject /\ reader = NoReader /\ consumed = 0
    /\ scanned = <<>> /\ asked = <<>>
    /\ released = [data |-> <<>>, reader |-> NoReader, consumed |-> 0]

-----------------------------------------------------------------------------
RefuseAtOnceClearingReader(error) ==
    /\ status' = error
    /\ pc' = "idle"
    /\ base' = 0 /\ block' = <<>>
    /\ reader' = NoReader
    /\ UNCHANGED <<consumed, released>>

\* The call returns an error before the scan.
RefuseAtOnce(error) ==
    /\ status' = error
    /\ pc' = "idle"
    /\ base' = 0 /\ block' = <<>>
    /\ UNCHANGED <<reader, consumed, released>>

ReleaseAll(input, from, length) ==
    /\ reader' = ReaderOn(from, length)
    /\ consumed' = Len(input)
    /\ released' = [data |-> input, reader |-> ReaderOn(from, length), consumed |-> Len(input)]

\* The call succeeds: the reader is set on the block and consumed reported.
Release(input, from, length) ==
    /\ reader' = ReaderOn(from, length)
    /\ consumed' = from + length
    /\ released' = [data |-> input, reader |-> ReaderOn(from, length),
                    consumed |-> from + length]

\* The body came with extension_present clear: an empty reader behind it.
ReturnPlain(input, from) ==
    /\ status' = "OK"
    /\ pc' = "idle"
    /\ base' = from /\ block' = <<>>
    /\ Release(input, from, 0)

\* The limits on the length of a block.
EmptyBlockNever(length) == FALSE
EmptyBlock(length) == length.value = 0

OversizeBlockLate(length) == length.value > BlockMax + 1
OversizeBlock(length) == length.value > BlockMax

\* The length of the block is read and checked, and the scan set on the block.
StartScan(input, from, length) ==
    LET start == from + length.used
        allowed == length.status = "OK" /\ ~EmptyBlock(length) /\ ~OversizeBlock(length)
    IN  \/ length.status # "OK" /\ RefuseAtOnce(length.status)
        \/ length.status = "OK" /\ EmptyBlock(length) /\ RefuseAtOnce("NONCANONICAL")
        \/ length.status = "OK" /\ OversizeBlock(length) /\ RefuseAtOnce("RANGE")
        \/ allowed /\ length.value > Len(input) - start /\ RefuseAtOnce("TRUNCATED")
        \/ /\ allowed
           /\ length.value <= Len(input) - start
           /\ status' = "OK"
           /\ pc' = "scan"
           /\ base' = start
           /\ block' = SubSeq(input, start + 1, start + length.value)
           /\ UNCHANGED <<reader, consumed, released>>

\* The entry of a call.  The body is decoded straight into the caller's object.
\* (The quantifiers over one value name it, and have TLC evaluate it once.)
Enter(input, withCallback) ==
    /\ pc = "idle"
    /\ data' = input
    /\ callback' = withCallback
    /\ scan' = Scan!ReaderInit /\ scanned' = <<>> /\ asked' = <<>>
    /\ has_extension' = FALSE /\ UNCHANGED extension
    /\ \E body \in {DecodeBody(input, object)} :
          /\ object' = body.object
          /\ \/ body.status # "OK" /\ RefuseAtOnce(body.status)
             \/ /\ body.status = "OK" /\ HeaderDecode(input).extension_present = 0
                /\ ReturnPlain(input, body.consumed)
             \/ /\ body.status = "OK" /\ HeaderDecode(input).extension_present = 1
                /\ \E length \in {UvarintDecode(input, body.consumed)} :
                      StartScan(input, body.consumed, length)

-----------------------------------------------------------------------------
\* What a step inside a call never touches.
callFrame == <<calls, data, callback, base, block, object>>

\* The scan meets an element that is not well formed.
ScanFails ==
    /\ pc = "scan"
    /\ UNCHANGED <<callFrame, reader, consumed, asked, released>>
    /\ \/ Scan!FailInKey \/ Scan!FailOnId \/ Scan!FailInSize \/ Scan!FailOnValue
    /\ pc' = "idle"

ScanReadsAskingOnce ==
    /\ pc = "scan"
    /\ UNCHANGED <<callFrame, reader, consumed, asked, released>>
    /\ Scan!Yield
    /\ pc' = IF extension'.critical # 0 /\ asked = <<>> THEN "ask" ELSE "scan"

\* The scan reads one element; a critical one is put to the accept function.
ScanReads ==
    /\ pc = "scan"
    /\ UNCHANGED <<callFrame, reader, consumed, asked, released>>
    /\ Scan!Yield
    /\ pc' = IF extension'.critical # 0 THEN "ask" ELSE "scan"

ScanEndsGoingOn ==
    /\ pc = "scan"
    /\ UNCHANGED <<pc, callFrame, asked>>
    /\ Scan!Finish
    /\ Release(data, base, Len(block))

\* The scan has reached the end of the block: everything is released.
ScanEnds ==
    /\ pc = "scan"
    /\ UNCHANGED <<callFrame, asked>>
    /\ Scan!Finish
    /\ pc' = "idle"
    /\ Release(data, base, Len(block))

\* The accept function understands the extension and the scan goes on.
Accept ==
    /\ pc = "ask" /\ callback
    /\ asked' = Append(asked, [extension |-> extension, answer |-> TRUE])
    /\ pc' = "scan"
    /\ UNCHANGED <<callFrame, scanVars, status, reader, consumed, released>>

RefuseAndGoOn ==
    /\ pc = "ask" /\ callback
    /\ asked' = Append(asked, [extension |-> extension, answer |-> FALSE])
    /\ pc' = "scan"
    /\ UNCHANGED <<callFrame, scanVars, status, reader, consumed, released>>

\* It does not.
Refuse ==
    /\ pc = "ask" /\ callback
    /\ asked' = Append(asked, [extension |-> extension, answer |-> FALSE])
    /\ status' = "UNSUPPORTED_SEMANTIC"
    /\ pc' = "idle"
    /\ UNCHANGED <<callFrame, scanVars, reader, consumed, released>>

\* There is none: mcl_wire_tier0_decode_ext.
RefuseUnasked ==
    /\ pc = "ask" /\ ~callback
    /\ status' = "UNSUPPORTED_SEMANTIC"
    /\ pc' = "idle"
    /\ UNCHANGED <<callFrame, scanVars, reader, consumed, asked, released>>

Call ==
    /\ calls < MaxCalls
    /\ calls' = calls + 1
    /\ \E input \in Inputs, withCallback \in BOOLEAN : Enter(input, withCallback)

\* The code of a call runs on, and the accept function returns.
Proceed == ScanFails \/ ScanReads \/ ScanEnds \/ Accept \/ Refuse \/ RefuseUnasked

Next == Call \/ Proceed

Spec == Init /\ [][Next]_vars

-----------------------------------------------------------------------------
\* The types of the call's state and of the caller's outputs.
TypeOK ==
    /\ pc \in {"idle", "scan", "ask"}
    /\ calls \in 0 .. MaxCalls
    /\ base + Len(block) <= Len(data) /\ Len(block) <= BlockMax
    /\ scan \in Scan!Reader /\ extension \in Scan!Extension
    /\ status \in Status
    /\ reader \in [base : Nat, size : 0 .. BlockMax, next : Scan!Reader]
    /\ consumed \in Nat

Returned  == pc = "idle" /\ calls > 0
Succeeded == Returned /\ status = "OK"

Criticals == {e \in Range(scanned) : e.critical = 1}

\* "MCL_WIRE_OK from this function means: the object and its whole extension
\* block are structurally valid, AND every critical extension in it was presented
\* to accept and accepted" (extension.h:225-229): each of them once, in order,
\* each with a yes, and nothing else was presented.
ReleasedOnlyIfAccepted ==
    Succeeded =>
        /\ {asked[n].extension : n \in DOMAIN asked} = Criticals
        /\ \A m, n \in DOMAIN asked : m < n => asked[m].extension.id < asked[n].extension.id
        /\ \A n \in DOMAIN asked : asked[n].answer
        /\ ~callback => Criticals = {}

\* The octets the encoder writes for an extension read from the block.
Element(e) == UvarintEncode(2 * e.id + e.critical) \o UvarintEncode(e.value_size)
                  \o SubSeq(block, e.value + 1, e.value + e.value_size)

\* What a success consumed is the one encoding of what it returned: the body
\* encoded again with extension_present set exactly when there is a block, the
\* length of the block, and its elements in order.  "There is exactly one
\* encoding of any object" (extension.h:88).
ReleasedIsCanonical ==
    Succeeded =>
        LET fixed == EncodeAtMajor(HeaderDecode(data).major_version, object,
                                   [k \in 1 .. 17 |-> 0], 17)
            body  == SubSeq(fixed.memory, 1, fixed.written)
            elements == FlattenSeq([i \in DOMAIN scanned |-> Element(scanned[i])])
        IN  SubSeq(data, 1, consumed) =
                IF scanned = <<>> THEN body
                ELSE [body EXCEPT ![2] = @ + 1] \o UvarintEncode(Len(elements)) \o elements

\* Between calls and inside them, also after any number of failures, the reader
\* and consumed are those of the last success together: no failing call leaves
\* the one without the other, or a reader into a block it refused
\* (extension.c:339-341, 369-371).
OutputsAreOfLastSuccess ==
    /\ reader = released.reader /\ consumed = released.consumed
    /\ reader.base + reader.size = consumed
    /\ consumed <= Len(released.data)

\* The accept function is never asked after it has refused, never about two
\* elements out of order, and never while any part of the block it is asked
\* about has been released (extension.h:157-160, 177-180).
AskedBeforeRelease ==
    [][/\ asked' \notin {asked, <<>>} =>
            /\ UNCHANGED <<reader, consumed>>
            /\ \A i \in DOMAIN asked :
                  asked[i].answer /\ asked[i].extension.id < asked'[Len(asked')].extension.id]_vars

\* Every call returns.
CallsReturn == (pc # "idle") ~> (pc = "idle")
=============================================================================
