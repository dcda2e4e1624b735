----------------------------- MODULE WireStream -----------------------------
(***************************************************************************)
(* Objects sent back to back without an envelope, "where bytes arrive from *)
(* the air" (include/mcl/extension.h: CANONICAL LAYOUT), and a receiver    *)
(* built as the library means it: it collects octets in one buffer of      *)
(* MCL_WIRE_TIER0_EXT_MAX_SIZE, calls mcl_wire_tier0_decode_ext_accept on  *)
(* what it has, waits on TRUNCATED, walks the extensions through the       *)
(* reader, which borrows the buffer, and moves on by `consumed`.  Octets   *)
(* go on arriving during the call and the walk, behind what is borrowed.   *)
(*                                                                         *)
(* The calls are the steps of DecodeExt, the octets sent are those of      *)
(* Envelope; the receiver is the library's caller and not in src/.         *)
(***************************************************************************)
EXTENDS DecodeExt, Envelope

CONSTANTS Streams,      \* what may be sent: sequences of [octets, content]
          Understood    \* ids of the critical extensions the receiver accepts

VARIABLES sent,         \* the stream of this behaviour
          arrived,      \* octets of it that have arrived
          buffer,       \* the receiver's buffer
          stage,        \* "receive", "call", "walk", "use" or "closed"
          walker, element, more, walked, gathered,  \* the walk through the block
          delivered     \* [object, list] handed to the user

callVars == <<pc, data, callback, base, block, scanVars, status, outputs, asked, released>>
walkVars == <<walker, element, more, walked, gathered>>
streamVars == <<calls, sent, arrived, buffer, stage, walkVars, delivered>>
wireVars == <<callVars, streamVars>>

MaxFixedSize == 17  \* MCL_WIRE_TIER0_MAX_SIZE

ExtMaxSizeShortLength == MaxFixedSize + 1 + BlockMax
\* MCL_WIRE_TIER0_EXT_MAX_SIZE
ExtMaxSize == MaxFixedSize + 2 + BlockMax

\* The reader the call has set on the block, walked in the receiver's buffer.
Walk == INSTANCE ExtensionReader WITH
            Blocks <- {}, block <- SubSeq(buffer, reader.base + 1, reader.base + reader.size),
            reader <- walker, extension <- element, has_extension <- more,
            status <- walked, yielded <- gathered, failed <- walked # "OK"

-----------------------------------------------------------------------------
OctetsOf(stream) == FlattenSeq([n \in DOMAIN stream |-> stream[n].octets])

\* The octets of a stream before its nth entry.
Before(stream, n) == Len(FlattenSeq([m \in 1 .. n - 1 |-> stream[m].octets]))

\* An object the encoder wrote, and one the receiver may act on.
WellFormed(content) == content.object.kind \in Kind
Acceptable(content) ==
    /\ WellFormed(content)
    /\ \A n \in DOMAIN content.list :
          content.list[n].critical = 1 => content.list[n].id \in Understood

\* What the encoder writes extensions for: ids ascend, and the block is not too long.
Extensible(list) ==
    /\ list \in Seq([id : Nat \ {0}, critical : {0, 1}, value : Seq(Octet)])
    /\ \A m, n \in DOMAIN list : m < n => list[m].id < list[n].id
    /\ \A n \in DOMAIN list : KeyOf(list[n]) \in Word /\ Len(list[n].value) \in Word
    /\ Len(Elements(list)) <= BlockMax

\* Octets of the encoder: at the Experimental major, or at the Stable major of an
\* object without extensions that this major carries whole.
Encoded(octets, o, list) ==
    /\ WellTyped(o) /\ o.priority \in Nat
    /\ Extensible(list)
    /\ \E major \in {EXPERIMENTAL_MAJOR, STABLE_MAJOR} :
          /\ EncodeAtMajor(major, o, [k \in 1 .. 17 |-> 0], 17).status = "OK"
          /\ octets = IF list = <<>> THEN FixedEncoding(major, o) ELSE Canonical(o, list)
          /\ major = STABLE_MAJOR =>
                list = <<>> /\ (o.kind = "PRESENCE" => o.body.machine_class = 0)

\* An extension starts at an octet, with an id above those of the starts before it,
\* and another start, or the end, follows it.
StartsAt(octets, starts, at) ==
    LET Key(from) == UvarintDecode(octets, from)
        size == UvarintDecode(octets, at + Key(at).used)
    IN  /\ Key(at).status = "OK" /\ size.status = "OK"
        /\ Key(at).value \div 2 # 0
        /\ \A from \in starts : from < at => Key(from).value \div 2 < Key(at).value \div 2
        /\ at + Key(at).used + size.used + size.value \in starts

IsBlock(octets) ==
    \E starts \in SUBSET (0 .. Len(octets)) :
        /\ 0 \in starts
        /\ \A at \in starts \ {Len(octets)} : StartsAt(octets, starts, at)

\* An object, with the block it promises, at the start of the octets.
Readable(octets) ==
    LET body   == DecodeBody(octets, NoObject)
        length == UvarintDecode(octets, body.consumed)
        from   == body.consumed + length.used
    IN  /\ body.status = "OK"
        /\ HeaderDecode(octets).extension_present = 1 =>
              /\ length.status = "OK" /\ length.value \in 1 .. BlockMax
              /\ length.value <= Len(octets) - from
              /\ IsBlock(SubSeq(octets, from + 1, from + length.value))

\* The length of a block takes two octets at most.  An entry is an object the encoder
\* wrote, or it makes no object whatever follows it.
ASSUME StreamsAssumption ==
    /\ BlockMax <= WordMax /\ BlockMax < Group * Group
    /\ \A stream \in Streams :
          /\ Len(stream) \in Nat /\ DOMAIN stream = 1 .. Len(stream)
          /\ \A n \in DOMAIN stream :
                LET octets == stream[n].octets
                    content == stream[n].content
                IN  /\ octets \in Seq(Octet)
                    /\ content = [object |-> content.object, list |-> content.list]
                    /\ IF WellFormed(content) THEN Encoded(octets, content.object, content.list)
                       ELSE \A end \in Before(stream, n) + 1 .. Len(OctetsOf(stream)) :
                               ~Readable(SubSeq(OctetsOf(stream), Before(stream, n) + 1, end))

AllOctets == OctetsOf(sent)

StreamInit ==
    /\ Init
    /\ sent \in Streams /\ arrived = 0 /\ buffer = <<>>
    /\ stage = "receive"
    /\ walker = Scan!ReaderInit /\ element = Scan!Unwritten /\ more = FALSE
    /\ walked = "OK" /\ gathered = <<>>
    /\ delivered = <<>>

-----------------------------------------------------------------------------
\* One more octet, when the buffer has room for it.
Arrive ==
    /\ stage # "closed"
    /\ arrived < Len(AllOctets) /\ Len(buffer) < ExtMaxSize
    /\ arrived' = arrived + 1
    /\ buffer' = Append(buffer, AllOctets[arrived + 1])
    /\ UNCHANGED <<callVars, calls, sent, stage, walkVars, delivered>>

\* What was too short for the last call would be too short again.
Waiting == status = "TRUNCATED" /\ data = buffer

TryDecode ==
    /\ stage = "receive" /\ buffer # <<>> /\ ~Waiting
    /\ Enter(buffer, TRUE)
    /\ stage' = "call"
    /\ UNCHANGED <<calls, sent, arrived, buffer, walkVars, delivered>>

\* The call runs on; the accept function answers by the id.
InCall ==
    /\ \/ ScanFails \/ ScanReads \/ ScanEnds
       \/ Accept /\ extension.id \in Understood
       \/ Refuse /\ extension.id \notin Understood
    /\ UNCHANGED streamVars

Returns == stage = "call" /\ pc = "idle"

StartWalk ==
    /\ Returns /\ status = "OK"
    /\ stage' = "walk"
    /\ walker' = reader.next /\ gathered' = <<>>
    /\ UNCHANGED <<callVars, calls, sent, arrived, buffer, element, more, walked, delivered>>

\* TRUNCATED asks for more octets, until no object could be any longer.
Wait ==
    /\ Returns /\ status = "TRUNCATED" /\ Len(data) < ExtMaxSize
    /\ stage' = "receive"
    /\ UNCHANGED <<callVars, calls, sent, arrived, buffer, walkVars, delivered>>

GiveUp ==
    /\ Returns
    /\ status # "OK"
    /\ status = "TRUNCATED" => Len(data) = ExtMaxSize
    /\ stage' = "closed"
    /\ UNCHANGED <<callVars, calls, sent, arrived, buffer, walkVars, delivered>>

\* One round of the walk.  A reader that failed on what the call validated would
\* leave the receiver here, and ImplementsFifo violated.
WalkOne ==
    /\ stage = "walk"
    /\ UNCHANGED <<callVars, calls, sent, arrived, buffer, stage, delivered>>
    /\ Walk!Yield

\* The reader reports the end of the block.
WalkEnds ==
    /\ stage = "walk"
    /\ UNCHANGED <<callVars, calls, sent, arrived, buffer, delivered>>
    /\ Walk!Finish
    /\ stage' = "use"

\* The value is used from where it lies in the buffer.
Borrowed(e) ==
    [id |-> e.id, critical |-> e.critical,
     value |-> SubSeq(buffer, reader.base + e.value + 1, reader.base + e.value + e.value_size)]

\* The user is handed the object, and its octets are dropped.
Deliver ==
    /\ stage = "use"
    /\ delivered' = Append(delivered,
           [object |-> object, list |-> [n \in DOMAIN gathered |-> Borrowed(gathered[n])]])
    /\ buffer' = SubSeq(buffer, consumed + 1, Len(buffer))
    /\ stage' = "receive"
    /\ UNCHANGED <<callVars, calls, sent, arrived, walkVars>>

Receiver ==
    \/ TryDecode \/ InCall \/ StartWalk \/ Wait \/ GiveUp
    \/ WalkOne \/ WalkEnds \/ Deliver

StreamNext == Arrive \/ Receiver

\* Octets keep arriving, and the receiver does not stop half way.
StreamSpec ==
    StreamInit /\ [][StreamNext]_wireVars /\ WF_wireVars(Arrive) /\ WF_wireVars(Receiver)

-----------------------------------------------------------------------------
\* Every object sent comes out whole, once and in order, with the extensions it was
\* sent with read from the borrowed buffer; the receiver gives up only at an object
\* that it may not act on; and every object before the first such does arrive: the
\* buffer of MCL_WIRE_TIER0_EXT_MAX_SIZE is never too small for one
\* (extension.h:81-84, 115-119, 192-195; extension.c:371).
Fifo == INSTANCE ObjectFifo WITH
            Admissible <- Acceptable,
            sent <- [n \in DOMAIN sent |-> sent[n].content], closed <- stage = "closed"
ImplementsFifo == Fifo!Spec

\* An object of the encoder is TRUNCATED exactly until its last octet is there, and
\* with whatever behind it is taken for what it is: a receiver that waits is right to
\* wait, and one that does not has all it needs (extension.c:315, 332, 371).
ObjectsAreSelfDelimiting ==
    (Returns /\ Len(delivered) < Len(sent)) =>
        LET due == sent[Len(delivered) + 1]
        IN  WellFormed(due.content) =>
                /\ status = "TRUNCATED" <=> Len(data) < Len(due.octets)
                /\ status = "OK" => consumed = Len(due.octets)
=============================================================================
