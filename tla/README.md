# mcl-wire in TLA+

A verification project for the C library in `src/`: the fixed Tier-0 objects and
duration codes of `src/src/wire.c`, and the extension envelope of
`src/src/extension.c`. The library has no heap, no globals and no threads. What
is hard in it is not scheduling but *sequences*: octets that arrive one by one
or altered, calls repeated after an error, callbacks in the middle of a
validation, several passes over one list into one buffer, values encoded again
from hop to hop. The models are built around those. Beside the library, the two tools
that guard its published tables are modelled: the validator of the extension
registry and the validator of the body layouts.

Paths below are relative to the repository; `extension.c` and `wire.c` are the
files in `src/src/`, `extension.h` and `wire.h` those in `src/include/mcl/`.

## Inventory

| Component | State it keeps | Operations | Interacts with |
|---|---|---|---|
| uvarint codec, `extension.c:11-96` | none across calls; an accumulator inside | size, encode, decode | called by the block encoder, the reader, the decoder; by a receiver on a growing buffer |
| extension block reader, `extension.c:375-448` | borrowed block, offset, previous id | init, next | walked by the caller; by the decoder's scan |
| extension block encoder, `extension.c:98-272` | the caller's buffer | encoded_size, encode, tier0_encode_ext | sizes, encodes the body, writes length and block, sets the bit |
| extension-aware decoder, `extension.c:274-373` | its own reader; the caller's object, reader, consumed | tier0_decode_ext, tier0_decode_ext_accept | body decoder, uvarint decoder, reader, the caller's accept function |
| Tier-0 fixed codec, `wire.c:20-150, 220-749` | bit position; the caller's buffer or object | header, kind tables, sizes, encode, encode_at_major, decode_body, decode | used by both extension paths |
| duration codes, `wire.c:154-218` | none | seconds, encode | callers put the code into `ttl` and `validity` |
| registry validator, `tools/validate_extension_registry.c` | ranges and assignments it has read | one pass over the JSON registry, by text searches | a test of the build: maintainers' edits pass it before they are published |
| layout validator, `tools/validate_tier0_layout.c` | its own table of the bodies | compares the table with the codec, both ways | calls the fixed codec; a test of the build |
| vector validators, benchmark, tests | none | compare codec and published vectors | build time only |

What makes each correct, and what is hard about it:

- **uvarint**: one form per number, none lost to 32 bits, and the three negative
  answers told apart: `TRUNCATED` means wait, the others mean give up. A receiver
  without framing depends on it.
- **reader**: its caller may keep calling after an error, when `offset` stands
  behind a key or a length that was refused. Ids must still ascend, values must
  lie in the block and not overlap. Its loop must end.
- **block encoder**: two loops validate and measure the same list and must not
  drift; the limit of 256 octets is checked before each addition; the buffer is
  the caller's, so a failure half way leaves octets behind, and the extension bit
  must not be among them.
- **extension-aware decoder**: nothing is released before the last element has
  been validated and every critical one accepted; outputs belong to the last
  success, whatever failed after it.
- **fixed codec**: layouts, codes and sizes are written out several times and
  have to agree; padding, unassigned codes and kinds that a major does not carry
  must not give a second reading.
- **stream**: objects stand back to back without an envelope, so `TRUNCATED`
  decides whether a receiver waits, `consumed` where the next object starts, and
  values are used from the buffer while it goes on filling.
- **registry validator**: what it passes is published, and ids are never taken
  back. It finds everything by searching the text, and a search does not stop at
  the end of an entry, nor tell a key from a text that says the same or the brackets
  of an array from those in a text.
- **durations**: rounding down, in the gaps between bands too, so that encoding
  again on every hop never lengthens an interval. No receiver knows how long an
  object was on its way: the interval restarts on each decode.

## Modules

| Module | Models | State and actions |
|---|---|---|
| `Uvarint` | the codec as operators; `Group` (128 in the code) and `WordMax` (`UINT32_MAX`) are parameters | none |
| `UvarintStream` | a receiver that decodes all it has after each octet | `received`, `verdict`; `Receive` |
| `UvarintStreamProofs` | proofs about it | |
| `ExtensionReader` | reader_init and reader_next | the reader, the caller's extension and flag, the status, histories `yielded`, `failed`; one action per way out of a call: `Finish`, `FailInKey`, `FailOnId`, `FailInSize`, `FailOnValue`, `Yield` |
| `ExtensionReaderProofs` | proofs about it | |
| `Tier0` | header, tables, layouts, bit writers and readers, encode_at_major, decode_body, decode, as operators on octets | none |
| `Tier0Codec` | a sender, a medium that may alter one octet, a receiver that reuses its object | `memory`, requests and results, `object`; `Encode`, `Disturb`, `Receive` |
| `CodecLemmas` | proofs about the uvarint codec; lemmas about flattening, bits, positions and layouts that several modules of proofs cite | |
| `Tier0CodecProofs` | proofs about `Tier0Codec` | |
| `Tier0Layout` | the published table of the bodies and the layout validator's comparison, as operators on an object and its octets | none |
| `Envelope` | the octets of an object with extensions, as operators | none |
| `DecodeExt` | decode_ext and decode_ext_accept, instancing `ExtensionReader` for the scan, and a caller who may call again | call state, the scan's reader, the caller's outputs, histories; `Enter` (all that happens before the scan), `ScanFails`, `ScanReads`, `ScanEnds`, and the accept function's `Accept`, `Refuse`, or `RefuseUnasked` when there is none |
| `DecodeExtProofs` | proofs about it | |
| `ObjectFifo` | abstract specification: a queue of objects, handed over whole, once and in order, up to the first that may not be acted on | `sent`, `delivered`, `closed`; `Deliver`, `Close` |
| `WireStream` | a stream of encoded objects, octets arriving one by one, and a receiver that decodes, waits, walks the block and moves on; composed of `DecodeExt`, `ExtensionReader` and `Envelope` | the decoder's state, `buffer`, the walk's reader, `delivered`; `Arrive`, `TryDecode`, the decoder's steps (`InCall`), `StartWalk`, `WalkOne`, `WalkEnds`, `Wait`, `GiveUp`, `Deliver` |
| `WireStreamProofs` | proofs about it | |
| `EncodeExt` | the three encoding functions | `memory`, `block` (sized), `offset` (written), the extension a pass is at; `Begin`, `SizeOne`, `SizeDone`, `EncodeBody`, `EncodeLength`, `WriteOne`, `WriteDone`, `Finish` |
| `EncodeExtProofs` | proofs about it | |
| `Duration` | duration codes as operators | none |
| `DurationHops` | a sender and a chain of receivers, each of which counts its interval from its own receipt and may send on what is left; a transmission may take time, which nobody counts | `lifetime`, `elapsed`, `onTheWay`, `asked`, `code`, `age`, `hops`; `Publish`, `Arrive`, `Pause`, `Expire`, `Forward` |
| `DurationProofs` | proofs about both | |
| `ExtensionRegistry` | the registry validator's decision, and the maintainers who edit a draft and publish what it passes | `draft`, `published`; `MoveBound`, `ChangePolicy`, `Describe`, `AddRange`, `RemoveRange`, `Assign`, `Withdraw`, `Recount`, `Publish` |
| `MC*` | values of the constants for TLC | |

How they correspond to the code:

- A buffer is a sequence of octets. Offset *n* of the code is element *n*+1. A
  pointer into a buffer is an offset into it: the value of an extension is the
  window of `value_size` octets at offset `value`.
- `MCL_TRY` returns are actions of their own in the reader and disjuncts
  elsewhere; what a function has written before it returns stays written: the
  reader's offset after an error, the object after a padding error, the octets of
  a body whose block did not fit.
- Inside a call of the decoder every round of the scan is a step and the accept
  function, being the caller's code, may answer either way every time.
- The receiver of `WireStream` is the library's caller, which is not in the
  repository; it does what `extension.h` and the codec's answers ask of it. A
  value inside a complete block that reaches past it is `TRUNCATED` too
  (`extension.c:434`, `spec/tier0-extensions-v0.1.md:125`), so a receiver that
  waits on every `TRUNCATED` has to give up when its buffer of
  `MCL_WIRE_TIER0_EXT_MAX_SIZE` is full. The model's does, and only then.
- The registry's document is a sequence of tokens (quoted words, numbers, colons,
  brackets); a pointer into the text is an index, `NULL` is 0, and `strstr` and
  `strchr` search to the end of the document. A text is the word that a search can
  find in it and the brackets it holds: it may be called as a key the tool looks for
  ("total", "id", "assignments"), and its brackets count for `array_span`. A colon in
  a text changes nothing: a search that stops at a text has matched up to its closing
  quote, and the next colon is the one behind the following key.
- The layout validator sets one field at a time to one value. The comparison it
  makes is an invariant here, of all that the codec's run sends.
- A 32-bit reference is the pair of its halves, because TLC's integers are 32-bit
  and signed. For the same reason runs with 7-bit groups have a word of 2^30 - 1,
  which also needs five groups, the last one in part.
- Suffixed definitions standing before the one they vary (`OverflowsEarly` before
  `Overflows`) are mutated forms: plausible slips, listed in `PROJECT.json`, that
  the property named there notices. Nothing refers to them.

Left out throughout: the checks for null arguments, the check for a reader whose
fields the caller has overwritten (`data == NULL`, `offset > size`), `value_size`
above 2^32, the volatile qualifier of `mcl_zero_bytes`, and buffers that overlap; of the registry
validator, the reading of the file, the lengths of its strings, and brackets in a
policy or a status.

## Runs

Every run is a module and a `.cfg`; times are for two workers.

| Run | cfg | Shows | Instance |
|---|---|---|---|
| `uvarint_stream` | `MCUvarintStream.cfg` | decoding accepts exactly the encodings and returns their values (`DecodesExactlyTheEncodings`), decides within five octets (`FiveOctetsDecide`) and never changes an answer other than `TRUNCATED` (`AnswerIsFinal`) | 2-bit groups, 9-bit words, all sequences of up to 6 octets: 299 593 states, 15 s |
| `extension_reader` | `MCExtensionReader.cfg` | `IdsAscend`, `ValuesInOrder`, `CleanWalkIsCanonical`, `CallsMoveForward`, and `WalkEnds` under fairness | all blocks of up to 4 octets over 8, of 5 over 5 and of 6 over 4 octets, calls continued after errors: 52 783 states, 50 s |
| `tier0_codec` | `MCTier0Codec.cfg` | `SentIsReceived`, `EncodeRefusesExactly`, `WritesStayInRoom`, `DecodedIsCanonical`, `OnlyAdmissibleObjectsCross`, and that octets and fields are those of the published table (`LayoutAsPublished`) | all kinds, majors 0 to 2, each field at and just beyond the edges of its width, four capacities, memory full of ones, eleven octets of noise at every place: 65 475 states, 60 s |
| `decode_ext` | `MCDecodeExt.cfg` | `ReleasedOnlyIfAccepted`, `ReleasedIsCanonical`, `AskedBeforeRelease` | one call, every tail of up to 4 octets over 6, blocks of four octets (two critical extensions), of the largest size and one more: 13 806 states, 5 s |
| `wire_stream` | `MCWireStream.cfg` | the stream implements the queue (`ImplementsFifo`, with its liveness), `ObjectsAreSelfDelimiting`, `OutputsAreOfLastSuccess` over the many calls of a stream, and `CallsReturn` | 4-bit groups, blocks of up to 16 octets, nine streams of two objects: 15 095 states, 40 s |
| `encode_ext` | `MCEncodeExt.cfg` | `SuccessIsCanonical`, `PassesAgree`, `BitIsSetLast`, `WritesStayInRoom`, `RoomForEveryObject` | 2-bit groups, blocks of up to 7 octets, lists of up to 3 extensions over the edges of ids and lengths, ten capacities around what they need: 41 295 states, 40 s |
| `duration_hops` | `MCDurationHops.cfg` | an object outlives what was asked for it by its time on the way only (`OutlivesByTransitOnly`); `LargestAtOrBelow`, `LossIsSmall`, `ForwardedAtOnceIsUnchanged` | 301 short durations and three around each of 60 places where the encoding changes, six pauses, transmissions of 0 and 5 seconds, two hops: 194 704 states, 30 s |
| `extension_registry` | `MCExtensionRegistry.cfg` | what is published keeps the registry's promises (`PublishedIsPartition`, `PublishedIdsAreAssignable`), and a draft that keeps them can be published (`SoundDraftsPass`), each as long as the texts in question do not mislead the searches | six ids, four ranges, every sequence of two edits, among them texts called as keys and with brackets of every sort: 20 998 states, 50 s |
| `tier0_relabelled` | `MCTier0Relabelled.cfg` | finding 1 | |
| `encode_block_uncapped` | `MCEncodeExtUncapped.cfg` | finding 2 | |
| `registry_incomplete` | `MCRegistryIncomplete.cfg` | finding 3 | |
| `registry_tombstone` | `MCRegistryTombstone.cfg` | finding 4 | |

Why the bounds are enough:

- *Scaled codecs.* `Group` = 4 and `WordMax` = 511 keep every edge of the real
  numbers: five groups at most, the fifth in part, sizes of one to five octets.
  Octets then range over 8 values, so whole input spaces can be visited. A block
  of up to 7 octets is to 2-bit groups what one of 256 is to groups of 7 bits: its
  length needs two octets. `wire_stream` has 4-bit groups, because an octet has to hold
  what the fixed codec writes at the major and priorities of its objects, and blocks
  of up to 16 octets, which need two again. `encode_block_uncapped` has the real
  sizes.
- *Blocks.* An element needs two octets; six octets hold three elements, or one
  that resumes inside another after an error. The alphabet has keys of four ids,
  critical and not, lengths that fit, just fit and do not, a padded number and a
  two-octet one.
- *Objects.* Fields are written one after the other and no field's handling looks
  at another's value, so one field at a time takes its edges, around a low and a
  high object. An octet of noise reaches every header field, the padding and the
  octet before it.
- *Streams.* The receiver keeps nothing of an object it has delivered but the
  outputs of the last success, so two objects meet every case: plain, with
  extensions, of the largest size, of the Stable major, refused for each reason
  that an object is refused for, and one whose inner length never fits. Octets
  arrive at every point of a call and of a walk.
- *Registry.* Six ids have the shape of the published table: zero reserved, two
  policies, a reserved rest. A violated promise of the range table needs one or
  two entries; two edits reach duplicates, gaps, overlaps, ranges out of order,
  entries that lack a field before one that has it, and a misleading text before
  or behind an entry that breaks a promise. What the texts must not say is named:
  `RangesAreSeen` (a range's policy or detail is not "first" or "assignments"),
  `AssignmentsAreSeen` (no text or status of an assignment is "id", and the brackets
  of each text close), `CountsAreSeen` (nothing before the summary is called as one
  of its counts).
- *Hops.* One hop's code is the next one's only input; pauses reach from a second
  to most of a day. That transmissions take time decides what can be promised
  (`spec/duration-v0.1.md:140-146`); how much does not, since nobody counts it. The
  proofs remove these bounds altogether.

Deadlock is not checked where a behaviour is meant to stop: at the end of a call
(`EncodeExt`), of one call or of a bounded number of octets (`DecodeExt`,
`UvarintStream`), of a transmission (`Tier0Codec`), of a stream (`WireStream`), or
of a lifetime (`DurationHops`). The reader can always be called again and the
registry always be recounted, so their runs check it.

Fairness is assumed in two places. `WF_vars(Next)` of the reader: its caller
keeps calling, as the `for(;;)` at `extension.c:343` does. In `WireStream`,
`WF(Arrive)`: the medium goes on delivering what was sent; and `WF(Receiver)`:
code inside a call runs on, the accept function returns, which
`extension.h:177-180` requires of it, and the receiver calls again when there are
new octets. Nothing is lost on the way: the library has no retransmission.

## Proofs

`tlapm` checks eight modules of theorems; everything holds for all values of the
constants that satisfy their assumptions. None of the properties below is
inductive alone: each is a consequence of an inductive invariant, which is named.
The library's induction theorems take an operator as a parameter, which no backend can
instantiate; where a proof needs induction it is stated over a set of
numbers (`AllNumbers` in `CodecLemmas`: a set with 0 that is closed under + 1
holds every number), and a recursive function is shown to exist, to be unique and
to satisfy its equation the same way (`RecursionExists`, `FlattensExists`).

What is assumed, and why the code justifies it:

- `UvarintAssumption`: a group above 1 and a word that five groups just cover,
  as 7 bits and `UINT32_MAX` are. `StreamAssumption`: the bound is a number.
- `BlocksAssumption`, `DecodeExtAssumption`: blocks and inputs are sequences of
  octets, an octet has at most eight bits, a block limit above 0.
- `EncodeExtAssumption`, `CodecAssumption`: the C types of the arguments (an id is
  a `uint32_t`, an octet a `uint8_t`), a block limit that two groups can count
  (256 and 7 bits in the code), that a caller offers no more room than the
  memory has, which both headers ask for, and that the union of an object holds
  the struct of its kind (`WellTyped`), which the encoder's switch relies on.
- `DurationHopsAssumption`: lifetimes, pauses and transits are numbers of seconds.
- `StreamsAssumption`, of `WireStream`: the length of a block takes two groups at
  most (256 and 7 bits in the code); and what may be sent is finite sequences of
  entries of two sorts. One is what the encoder writes (`Encoded`: an object of a
  type the encoder takes, extensions with ascending ids in a block that is not too
  long, at a major that carries all of them). The other is octets that make no
  object however many of them and of what follows have arrived (`Readable`, said
  without the decoder's scan: a body, the length of a block, and a division of the
  block into extensions with ascending ids). Nothing is assumed of how an object
  is cut by arrival or of what follows one.

**`CodecLemmas`**, first of the uvarint codec: the encoder and the decoder are
inverse. `SizeIsLength`: the sizing function counts the octets the encoder writes,
one to five.
`DecodedIsEncoding`: the octets of every successful call are the encoder's for the
value returned, so no number has a second form. `EncodingIsDecoded`: every
encoding is decoded to its word and its own length, whatever follows. The lemma
`DecodeWaysOut` turns the decoder's loop into its first halting octet;
`DecodedRounds` and `EncodedOctets` say what the two loops have done after each;
`ElementWindow` is what both modules that read extensions need of them.

Then of what the operators of `Tier0` and of the community modules
return. Flattening, and where a part lies in the whole (`FlatPart`); numbers and
their bits (`BitsOfOctet`, `OctetBits`, `SameBits`: octets with the same bits are
equal); what or-ing bits into memory
does to every bit (`OrBitsWritten`) and leaves alone (`OrBitsElsewhere`); where
fields start; the ways out of `EncodeAtMajor` (`EncodeCases`); that the octets it writes do
not depend on what memory held (`EncodeIsLocal`). Then the layouts: both switches
spell out the same one (`ReadAsWritten`), no layout names a field twice
(`NamesDiffer`), and its fields end within the size the table gives (`LayoutFacts`).
From these what a call answers (`EncodeAnswers`, `DecodeGives`), and the way
of an object through the bits: a successful encode leaves octets that carry it
(`EncodeCarries`), a field is read back from its bits as the number it was, sign
included (`FieldCarried`), so all of them are (`ObjectCarried`), and
`DecodeCarried` is the decoder's answer to octets that carry an object. And the way
back: what is read of any bits fits its field and is written as those bits
(`FieldOfBits`), every bit before the padding is of some field (`PositionsCover`),
and so a successful decode is undone by encoding what it gave (`DecodedEncodesBack`).

**`UvarintStreamProofs`**: `StreamInv` is that the verdict is the decoder's answer to
what has arrived. From it and the codec's theorems `StreamDecodesEncodings`,
`StreamFiveOctetsDecide` and the action property `StreamAnswerIsFinal`, whose
step is that a further octet is not looked at by a decoder that has halted.

**`ExtensionReaderProofs`**: `IdsAscend` is not inductive, since the next id is
compared with `previous_id` and not with the history. `PreviousIsLast` ties the
two, and says also that failed calls do not disturb it. `ReaderInv` is `TypeOK`,
`IdsAscend`, `ValuesInOrder` and `PreviousIsLast`; `FailInv` and `YieldInv` are the
two kinds of step. `ReaderWalkIsCanonical` needs one more, `CanonInv`: while no call has
failed, the octets up to `offset` are the encodings of what was handed out, one
after the other. Also the action property `ReaderMovesForward`.

**`DecodeExtProofs`**: `DecodeInv` is the types, `ScanInOrder` (what the reader's
invariant says, of the reader inside a call), `AskedAreCriticals` (while nothing
failed the accept function has been asked about exactly the critical extensions read,
but for the one it is about to be asked about, and has agreed every time),
`OutputsAreOfLastSuccess` and `ReadingStands`: while a block is scanned, what stands before
it in the buffer is the canonical body with extension_present set and the block's own
length, and what has been read of it is the elements scanned (`BlockStands`); the end
of the scan is then the end of the one encoding. From it `DecodeReleasesOnlyAccepted`,
`DecodeReleasedIsCanonical`, `DecodeOutputsOfLastSuccess` and the action property
`DecodeAsksBeforeRelease`. The lemmas
speak of `Enter` and `Proceed`, whoever takes these steps, so that a module that
composes them can cite them.

**`WireStreamProofs`**: what the encoder wrote is what the receiver hands out, over
the whole of both. `ObjectsAreSelfDelimiting` speaks only of a call that has
returned, so `StreamInv` says what stands at every stage of the receiver:

- `CallInv`, the decoder's invariant, whoever makes the calls.
- `BufferStands`: `delivered` is the first entries of the stream, and `buffer` is
  what has arrived of the octets behind them. With `StreamInOctets`, the entry that
  is due starts at the first octet of the buffer (`BufferStartsWithDue`).
- In a call on an object of the encoder, `CallStands`: in the scan the object is
  there whole, the extensions read are the first of its list, and those asked
  about are understood (`Reading`); at the end the answer is the right one
  (`Answered`). It rests on two lemmas: `BodyOfEncoded`, that the body decodes
  from its own length on whatever follows it, and `ListReads`, that each extension of
  a list is read from its own octets up to the start of the next.
- In a call on anything else, `Hopeless`: the scan has divided the octets up to its
  offset into extensions with ascending ids (`Marks`), so that a scan that ended
  would have found an object where the stream has none.
- In the walk, `Walked`: what the reader has handed out are the first of the list,
  each with its value's place in the block and the last with its id in `walker`;
  the block is lent whole from the buffer (`BlockIsLent`) and does not move while
  octets arrive behind it (`ArriveKeeps`).

Theorems: `StreamSelfDelimits`, `StreamOutputsOfLastSuccess`, and
`StreamImplementsFifo`: `Deliver` is the queue's `Deliver`; `GiveUp` is its `Close`,
since a buffer of `MCL_WIRE_TIER0_EXT_MAX_SIZE` that is full holds the object that is
due; every other step changes nothing of the queue.
`StreamWalkGoesOn`: a walk that is not at its end has a next extension to hand out,
so none fails on what the call took. Nothing of this says that the receiver ever
gets on; the run does, with the fairness of `StreamSpec`.

**`EncodeExtProofs`**: `IInv` says of each program point what has been done.
After *i* extensions the first pass has counted, and the second has written
behind header, body and length, `Prefix(list, i - 1)`: the octets of exactly these
*i* - 1 extensions (`AtSize`, `AtWrite`); the body in memory is the codec's
(`BodyThere`), its extension bit clear until `Finish`. The two passes agree because
both are tied to `Prefix`, not to each other; the properties mention no
program point and are not inductive without. Theorems: `EncodeSuccessIsCanonical`,
`EncodePassesAgree`, `EncodeHasRoomForEveryObject`, `EncodeSetsTheBitLast` and the
action property `EncodeStaysInRoom`.

**`Tier0CodecProofs`**: `CodecInv` is the types, `EncodeRefusesExactly`,
`OnlyAdmissibleObjectsCross`, `SentIsReceived`, `DecodedIsCanonical`, `LayoutAsPublished` and
`SentStands`: after a successful call the
object fits, `written` is its size, and until the medium alters one the octets of memory
carry it. Without that last part `SentIsReceived` is not inductive, because it speaks only
of the end. That the switches of the codec have the published layout is shown row by row
(`RowOfEach`), and that reading by the one is reading by the other follows
(`ReadAsPublished`). Theorems: `CodecTypes`, `CodecRefusesExactly`, `CodecSentIsReceived`,
`CodecDecodedIsCanonical`, `CodecLayoutAsPublished`, `CodecOnlyAdmissibleCross` and the
action property `CodecStaysInRoom`. What TLC
tries with the edges of each field holds for every value of every field, every
former content of memory and every room.

**`DurationProofs`**, about the real tables (no parameter), and about
`DurationHops` for all lifetimes, pauses, transits and numbers of hops.
`SecondsIncrease`: the decoder is strictly increasing. `LoopStops`: the encoder's
loop always stops, so its last return is unreachable as its comment says.
`EncodeBrackets`: the code written names at most the duration, the next code
more; by cases on the gap below a band and on the top of a band, where the next
code belongs to the next band. From these `EncodeIsLargest` and
`EncodeInvertsSeconds`. `HopsInv` is `TypeOK`, `OutlivesByTransitOnly`,
`LargestAtOrBelow`, `LossIsSmall` and `NotStarted` (no clock runs before the
object is sent, needed for the step that sends it). Theorems: `HopsInvariant`,
`HopsTypes`, `HopsAddOnlyTransit`, `HopsLargest`, `HopsLoseLittle`,
`HopsUnchangedAtOnce`.

Every module also proves its `TypeOK`.

**Model-checked only.** Liveness (`WalkEnds`, `CallsReturn` and the fairness part of
`ImplementsFifo`) is out of the prover's reach. The properties of
`ExtensionRegistry` have no proof: the tool's text searches and its sort would have
to be followed token by token.

## Findings

1. *A major-0 PRESENCE relabelled major 1 decodes* (`tier0_relabelled`).
   `spec/common-header-v0.2.md:105-107` has it refused on length. The decoder
   asks for at least 10 octets and there are 11; one is left over, which only a
   caller who compares `consumed` with a frame's size notices.
2. *A block larger than the largest can be encoded* (`encode_block_uncapped`).
   `extension.h:105` and `extension.c:200-201` say it never is; the limit is in the
   size function only, and `mcl_wire_extensions_encode` is public. Within
   `mcl_wire_tier0_encode_ext` the limit holds. `tests/test_extension.c:63-86` itself
   expects `MCL_WIRE_OK` of the public function for up to 11 values of up to 39 octets.
3. *An assignment without a required field can be published*
   (`registry_incomplete`). `registries/extension-ids-v0.1.json:70` says the tool
   enforces the fields. It searches for them to the end of the document, finds
   them in a later entry or in the rules themselves, and never looks for `detail`.
4. *A registry with a tombstone can not be published* (`registry_tombstone`), which
   line 81 of the registry asks for: the tool takes the status for the count of
   the summary and reads 0. So it does with any name, detail or other text before the
   summary that is just "assigned", "deprecated" or "total"
   (`validate_extension_registry.c:86-106`, `380-382`), and a text that is just "id"
   is taken for a further assignment. A sound draft with such a text can be refused,
   and one with an assignment called "total" is; `SoundDraftsPass` is about drafts
   without.

The published table is empty, so findings 3 and 4 are about the first assignments to
come.

Five smaller remarks. The size table in the repository's `README.md:125` gives 13
octets for a `TRANSPORT_OFFER` at major 0; the code and the sentence below the
table have 17. `spec/duration-v0.1.md:83-84` and `tests/test_duration.c:196` place
the worst rounding loss just below a band bottom; it is one second below the
second code of a band (278 527 s encode as 262 144 s), and the bound itself, one
part in sixteen, is right and proved (`HopsLoseLittle`). Lines 198-199 of the same
test say that below a minute the steps are one second; from 32 seconds on they are
two. The registry validator reads at most 32 ranges and 256 assignments and says
nothing of further ones (`validate_extension_registry.c:225, 304`): what they break
would not be noticed, and a sound table of that size be refused. The model keeps its
documents within these limits. Its `array_span` counts the brackets inside texts
(lines 161-173): with "[0, 10)" in a detail the array of assignments has no end, none
is read, and a sound registry is refused; but with a summary that still says 0 a
registry passes whose assignment is in a reserved range or assigned twice, and a lone
"]" hides the assignments behind it. That is why `PublishedIdsAreAssignable` and
`SoundDraftsPass` have `AssignmentsAreSeen` as a condition; without it TLC finds both
violated.

## Not modelled

The vector validators, the benchmark and the tests: programs that run once over
published files, with no behaviour that is not the codec's. Tests and documents
were read for intent and are quoted where they disagree with the code. A caller
who overwrites octets that a reader still borrows is outside the library's
contract (`extension.h:192-194`) and not modelled; `WireStream` has the caller who
keeps to it and fills the buffer behind them.

## What is left

Every component named above is modelled and checked; the safety properties
of the reader, the uvarint codec and its stream, both extension paths, the receiver
of a stream, the fixed codec and the durations are proved. Left to prove is
`ExtensionRegistry`: that the searches of the tool find in a document what was written
into it, and that the neighbour checks on sorted ranges then imply the partition.
