--------------------------- MODULE DecodeExtProofs ---------------------------
(***************************************************************************)
(* Proofs about the extension-aware decoder, for every payload group, word *)
(* width, block limit and set of buffers: its types, that the outputs are  *)
(* those of the last success, and that success means every critical        *)
(* extension was presented and accepted.                                   *)
(*                                                                         *)
(* The lemmas about a call are about Enter and Proceed, whoever takes      *)
(* these steps; only the theorems are about Spec.                          *)
(***************************************************************************)
EXTENDS DecodeExt, CodecLemmas

-----------------------------------------------------------------------------
\* The scan is an instance of ExtensionReader, which names its own uvarint
\* decoder; it is the same one.
LEMMA OneDecoder ==
    ASSUME NEW octets, NEW at
    PROVE  Scan!UvarintDecode(octets, at) = UvarintDecode(octets, at)
<1>0. \A S : Scan!Cardinality(S) = Cardinality(S)
  BY DEF Scan!Cardinality, Cardinality
<1>1. \A value, k : Scan!ShiftedOut(value, k) = ShiftedOut(value, k)
  BY DEF Scan!ShiftedOut, ShiftedOut
<1>2. \A value : Scan!UvarintSize(value) = UvarintSize(value)
  BY <1>0, <1>1 DEF Scan!UvarintSize, UvarintSize, Scan!MaxGroups, MaxGroups
<1>3. \A acc, octet : Scan!ShiftedIn(acc, octet) = ShiftedIn(acc, octet)
  BY DEF Scan!ShiftedIn, ShiftedIn, Scan!Payload, Payload
<1>4. \A n : Scan!Accumulated(octets, at, n) = Accumulated(octets, at, n)
  BY <1>3 DEF Scan!Accumulated, Accumulated
<1>5. \A n : Scan!Overflows(octets, at, n) = Overflows(octets, at, n)
  BY <1>4 DEF Scan!Overflows, Overflows
<1>6. \A n : Scan!Halts(octets, at, n) = Halts(octets, at, n)
  BY <1>5 DEF Scan!Halts, Halts, Scan!More, More
<1>7. \A size : Scan!OutOfOctets(size) = OutOfOctets(size)
  BY DEF Scan!OutOfOctets, OutOfOctets, Scan!MaxGroups, MaxGroups
<1>8. \A error : Scan!Refused(error) = Refused(error)
  BY DEF Scan!Refused, Refused
<1> DEFINE size == Len(octets) - at
           First(S) == CHOOSE i \in S : \A j \in S : i <= j
           here == {i \in 1 .. MaxGroups : i <= size /\ Halts(octets, at, i)}
           there == {i \in 1 .. MaxGroups : i <= size /\ Scan!Halts(octets, at, i)}
           outcomeHere == [i \in here |->
               LET value == Accumulated(octets, at, i)
               IN  IF Overflows(octets, at, i) THEN Refused("RANGE")
                   ELSE IF UvarintSize(value) # i THEN Refused("NONCANONICAL")
                   ELSE [status |-> "OK", value |-> value, used |-> i]]
           outcomeThere == [i \in there |->
               LET value == Scan!Accumulated(octets, at, i)
               IN  IF Scan!Overflows(octets, at, i) THEN Scan!Refused("RANGE")
                   ELSE IF Scan!UvarintSize(value) # i THEN Scan!Refused("NONCANONICAL")
                   ELSE [status |-> "OK", value |-> value, used |-> i]]
<1>9. UvarintDecode(octets, at) =
         IF here = {} THEN Refused(OutOfOctets(size)) ELSE outcomeHere[First(here)]
  BY DEF UvarintDecode
<1>10. Scan!UvarintDecode(octets, at) =
         IF there = {} THEN Scan!Refused(Scan!OutOfOctets(size))
         ELSE outcomeThere[First(there)]
  BY DEF Scan!UvarintDecode, Scan!MaxGroups, MaxGroups
<1>11. here = there
  BY <1>6
<1> HIDE DEF here, there, First
<1>12. outcomeHere = outcomeThere
  BY <1>2, <1>4, <1>5, <1>8, <1>11
<1> HIDE DEF outcomeHere, outcomeThere
<1> QED
  BY <1>7, <1>8, <1>9, <1>10, <1>11, <1>12

LEMMA OneOctet == Scan!Octet = Octet /\ Scan!Status = Status
  BY DEF Scan!Octet, Octet, Scan!Status, Status

\* The numbers the scan reads, and where it stands after each.
LEMMA ScanCall ==
    ASSUME block \in Seq(Octet), scan \in Scan!Reader, scan.offset <= Len(block)
    PROVE  /\ Scan!Key.status \in Status /\ Scan!Key.value \in Nat
           /\ Scan!AfterKey \in scan.offset .. Len(block)
           /\ Scan!ValueSize.status \in Status /\ Scan!ValueSize.value \in Nat
           /\ Scan!AfterSize \in Scan!AfterKey .. Len(block)
<1>1. /\ {"OK", "TRUNCATED", "RANGE", "NONCANONICAL"} \subseteq Status
      /\ Word \subseteq Nat /\ 0 .. MaxGroups \subseteq Nat
  BY UvarintAssumption DEF Status, Word, MaxGroups
<1>2. scan.offset \in 0 .. Len(block)
  BY DEF Scan!Reader
<1>3. Scan!Key = UvarintDecode(block, scan.offset)
  BY <1>2, OneDecoder DEF Scan!Key, Scan!NumberAt
<1>4. /\ Scan!Key \in [status : Status, value : Nat, used : Nat]
      /\ scan.offset + Scan!Key.used <= Len(block)
  BY <1>1, <1>2, <1>3, UvarintDecodeType
<1>5. Scan!AfterKey \in scan.offset .. Len(block) /\ Scan!AfterKey \in 0 .. Len(block)
  BY <1>2, <1>4 DEF Scan!AfterKey
<1>6. Scan!ValueSize = UvarintDecode(block, Scan!AfterKey)
  BY <1>5, OneDecoder DEF Scan!ValueSize, Scan!NumberAt
<1>7. /\ Scan!ValueSize \in [status : Status, value : Nat, used : Nat]
      /\ Scan!AfterKey + Scan!ValueSize.used <= Len(block)
  BY <1>1, <1>5, <1>6, UvarintDecodeType
<1>8. Scan!AfterSize \in Scan!AfterKey .. Len(block)
  BY <1>5, <1>7 DEF Scan!AfterSize
<1> QED
  BY <1>4, <1>5, <1>7, <1>8

\* mcl_wire_tier0_decode_body answers with a status and, within the buffer,
\* with what it consumed.
LEMMA BodyType ==
    ASSUME NEW input \in Seq(Octet), NEW o
    PROVE  /\ DecodeBody(input, o).status \in Status
           /\ DecodeBody(input, o).consumed \in 0 .. Len(input)
<1> DEFINE header   == HeaderDecode(input)
           major    == header.major_version
           kind     == CodeToKind(header.category, header.opcode)
           required == EncodedSizeAtMajor(major, kind)
<1>1. Len(input) \in Nat
  OBVIOUS
<1>2. required \in Nat
  BY DEF EncodedSizeAtMajor, KindAllowedAtMajor, EncodedSize, Kind
<1> HIDE DEF required, kind, major
<1>3. DecodeBody(input, o).status \in {"TRUNCATED", "UNSUPPORTED_SEMANTIC", "NONCANONICAL", "OK"}
  BY DEF DecodeBody, Undecoded
<1>4. \/ DecodeBody(input, o).consumed = 0
      \/ DecodeBody(input, o).consumed = required /\ ~(Len(input) < required)
  BY DEF DecodeBody, Undecoded, required, kind, major
<1> QED
  BY <1>1, <1>2, <1>3, <1>4 DEF Status

-----------------------------------------------------------------------------
\* TypeOK less the count of calls, which is the caller's, and the types of what
\* the properties do not mention.
CallTypes ==
    /\ pc \in {"idle", "scan", "ask"}
    /\ data \in Seq(Octet) /\ callback \in BOOLEAN
    /\ base \in Nat /\ block \in Seq(Octet)
    /\ base + Len(block) <= Len(data) /\ Len(block) <= BlockMax
    /\ scan \in Scan!Reader /\ extension \in Scan!Extension
    /\ status \in Status
    /\ reader \in [base : Nat, size : 0 .. BlockMax, next : Scan!Reader]
    /\ consumed \in Nat
    /\ scanned \in Seq(Scan!Extension)
    /\ asked \in Seq([extension : Scan!Extension, answer : BOOLEAN])
    /\ pc # "idle" => status = "OK"

\* As in ExtensionReader: a new id is compared with previous_id, which is the
\* last one read (extension.c:417-422).
ScanInOrder ==
    /\ scan.offset <= Len(block)
    /\ \A m, n \in DOMAIN scanned : m < n => scanned[m].id < scanned[n].id
    /\ scan.has_previous <=> scanned # <<>>
    /\ scanned # <<>> => scan.previous_id = scanned[Len(scanned)].id

\* What has been put to the accept function: every critical extension read,
\* less the one it is about to be asked about.
Examined == IF pc = "ask" THEN Len(scanned) - 1 ELSE Len(scanned)
CriticalsIn(s, n) == {s[m] : m \in {k \in 1 .. n : s[k].critical = 1}}

AskedAreCriticals ==
    /\ status = "OK" =>
          /\ {asked[n].extension : n \in DOMAIN asked} = CriticalsIn(scanned, Examined)
          /\ \A m, n \in DOMAIN asked : m < n => asked[m].extension.id < asked[n].extension.id
          /\ \A n \in DOMAIN asked : asked[n].answer
          /\ ~callback => asked = <<>>
    /\ pc = "ask" => /\ scanned # <<>>
                     /\ extension = scanned[Len(scanned)]
                     /\ extension.critical = 1

\* The inductive invariant of the calls.
CallInv == CallTypes /\ ScanInOrder /\ AskedAreCriticals /\ OutputsAreOfLastSuccess

-----------------------------------------------------------------------------

\* Whatever way out of the entry is taken, the call starts on a clean slate.
LEMMA FreshCall ==
    ASSUME scan' = Scan!ReaderInit, scanned' = <<>>, asked' = <<>>, pc' \in {"idle", "scan"},
           block' \in Seq(Octet)
    PROVE  ScanInOrder' /\ AskedAreCriticals'
<1>1. Len(block') \in Nat /\ Len(scanned') = 0 /\ DOMAIN scanned' = {} /\ DOMAIN asked' = {}
  OBVIOUS
<1>2. ScanInOrder'
  BY <1>1 DEF ScanInOrder, Scan!ReaderInit
<1>3. Examined' = 0 /\ CriticalsIn(scanned', 0) = {} /\ {asked'[n].extension : n \in DOMAIN asked'} = {}
  BY <1>1 DEF Examined, CriticalsIn
<1> QED
  BY <1>1, <1>2, <1>3 DEF AskedAreCriticals

\* The types that every entry sets alike.
LEMMA EnterInv ==
    ASSUME CallInv, NEW input \in Seq(Octet), NEW withCallback \in BOOLEAN,
           Enter(input, withCallback)
    PROVE  CallInv'
<1> DEFINE body == DecodeBody(input, object)
           length == UvarintDecode(input, body.consumed)
<1>1. /\ data' = input /\ callback' = withCallback /\ Len(input) \in Nat
      /\ scan' = Scan!ReaderInit /\ scanned' = <<>> /\ asked' = <<>>
      /\ extension' = extension
  BY DEF Enter
<1>2. /\ Scan!ReaderInit \in Scan!Reader /\ <<>> \in Seq(Octet) /\ Len(<<>>) = 0
      /\ <<>> \in Seq(Scan!Extension)
      /\ <<>> \in Seq([extension : Scan!Extension, answer : BOOLEAN])
      /\ BlockMax \in Nat
  BY DecodeExtAssumption DEF Scan!ReaderInit, Scan!Reader
<1>3. body.status \in Status /\ body.consumed \in 0 .. Len(input)
  BY BodyType
<1> HIDE DEF body
<1>4. length.status \in Status /\ length.value \in Nat /\ length.used \in Nat
      /\ body.consumed + length.used <= Len(input)
  <2>1. /\ {"OK", "TRUNCATED", "RANGE", "NONCANONICAL"} \subseteq Status
        /\ Word \subseteq Nat /\ 0 .. MaxGroups \subseteq Nat
    BY UvarintAssumption DEF Status, Word, MaxGroups
  <2> QED
    BY <1>3, <2>1, UvarintDecodeType
<1> HIDE DEF length
<1>5. \/ \E error \in Status : RefuseAtOnce(error)
      \/ ReturnPlain(input, body.consumed)
      \/ StartScan(input, body.consumed, length)
  BY <1>3 DEF Enter, body, length
<1>6. ASSUME NEW error \in Status, RefuseAtOnce(error)
      PROVE  CallInv'
  <2>1. /\ status' = error /\ pc' = "idle" /\ base' = 0 /\ block' = <<>>
        /\ reader' = reader /\ consumed' = consumed /\ released' = released
    BY <1>6 DEF RefuseAtOnce
  <2>2. CallTypes'
    BY <1>1, <1>2, <2>1 DEF CallInv, CallTypes
  <2>3. OutputsAreOfLastSuccess'
    BY <2>1 DEF CallInv, OutputsAreOfLastSuccess
  <2> QED
    BY <1>1, <1>2, <2>1, <2>2, <2>3, FreshCall DEF CallInv
<1>7. CASE ReturnPlain(input, body.consumed)
  <2>1. /\ status' = "OK" /\ pc' = "idle" /\ base' = body.consumed /\ block' = <<>>
        /\ reader' = [base |-> body.consumed, size |-> 0, next |-> Scan!ReaderInit]
        /\ consumed' = body.consumed + 0
        /\ released' = [data |-> input, reader |-> reader', consumed |-> consumed']
    BY <1>7 DEF ReturnPlain, Release, ReaderOn
  <2>2. CallTypes'
    BY <1>1, <1>2, <1>3, <2>1 DEF CallInv, CallTypes, Status
  <2>3. OutputsAreOfLastSuccess'
    BY <1>1, <1>3, <2>1 DEF OutputsAreOfLastSuccess
  <2> QED
    BY <1>1, <1>2, <2>1, <2>2, <2>3, FreshCall DEF CallInv
<1>8. CASE StartScan(input, body.consumed, length)
  <2> DEFINE from == body.consumed + length.used
  <2>1. ASSUME NEW error \in Status, RefuseAtOnce(error)
        PROVE  CallInv'
    BY <1>6, <2>1
  <2>0. from \in Nat /\ from <= Len(input)
    BY <1>1, <1>3, <1>4
  <2> HIDE DEF from
  <2>2. CASE /\ length.value <= BlockMax /\ length.value <= Len(input) - from
             /\ status' = "OK" /\ pc' = "scan" /\ base' = from
             /\ block' = SubSeq(input, from + 1, from + length.value)
             /\ UNCHANGED <<reader, consumed, released>>
    <3>1. block' \in Seq(Octet) /\ Len(block') = length.value /\ from \in Nat
      <4> DEFINE end == from + length.value
      <4>1. end \in Nat /\ end <= Len(input) /\ from <= end /\ end - from = length.value
        BY SMTT(30), <1>1, <1>4, <2>0, <2>2
      <4>2. from + 1 \in 1 .. Len(input) + 1 /\ end \in (from + 1) - 1 .. Len(input)
        BY <1>1, <2>0, <4>1
      <4>3. block' = SubSeq(input, from + 1, end)
        BY <2>2
      <4> HIDE DEF end
      <4>4. /\ SubSeq(input, from + 1, end) \in Seq(Octet)
            /\ Len(SubSeq(input, from + 1, end)) =
                  IF from + 1 <= end THEN end - (from + 1) + 1 ELSE 0
        BY <4>2, SubSeqProperties
      <4> QED
        BY <1>4, <2>0, <4>1, <4>3, <4>4
    <3>2. CallTypes'
      <4>1. base' + Len(block') <= Len(data') /\ Len(block') <= BlockMax /\ base' \in Nat
        BY <1>1, <1>2, <1>4, <2>0, <2>2, <3>1
      <4>2. reader' = reader /\ consumed' = consumed
        BY <2>2
      <4> QED
        BY <1>1, <1>2, <2>2, <3>1, <4>1, <4>2 DEF CallInv, CallTypes, Status
    <3>3. OutputsAreOfLastSuccess'
      BY <2>2 DEF CallInv, OutputsAreOfLastSuccess
    <3> QED
      BY <1>1, <2>2, <3>1, <3>2, <3>3, FreshCall DEF CallInv
  <2>3. \/ \E error \in Status : RefuseAtOnce(error)
        \/ /\ length.value <= BlockMax /\ length.value <= Len(input) - from
           /\ status' = "OK" /\ pc' = "scan" /\ base' = from
           /\ block' = SubSeq(input, from + 1, from + length.value)
           /\ UNCHANGED <<reader, consumed, released>>
    BY <1>2, <1>4, <1>8 DEF StartScan, OversizeBlock, Status, from
  <2> QED
    BY <2>1, <2>2, <2>3
<1> QED
  BY <1>5, <1>6, <1>7, <1>8

\* An element that is not well formed ends the call with an error.
LEMMA ScanFailsInv ==
    ASSUME CallInv, ScanFails
    PROVE  CallInv'
<1>1. /\ pc' = "idle" /\ UNCHANGED <<data, callback, base, block, reader, consumed, asked, released>>
      /\ block \in Seq(Octet) /\ scan \in Scan!Reader /\ scan.offset <= Len(block)
      /\ Len(block) \in Nat
  BY DEF ScanFails, callFrame, CallInv, CallTypes, ScanInOrder
<1>2. \E error \in Status \ {"OK"}, offset \in 0 .. Len(block) : Scan!Fail(error, offset)
  <2>1. scan.offset \in 0 .. Len(block)
    BY <1>1 DEF Scan!Reader
  <2>2. /\ Scan!AfterKey \in 0 .. Len(block) /\ Scan!AfterSize \in 0 .. Len(block)
        /\ Scan!Key.status \in Status /\ Scan!ValueSize.status \in Status
    BY <1>1, <2>1, ScanCall
  <2>3. CASE Scan!FailInKey
    BY <2>1, <2>2, <2>3 DEF Scan!FailInKey
  <2>4. CASE Scan!FailOnId
    BY <2>2, <2>4 DEF Scan!FailOnId, Status
  <2>5. CASE Scan!FailInSize
    BY <2>2, <2>5 DEF Scan!FailInSize
  <2>6. CASE Scan!FailOnValue
    BY <2>2, <2>6 DEF Scan!FailOnValue, Status
  <2> QED
    BY <2>3, <2>4, <2>5, <2>6 DEF ScanFails
<1>3. PICK error \in Status \ {"OK"}, offset \in 0 .. Len(block) : Scan!Fail(error, offset)
  BY <1>2
<1>4. /\ status' = error /\ scan' = [scan EXCEPT !.offset = offset]
      /\ extension' = extension /\ scanned' = scanned
  BY <1>3 DEF Scan!Fail, Scan!outputs
<1>5. /\ scan' \in Scan!Reader /\ scan'.offset <= Len(block)
      /\ scan'.has_previous = scan.has_previous /\ scan'.previous_id = scan.previous_id
  BY <1>1, <1>4 DEF Scan!Reader
<1>6. CallTypes'
  BY <1>1, <1>4, <1>5 DEF CallInv, CallTypes
<1>7. ScanInOrder'
  BY <1>1, <1>4, <1>5 DEF CallInv, ScanInOrder
<1>8. AskedAreCriticals' /\ OutputsAreOfLastSuccess'
  BY <1>1, <1>4 DEF CallInv, AskedAreCriticals, OutputsAreOfLastSuccess
<1> QED
  BY <1>6, <1>7, <1>8 DEF CallInv

\* An element read comes after all the earlier ones, and if it is critical it is
\* the only one the accept function has not been asked about.
LEMMA ScanReadsInv ==
    ASSUME CallInv, ScanReads
    PROVE  CallInv'
<1> DEFINE n == Len(scanned)
           e == Scan!Found
<1>1. /\ UNCHANGED <<data, callback, base, block, reader, consumed, asked, released>>
      /\ block \in Seq(Octet) /\ scan \in Scan!Reader /\ scan.offset <= Len(block)
      /\ Len(block) \in Nat /\ scanned \in Seq(Scan!Extension) /\ n \in Nat
  BY DEF ScanReads, callFrame, CallInv, CallTypes, ScanInOrder
<1>2. /\ extension' = e /\ scanned' = Append(scanned, e) /\ status' = "OK" /\ status = "OK"
      /\ scan' = [offset |-> Scan!AfterSize + Scan!ValueSize.value,
                  previous_id |-> e.id, has_previous |-> TRUE]
      /\ pc = "scan" /\ pc' = IF e.critical # 0 THEN "ask" ELSE "scan"
  BY DEF ScanReads, Scan!Yield, CallInv, CallTypes
<1>3. /\ Scan!Key.value \in Nat /\ Scan!AfterSize \in Nat /\ Scan!ValueSize.value \in Nat
      /\ Scan!AfterSize <= Len(block)
  <2>1. /\ Scan!Key.value \in Nat /\ Scan!ValueSize.value \in Nat
        /\ Scan!AfterKey \in scan.offset .. Len(block)
        /\ Scan!AfterSize \in Scan!AfterKey .. Len(block)
    BY <1>1, ScanCall
  <2> QED
    BY <1>1, <2>1 DEF Scan!Reader
<1>4. e \in Scan!Extension /\ e.critical \in {0, 1} /\ e.id \in Nat
  <2>1. Scan!Key.value \div 2 \in Nat /\ Scan!Key.value % 2 \in {0, 1}
    BY <1>3
  <2> QED
    BY <1>3, <2>1 DEF Scan!Found, Scan!Extension, Scan!IdOf, Scan!CriticalOf
<1>5. scan' \in Scan!Reader /\ scan'.offset <= Len(block)
  <2>1. Scan!AfterSize + Scan!ValueSize.value <= Len(block)
    BY <1>1, <1>3 DEF ScanReads, Scan!Yield, Scan!ValueFits
  <2> QED
    BY <1>2, <1>3, <1>4, <2>1 DEF Scan!Reader
<1>6. n > 0 => scanned[n].id < e.id
  BY <1>1 DEF CallInv, ScanInOrder, ScanReads, Scan!Yield, Scan!IdIsNext, Scan!Found
<1>7. \A m \in 1 .. n : scanned[m].id \in Nat
  <2>1. \A m \in 1 .. n : scanned[m] \in Scan!Extension
    BY <1>1
  <2> QED
    BY <2>1 DEF Scan!Extension
<1> HIDE DEF e
<1>8. /\ scanned' \in Seq(Scan!Extension) /\ Len(scanned') = n + 1
      /\ DOMAIN scanned' = 1 .. n + 1 /\ scanned'[n + 1] = e
      /\ \A m \in 1 .. n : scanned'[m] = scanned[m]
  BY <1>1, <1>2, <1>4
<1>9. CallTypes'
  BY <1>1, <1>2, <1>4, <1>5, <1>8 DEF CallInv, CallTypes, Status
<1>10. ScanInOrder'
  <2>1. \A m \in 1 .. n : scanned[m].id < e.id
    <3> SUFFICES ASSUME NEW m \in 1 .. n PROVE scanned[m].id < e.id
      OBVIOUS
    <3>1. m < n => scanned[m].id < scanned[n].id
      BY <1>1 DEF CallInv, ScanInOrder
    <3>2. n \in 1 .. n /\ m <= n /\ n > 0
      BY <1>1
    <3> QED
      BY <1>4, <1>6, <1>7, <3>1, <3>2
  <2>2. \A k, m \in 1 .. n + 1 : k < m => scanned'[k].id < scanned'[m].id
    <3> SUFFICES ASSUME NEW k \in 1 .. n + 1, NEW m \in 1 .. n + 1, k < m
                 PROVE  scanned'[k].id < scanned'[m].id
      OBVIOUS
    <3>1. k \in 1 .. n
      BY <1>1
    <3>2. CASE m = n + 1
      BY <1>8, <2>1, <3>1, <3>2
    <3>3. CASE m # n + 1
      <4>1. m \in 1 .. n /\ DOMAIN scanned = 1 .. n
        BY <1>1, <3>3
      <4>2. scanned[k].id < scanned[m].id
        BY <3>1, <4>1 DEF CallInv, ScanInOrder
      <4> QED
        BY <1>8, <3>1, <4>1, <4>2
    <3> QED
      BY <3>2, <3>3
  <2>3. scanned' # <<>>
    BY <1>1, <1>8
  <2> QED
    BY <1>1, <1>2, <1>5, <1>8, <2>2, <2>3 DEF ScanInOrder
<1>11. AskedAreCriticals'
  <2>1. CriticalsIn(scanned', n) = CriticalsIn(scanned, n)
    BY <1>1, <1>8 DEF CriticalsIn
  <2>2. Examined = n /\ (pc' = "ask" => Examined' = n) /\ (pc' # "ask" => Examined' = n + 1)
    BY <1>1, <1>2, <1>8 DEF Examined
  <2>3. e.critical = 0 => CriticalsIn(scanned', n + 1) = CriticalsIn(scanned, n)
    <3> SUFFICES ASSUME e.critical = 0 PROVE CriticalsIn(scanned', n + 1) = CriticalsIn(scanned, n)
      OBVIOUS
    <3>1. {k \in 1 .. n + 1 : scanned'[k].critical = 1} = {k \in 1 .. n : scanned[k].critical = 1}
      <4>1. \A k \in 1 .. n + 1 : scanned'[k].critical = 1 => k \in 1 .. n
        BY <1>1, <1>8
      <4>2. \A k \in 1 .. n : k \in 1 .. n + 1
        BY <1>1
      <4> QED
        BY <1>8, <4>1, <4>2
    <3> QED
      BY <1>8, <3>1 DEF CriticalsIn
  <2>4. CriticalsIn(scanned', Examined') = CriticalsIn(scanned, Examined)
    BY <1>2, <1>4, <2>1, <2>2, <2>3
  <2>5. pc' = "ask" => scanned' # <<>> /\ extension' = scanned'[Len(scanned')] /\ extension'.critical = 1
    BY <1>1, <1>2, <1>4, <1>8
  <2> QED
    BY <1>1, <1>2, <2>4, <2>5 DEF CallInv, AskedAreCriticals
<1>12. OutputsAreOfLastSuccess'
  BY <1>1 DEF CallInv, OutputsAreOfLastSuccess
<1> QED
  BY <1>9, <1>10, <1>11, <1>12 DEF CallInv

\* The end of the block releases the reader and consumed together.
LEMMA ScanEndsInv ==
    ASSUME CallInv, ScanEnds
    PROVE  CallInv'
<1>1. /\ UNCHANGED <<data, callback, base, block, scan, extension, scanned, asked>>
      /\ pc = "scan" /\ pc' = "idle" /\ status = "OK" /\ status' = "OK"
      /\ reader' = [base |-> base, size |-> Len(block), next |-> Scan!ReaderInit]
      /\ consumed' = base + Len(block)
      /\ released' = [data |-> data, reader |-> reader', consumed |-> consumed']
  BY DEF ScanEnds, callFrame, Scan!Finish, Release, ReaderOn, CallInv, CallTypes
<1>2. /\ Scan!ReaderInit \in Scan!Reader /\ Len(block) \in Nat
      /\ BlockMax \in Nat /\ Len(block) <= BlockMax /\ base \in Nat
      /\ base + Len(block) <= Len(data)
  BY DecodeExtAssumption DEF Scan!ReaderInit, Scan!Reader, CallInv, CallTypes
<1>3. CallTypes'
  BY <1>1, <1>2 DEF CallInv, CallTypes
<1>4. ScanInOrder'
  BY <1>1 DEF CallInv, ScanInOrder
<1>5. AskedAreCriticals'
  BY <1>1 DEF CallInv, AskedAreCriticals, Examined
<1>6. OutputsAreOfLastSuccess'
  BY <1>1, <1>2 DEF OutputsAreOfLastSuccess
<1> QED
  BY <1>3, <1>4, <1>5, <1>6 DEF CallInv

\* What is asked about comes after everything asked about before.
LEMMA AskedAscend ==
    ASSUME CallInv, pc = "ask"
    PROVE  /\ Len(asked) \in Nat /\ DOMAIN asked = 1 .. Len(asked)
           /\ status = "OK"
           /\ \A n \in DOMAIN asked :
                 asked[n].answer /\ asked[n].extension.id < extension.id
<1> DEFINE last == Len(scanned)
<1>1. /\ asked \in Seq([extension : Scan!Extension, answer : BOOLEAN]) /\ last \in Nat
      /\ status = "OK" /\ Examined = last - 1 /\ DOMAIN scanned = 1 .. last
      /\ scanned # <<>> /\ extension = scanned[last] /\ scanned \in Seq(Scan!Extension)
  BY DEF CallInv, CallTypes, AskedAreCriticals, Examined
<1>2. last \in 1 .. last
  BY <1>1
<1>3. ASSUME NEW n \in DOMAIN asked
      PROVE  asked[n].answer /\ asked[n].extension.id < extension.id
  <2>1. asked[n].extension \in CriticalsIn(scanned, last - 1) /\ asked[n].answer
    BY <1>1 DEF CallInv, AskedAreCriticals
  <2>2. PICK m \in 1 .. last - 1 : asked[n].extension = scanned[m]
    BY <2>1 DEF CriticalsIn
  <2>3. m \in 1 .. last /\ m < last
    BY <1>1, <2>2
  <2> QED
    BY <1>1, <1>2, <2>1, <2>2, <2>3 DEF CallInv, ScanInOrder
<1> QED
  BY <1>1, <1>3

\* With a yes every critical extension read has been asked about.
LEMMA AcceptInv ==
    ASSUME CallInv, Accept
    PROVE  CallInv'
<1> DEFINE q == [extension |-> extension, answer |-> TRUE]
           k == Len(asked)
           n == Len(scanned)
<1>1. /\ UNCHANGED <<data, callback, base, block, scan, extension, scanned, status,
                     reader, consumed, released>>
      /\ pc = "ask" /\ pc' = "scan" /\ callback /\ asked' = Append(asked, q)
  BY DEF Accept, callFrame, scanVars
<1>2. /\ extension \in Scan!Extension /\ q \in [extension : Scan!Extension, answer : BOOLEAN]
      /\ asked \in Seq([extension : Scan!Extension, answer : BOOLEAN])
      /\ scanned \in Seq(Scan!Extension) /\ n \in Nat
      /\ n # 0 /\ extension = scanned[n] /\ extension.critical = 1
  BY <1>1 DEF CallInv, CallTypes, AskedAreCriticals
<1>3. /\ status = "OK" /\ k \in Nat /\ DOMAIN asked = 1 .. k
      /\ \A m \in 1 .. k : asked[m].answer /\ asked[m].extension.id < extension.id
  BY <1>1, AskedAscend
<1>4. /\ asked' \in Seq([extension : Scan!Extension, answer : BOOLEAN])
      /\ DOMAIN asked' = 1 .. k + 1 /\ asked'[k + 1] = q
      /\ \A m \in 1 .. k : asked'[m] = asked[m]
  BY <1>1, <1>2, <1>3
<1>5. CallTypes'
  BY <1>1, <1>3, <1>4 DEF CallInv, CallTypes
<1>6. ScanInOrder' /\ OutputsAreOfLastSuccess'
  BY <1>1 DEF CallInv, ScanInOrder, OutputsAreOfLastSuccess
<1>7. {asked'[m].extension : m \in DOMAIN asked'} = CriticalsIn(scanned', Examined')
  <2>1. {asked[m].extension : m \in 1 .. k} = CriticalsIn(scanned, n - 1) /\ Examined' = n
    BY <1>1, <1>3 DEF CallInv, AskedAreCriticals, Examined
  <2>2. CriticalsIn(scanned, n) = CriticalsIn(scanned, n - 1) \cup {extension}
    <3>1. {m \in 1 .. n : scanned[m].critical = 1} =
             {m \in 1 .. n - 1 : scanned[m].critical = 1} \cup {n}
      <4>1. 1 .. n = 1 .. n - 1 \cup {n} /\ scanned[n].critical = 1
        BY <1>2
      <4> QED
        BY <4>1
    <3> QED
      BY <1>2, <3>1 DEF CriticalsIn
  <2>3. {asked'[m].extension : m \in 1 .. k + 1} =
           {asked[m].extension : m \in 1 .. k} \cup {extension}
    <3>1. 1 .. k + 1 = 1 .. k \cup {k + 1} /\ asked'[k + 1].extension = extension
      BY <1>3, <1>4
    <3> QED
      BY <1>4, <3>1
  <2> QED
    BY <1>1, <1>4, <2>1, <2>2, <2>3
<1>8. \A l, m \in DOMAIN asked' : l < m => asked'[l].extension.id < asked'[m].extension.id
  <2> SUFFICES ASSUME NEW l \in 1 .. k + 1, NEW m \in 1 .. k + 1, l < m
               PROVE  asked'[l].extension.id < asked'[m].extension.id
    BY <1>4
  <2>1. l \in 1 .. k
    BY <1>3
  <2>2. CASE m = k + 1
    BY <1>3, <1>4, <2>1, <2>2
  <2>3. CASE m # k + 1
    <3>1. m \in 1 .. k
      BY <1>3, <2>3
    <3>2. asked[l].extension.id < asked[m].extension.id
      BY <1>3, <2>1, <3>1 DEF CallInv, AskedAreCriticals
    <3> QED
      BY <1>4, <2>1, <3>1, <3>2
  <2> QED
    BY <2>2, <2>3
<1>9. \A m \in DOMAIN asked' : asked'[m].answer
  <2> SUFFICES ASSUME NEW m \in 1 .. k + 1 PROVE asked'[m].answer
    BY <1>4
  <2>1. CASE m = k + 1
    BY <1>4, <2>1
  <2>2. CASE m # k + 1
    <3>1. m \in 1 .. k
      BY <1>3, <2>2
    <3> QED
      BY <1>3, <1>4, <3>1
  <2> QED
    BY <2>1, <2>2
<1>10. AskedAreCriticals'
  BY <1>1, <1>7, <1>8, <1>9 DEF AskedAreCriticals
<1> QED
  BY <1>5, <1>6, <1>10 DEF CallInv

\* Without a yes the call ends and no output has been touched.
LEMMA RefuseInv ==
    ASSUME CallInv, Refuse \/ RefuseUnasked
    PROVE  CallInv'
<1>1. /\ UNCHANGED <<data, callback, base, block, scan, extension, scanned,
                     reader, consumed, released>>
      /\ pc' = "idle" /\ status' = "UNSUPPORTED_SEMANTIC"
  BY DEF Refuse, RefuseUnasked, callFrame, scanVars
<1>2. asked' \in Seq([extension : Scan!Extension, answer : BOOLEAN])
  <2> DEFINE Q == [extension : Scan!Extension, answer : BOOLEAN]
             q == [extension |-> extension, answer |-> FALSE]
  <2>1. q \in Q /\ asked \in Seq(Q)
    BY DEF CallInv, CallTypes
  <2>2. asked' = Append(asked, q) \/ asked' = asked
    BY DEF Refuse, RefuseUnasked
  <2> HIDE DEF q, Q
  <2>3. asked' \in Seq(Q)
    BY <2>1, <2>2, AppendProperties
  <2> QED
    BY <2>3 DEF Q
<1>3. CallTypes'
  BY <1>1, <1>2 DEF CallInv, CallTypes, Status
<1>4. ScanInOrder' /\ AskedAreCriticals' /\ OutputsAreOfLastSuccess'
  BY <1>1 DEF CallInv, ScanInOrder, AskedAreCriticals, OutputsAreOfLastSuccess
<1> QED
  BY <1>3, <1>4 DEF CallInv

\* Every step inside a call keeps the invariant.
LEMMA ProceedInv ==
    ASSUME CallInv, Proceed
    PROVE  CallInv'
  BY ScanFailsInv, ScanReadsInv, ScanEndsInv, AcceptInv, RefuseInv DEF Proceed

-----------------------------------------------------------------------------
\* The fixed body of an object at the major of a buffer, encoded again, and that
\* body with extension_present set.
FixedAgain(octets, o) ==
    LET fixed == EncodeAtMajor(HeaderDecode(octets).major_version, o, [k \in 1 .. 17 |-> 0], 17)
    IN  SubSeq(fixed.memory, 1, fixed.written)
Marked(body) == [body EXCEPT ![2] = @ + 1]

\* What a decoded body was read from is its encoding, extension_present aside.
BodyStands(octets, body) ==
    /\ body.consumed \in 1 .. Len(octets)
    /\ HeaderDecode(octets).extension_present \in 0 .. 1
    /\ SubSeq(octets, 1, body.consumed) =
          IF HeaderDecode(octets).extension_present = 0 THEN FixedAgain(octets, body.object)
          ELSE Marked(FixedAgain(octets, body.object))

LEMMA BodyAgain ==
    ASSUME NEW input \in Seq(Octet), NEW o, DecodeBody(input, o).status = "OK"
    PROVE  BodyStands(input, DecodeBody(input, o))
<1> DEFINE body == DecodeBody(input, o)
           m == [k \in 1 .. 17 |-> 0]
           fixed == EncodeAtMajor(HeaderDecode(input).major_version, body.object, m, 17)
           flag == HeaderDecode(input).extension_present
           c == body.consumed
           l == Len(input)
           w == SubSeq(input, 1, c)
           s == SubSeq(fixed.memory, 1, c)
<1>1. Received("decode_body", input, o) = body
  BY DEF Received
<1>2. l \in Nat /\ \A k \in 1 .. l : input[k] \in 0 .. 255
  <2>1. \A x \in Octet : x \in 0 .. 255
    BY UvarintAssumption, DecodeExtAssumption DEF Octet
  <2>2. l \in Nat /\ \A k \in 1 .. l : input[k] \in Octet
    OBVIOUS
  <2> QED
    BY <2>1, <2>2
<1>3. m \in [1 .. 17 -> 0 .. 255] /\ DOMAIN m = 1 .. 17 /\ 17 \in Nat /\ 17 \in 0 .. 17 /\ 17 <= 17
  OBVIOUS
<1> HIDE DEF body, m
<1>4. EncodesBack("decode_body", input, o, m, 17)
  <2>1. Received("decode_body", input, o).status = "OK"
    BY <1>1 DEF body
  <2> QED
    BY ONLY ZenonT(40), <1>2, <1>3, <2>1, DecodedEncodesBack DEF l
<1>5. /\ fixed.written = c /\ fixed.memory \in [1 .. 17 -> 0 .. 255]
      /\ c \in 10 .. 17 /\ c <= l /\ flag \in 0 .. 1
      /\ \A k \in 1 .. c : input[k] = fixed.memory[k] + (IF k = 2 THEN flag ELSE 0)
  BY <1>1, <1>3, <1>4 DEF EncodesBack
<1> HIDE DEF fixed, flag, c, l
<1>6. c \in Nat /\ 2 \in 1 .. c /\ c \in 1 .. l /\ c <= 17
  <2>1. c \in 10 .. 17 /\ c <= l /\ l \in Nat
    BY Zenon, <1>2, <1>5
  <2> QED
    BY <2>1
<1>7. /\ w \in Seq(Nat) /\ Len(w) = c /\ \A k \in 1 .. c : w[k] = input[k]
  <2>1. \A k \in 1 .. c : input[k] \in Nat
    <3>1. \A x \in 0 .. 255 : x \in Nat
      OBVIOUS
    <3>2. \A k \in 1 .. c : k \in 1 .. l
      <4>1. l \in Nat
        BY <1>2
      <4> QED
        BY <1>6, <4>1
    <3> QED
      BY Zenon, <1>2, <3>1, <3>2
  <2>2. c - 1 + 1 = c /\ (\A k \in 1 .. c : 1 + k - 1 = k) /\ 1 <= c
    BY <1>6
  <2> HIDE DEF l
  <2> QED
    BY <1>6, <2>1, <2>2, SubSeqProperties
<1>8. /\ s \in Seq(Nat) /\ Len(s) = c /\ \A k \in 1 .. c : s[k] = fixed.memory[k]
  <2>1. \A k \in 1 .. c : fixed.memory[k] \in Nat
    <3>1. \A x \in 0 .. 255 : x \in Nat
      OBVIOUS
    <3>2. \A k \in 1 .. c : k \in 1 .. 17
      BY <1>6
    <3> QED
      BY ZenonT(60), <1>5, <3>1, <3>2
  <2>2. c - 1 + 1 = c /\ (\A k \in 1 .. c : 1 + k - 1 = k) /\ 1 <= c
    BY <1>6
  <2> QED
    BY <1>6, <2>1, <2>2, SubSeqProperties
<1> HIDE DEF w, s
<1>9. \A k \in 1 .. c : s[k] \in Nat
  BY <1>8
<1>10. FixedAgain(input, body.object) = s
  BY <1>5 DEF FixedAgain, fixed, s, m
<1>11. \A k \in 1 .. c : w[k] = s[k] + (IF k = 2 THEN flag ELSE 0)
  BY <1>5, <1>7, <1>8
<1>12. ASSUME flag = 0 PROVE w = FixedAgain(input, body.object)
  <2>1. \A k \in 1 .. c : w[k] = s[k]
    BY <1>9, <1>11, <1>12
  <2>2. w = s
    BY <1>7, <1>8, <2>1, SeqEqual
  <2> QED
    BY <1>10, <1>12, <2>2
<1>13. ASSUME flag = 1 PROVE w = Marked(FixedAgain(input, body.object))
  <2> DEFINE t == Marked(s)
  <2>1. s \in [1 .. c -> Nat]
    BY <1>8
  <2>2. t \in [1 .. c -> Nat] /\ \A k \in 1 .. c : t[k] = s[k] + (IF k = 2 THEN 1 ELSE 0)
    BY <1>6, <1>9, <2>1 DEF Marked
  <2> HIDE DEF t
  <2>3. t \in Seq(Nat) /\ Len(t) = c
    BY <1>6, <2>2, FunctionIsSequence
  <2>4. \A k \in 1 .. c : w[k] = t[k]
    BY <1>11, <1>13, <2>2
  <2>5. w = t
    BY <1>7, <2>3, <2>4, SeqEqual
  <2> QED
    BY <1>10, <1>13, <2>5 DEF t
<1>14. w = IF flag = 0 THEN FixedAgain(input, body.object)
           ELSE Marked(FixedAgain(input, body.object))
  <2>1. flag = 0 \/ flag = 1
    BY ONLY SMTT(30), <1>5
  <2> QED
    BY <1>12, <1>13, <2>1
<1> QED
  BY <1>5, <1>6, <1>14 DEF BodyStands, body, flag, c, w, l

\* The elements the scan has read, as the encoder writes them.
ScanWritten == FlattenSeq([i \in DOMAIN scanned |-> Element(scanned[i])])

\* While a block is scanned: what stands before it in the buffer is the body and
\* the length of the block, and what has been read of it is what was scanned.
BlockStands ==
    /\ block # <<>>
    /\ SubSeq(data, 1, base) = Marked(FixedAgain(data, object)) \o UvarintEncode(Len(block))
    /\ SubSeq(data, base + 1, base + Len(block)) = block
    /\ SubSeq(block, 1, scan.offset) = ScanWritten
    /\ \A i \in DOMAIN scanned : Element(scanned[i]) \in Seq(Octet)

ConsumedIsCanonical ==
    SubSeq(data, 1, consumed) =
        IF scanned = <<>> THEN FixedAgain(data, object)
        ELSE Marked(FixedAgain(data, object)) \o UvarintEncode(Len(ScanWritten)) \o ScanWritten

\* The inductive invariant of the reading.  No call succeeds on an empty buffer,
\* so a success is told from the state before the first call.
ReadingStands ==
    /\ pc # "idle" => BlockStands
    /\ pc = "idle" /\ status = "OK" /\ data # <<>> => ConsumedIsCanonical

\* A block that is entered starts behind the canonical body and its own length.
LEMMA ScanStarts ==
    ASSUME CallInv, NEW input \in Seq(Octet), DecodeBody(input, object).status = "OK",
           HeaderDecode(input).extension_present = 1,
           NEW length, length = UvarintDecode(input, DecodeBody(input, object).consumed),
           length.status = "OK", length.value # 0,
           NEW from, from = DecodeBody(input, object).consumed + length.used,
           length.value <= Len(input) - from,
           data' = input, object' = DecodeBody(input, object).object, base' = from,
           block' = SubSeq(input, from + 1, from + length.value),
           scan' = Scan!ReaderInit, scanned' = <<>>
    PROVE  BlockStands'
<1> DEFINE body == DecodeBody(input, object)
           c == body.consumed
           l == Len(input)
           n == length.value
           head == Marked(FixedAgain(input, body.object))
<1>1. c \in 1 .. l /\ SubSeq(input, 1, c) = head
  BY BodyAgain DEF BodyStands
<1> HIDE DEF body, head
<1>2. c \in Nat /\ l \in Nat /\ c \in 0 .. l
  BY <1>1
<1>3. length.used \in Nat /\ c + length.used <= l /\ from = c + length.used
  <2> HIDE DEF c
  <2>1. length = UvarintDecode(input, c) /\ from = c + length.used
    BY DEF c, body
  <2> QED
    BY SMTT(30), <1>2, <2>1, DecodedRounds DEF MaxGroups
<1>4. n \in Nat /\ UvarintEncode(n) = SubSeq(input, c + 1, from)
  <2> HIDE DEF c
  <2>1. length = UvarintDecode(input, c)
    BY DEF c, body
  <2>2. /\ UvarintEncode(n) = SubSeq(input, c + 1, c + length.used)
    BY <1>2, <2>1, DecodedWindow
  <2>3. n \in Nat
    BY <1>2, <2>1, DecodedIsEncoding DEF Word
  <2> QED
    BY <1>3, <2>2, <2>3
<1> HIDE DEF c, n
<1>5. from \in Nat /\ from + n <= l /\ c <= from /\ n # 0
  <2>1. n <= l - from /\ n # 0
    BY DEF n
  <2> QED
    BY ONLY SMTT(30), <1>2, <1>3, <1>4, <2>1
<1>6. block' = SubSeq(input, from + 1, from + n)
  BY DEF n
<1>7. block' \in Seq(Octet) /\ Len(block') = n
  <2> DEFINE end == from + n
  <2>1. end \in Nat /\ end <= l /\ from + 1 <= end /\ end - (from + 1) + 1 = n /\ from + 1 \in Int
    BY ONLY <1>2, <1>4, <1>5
  <2>2. \A i \in from + 1 .. end : input[i] \in Octet
    <3>1. \A i \in from + 1 .. end : i \in 1 .. l
      BY ONLY SMTT(30), <1>2, <1>5, <2>1
    <3> QED
      BY <3>1
  <2> HIDE DEF end
  <2>3. block' = SubSeq(input, from + 1, end)
    BY <1>6 DEF end
  <2>4. SubSeq(input, from + 1, end) \in Seq(Octet) /\ Len(SubSeq(input, from + 1, end)) = n
    BY ONLY <2>1, <2>2, SubSeqProperties
  <2> QED
    BY <2>3, <2>4
<1>8. SubSeq(input, 1, from) = head \o UvarintEncode(n)
  <2>1. 1 \in 1 .. l + 1 /\ c \in 1 - 1 .. l /\ from \in c .. l
    BY ONLY <1>2, <1>4, <1>5
  <2>2. SubSeq(input, 1, c) \o SubSeq(input, c + 1, from) = SubSeq(input, 1, from)
    BY <2>1, ConcatAdjacentSubSeq
  <2> QED
    BY <1>1, <1>4, <2>2
<1>9. scan'.offset = 0 /\ scanned' = <<>> /\ DOMAIN scanned' = {}
  BY DEF Scan!ReaderInit
<1>10. ScanWritten' = <<>>
  <2>1. [i \in DOMAIN scanned' |-> (Element(scanned[i]))'] = <<>>
    BY <1>9
  <2>2. FlattenSeq(<<>>) = <<>>
    BY DEF FlattenSeq
  <2> QED
    BY <2>1, <2>2 DEF ScanWritten
<1>11. SubSeq(block', 1, 0) = <<>>
  BY SubSeqEmpty
<1>12. block' # <<>>
  BY <1>5, <1>7
<1>13. head = Marked(FixedAgain(data', object'))
  BY DEF head, body
<1>14. base' = from /\ data' = input
  OBVIOUS
<1> QED
  BY <1>6, <1>7, <1>8, <1>9, <1>10, <1>11, <1>12, <1>13, <1>14 DEF BlockStands

\* The entry leads to a refusal, to a plain object or to the scan of a block.
LEMMA EnterReads ==
    ASSUME CallInv, NEW input \in Seq(Octet), NEW withCallback \in BOOLEAN,
           Enter(input, withCallback)
    PROVE  ReadingStands' /\ (status' = "OK" => data' # <<>>)
<1> DEFINE body == DecodeBody(input, object)
           length == UvarintDecode(input, body.consumed)
           from == body.consumed + length.used
<1>1. /\ data' = input /\ object' = body.object
      /\ scan' = Scan!ReaderInit /\ scanned' = <<>>
  BY DEF Enter
<1>2. CASE pc' = "idle" /\ status' # "OK"
  BY <1>2 DEF ReadingStands
<1>3. CASE body.status = "OK" /\ HeaderDecode(input).extension_present = 0
           /\ ReturnPlain(input, body.consumed)
  <2>1. /\ body.consumed \in 1 .. Len(input)
        /\ SubSeq(input, 1, body.consumed) = FixedAgain(input, body.object)
    BY <1>3, BodyAgain DEF BodyStands
  <2> HIDE DEF body
  <2>2. pc' = "idle" /\ consumed' = body.consumed
    BY <1>3, <2>1 DEF ReturnPlain, Release
  <2>3. input # <<>>
    BY <2>1
  <2>4. ConsumedIsCanonical'
    BY <1>1, <2>1, <2>2 DEF ConsumedIsCanonical
  <2> QED
    BY <1>1, <2>2, <2>3, <2>4 DEF ReadingStands
<1>4. CASE /\ body.status = "OK" /\ HeaderDecode(input).extension_present = 1
           /\ length.status = "OK" /\ length.value # 0 /\ length.value <= Len(input) - from
           /\ pc' = "scan" /\ base' = from
           /\ block' = SubSeq(input, from + 1, from + length.value)
  <2>1. BlockStands'
    BY <1>1, <1>4, ScanStarts
  <2>2. body.consumed \in 1 .. Len(input)
    BY <1>4, BodyAgain DEF BodyStands
  <2> HIDE DEF body, length, from
  <2>3. input # <<>>
    BY <2>2
  <2> QED
    BY <1>1, <1>4, <2>1, <2>3 DEF ReadingStands
<1>5. \/ body.status # "OK" /\ RefuseAtOnce(body.status)
      \/ body.status = "OK" /\ HeaderDecode(input).extension_present = 0
           /\ ReturnPlain(input, body.consumed)
      \/ body.status = "OK" /\ HeaderDecode(input).extension_present = 1
           /\ StartScan(input, body.consumed, length)
  BY DEF Enter
<1> HIDE DEF body, length
<1>6. ASSUME NEW error, error # "OK", RefuseAtOnce(error)
      PROVE  pc' = "idle" /\ status' # "OK"
  BY <1>6 DEF RefuseAtOnce
<1>7. ASSUME StartScan(input, body.consumed, length)
      PROVE  \/ pc' = "idle" /\ status' # "OK"
             \/ /\ length.status = "OK" /\ length.value # 0
                /\ length.value <= Len(input) - from
                /\ pc' = "scan" /\ base' = from
                /\ block' = SubSeq(input, from + 1, from + length.value)
  <2> HIDE DEF from
  <2> QED
    BY <1>6, <1>7 DEF StartScan, EmptyBlock, from
<1> QED
  BY <1>2, <1>3, <1>4, <1>5, <1>6, <1>7

\* An extension the scan reads stands for exactly the octets it was read from.
LEMMA ScanFindsWindow ==
    ASSUME CallInv, ScanReads
    PROVE  /\ Element(Scan!Found) =
                 SubSeq(block, scan.offset + 1, Scan!AfterSize + Scan!ValueSize.value)
           /\ Element(Scan!Found) \in Seq(Octet)
           /\ Scan!AfterSize + Scan!ValueSize.value \in scan.offset .. Len(block)
<1> DEFINE o == scan.offset
           key == Scan!Key
           size == Scan!ValueSize
           after == Scan!AfterSize
           n == size.value
<1>1. /\ block \in Seq(Octet) /\ scan \in Scan!Reader /\ o <= Len(block) /\ Len(block) \in Nat
      /\ o \in Nat
  BY DEF CallInv, CallTypes, ScanInOrder, Scan!Reader
<1>2. /\ key.value \in Nat /\ n \in Nat
      /\ Scan!AfterKey \in o .. Len(block) /\ after \in Scan!AfterKey .. Len(block)
  BY <1>1, ScanCall
<1>3. o \in 0 .. Len(block) /\ Scan!AfterKey \in 0 .. Len(block) /\ after \in Nat /\ o <= after
  BY <1>1, <1>2
<1>4. /\ key = UvarintDecode(block, o) /\ Scan!AfterKey = o + key.used
      /\ size = UvarintDecode(block, Scan!AfterKey) /\ after = Scan!AfterKey + size.used
  BY <1>3, OneDecoder DEF Scan!Key, Scan!ValueSize, Scan!NumberAt, Scan!AfterKey, Scan!AfterSize
<1>5. key.status = "OK" /\ size.status = "OK" /\ n <= Len(block) - after
  BY DEF ScanReads, Scan!Yield, Scan!ValueFits
<1>6. after + n <= Len(block) /\ after + n \in o .. Len(block)
  <2> HIDE DEF o, n, after
  <2> QED
    BY <1>1, <1>2, <1>3, <1>5
<1>7. ElementIsWindow(block, o, key, Scan!AfterKey, size, after)
  <2> HIDE DEF o, key, size, after
  <2> QED
    BY <1>1, <1>3, <1>4, <1>5, <1>6, ElementWindow DEF n
<1>8. Element(Scan!Found) =
         UvarintEncode(key.value) \o UvarintEncode(n) \o SubSeq(block, after + 1, after + n)
  <2>1. 2 * (key.value \div 2) + (key.value % 2) = key.value
    BY <1>2
  <2>2. /\ 2 * Scan!Found.id + Scan!Found.critical = key.value /\ Scan!Found.value_size = n
        /\ Scan!Found.value = after
    BY <2>1 DEF Scan!Found, Scan!IdOf, Scan!CriticalOf
  <2> QED
    BY <2>2 DEF Element
<1> QED
  BY <1>6, <1>7, <1>8 DEF ElementIsWindow

LEMMA ScanReadsReads ==
    ASSUME CallInv, ReadingStands, ScanReads
    PROVE  ReadingStands'
<1> DEFINE n == Len(scanned)
           e == [i \in 1 .. n |-> Element(scanned[i])]
           x == Element(Scan!Found)
           f == OneMore(e, n, x)
           o == scan.offset
           end == Scan!AfterSize + Scan!ValueSize.value
           l == Len(block)
<1>1. /\ UNCHANGED <<data, object, base, block>> /\ pc = "scan" /\ pc' # "idle"
      /\ scanned' = Append(scanned, Scan!Found) /\ scan'.offset = end
  BY DEF ScanReads, callFrame, Scan!Yield
<1>2. /\ block \in Seq(Octet) /\ l \in Nat /\ o \in Nat /\ o <= l
      /\ scanned \in Seq(Scan!Extension) /\ n \in Nat /\ DOMAIN scanned = 1 .. n
  BY DEF CallInv, CallTypes, ScanInOrder, Scan!Reader
<1>3. BlockStands
  BY <1>1 DEF ReadingStands
<1>4. x = SubSeq(block, o + 1, end) /\ x \in Seq(Octet) /\ end \in o .. l
  BY ScanFindsWindow
<1> HIDE DEF x, end, l, o
<1>5. e \in [1 .. n -> Seq(Octet)] /\ FlattenSeq(e) = SubSeq(block, 1, o)
  BY <1>2, <1>3 DEF BlockStands, ScanWritten, o
<1>6. \A i \in 1 .. n + 1 : scanned'[i] = IF i <= n THEN scanned[i] ELSE Scan!Found
  BY <1>1, <1>2, AppendProperties
<1>7. DOMAIN scanned' = 1 .. n + 1
  BY <1>1, <1>2
<1>8. [i \in DOMAIN scanned' |-> (Element(scanned[i]))'] = f
  <2>1. \A i \in 1 .. n + 1 : (Element(scanned[i]))' = Element(scanned'[i])
    BY <1>1 DEF Element
  <2>2. \A i \in 1 .. n + 1 : i <= n => i \in 1 .. n
    BY <1>2
  <2>3. \A i \in 1 .. n + 1 : Element(scanned'[i]) = f[i]
    BY <1>6, <2>2 DEF x, OneMore
  <2> HIDE DEF f
  <2>4. [i \in 1 .. n + 1 |-> (Element(scanned[i]))'] = [i \in 1 .. n + 1 |-> f[i]]
    BY <2>1, <2>3
  <2>5. f = [i \in 1 .. n + 1 |-> f[i]]
    BY DEF f, OneMore
  <2> QED
    BY <1>7, <2>4, <2>5
<1>9. \A i \in DOMAIN scanned' : (Element(scanned[i]))' \in Seq(Octet)
  <2>1. \A i \in 1 .. n + 1 : i <= n => i \in 1 .. n
    BY <1>2
  <2>2. \A i \in 1 .. n + 1 : f[i] \in Seq(Octet)
    BY <1>4, <1>5, <2>1 DEF OneMore
  <2>3. \A i \in 1 .. n + 1 : (Element(scanned[i]))' = f[i]
    <3> HIDE DEF f
    <3> QED
      BY <1>7, <1>8
  <2> HIDE DEF f
  <2> QED
    BY <1>7, <2>2, <2>3
<1>10. ScanWritten' = FlattenSeq(e) \o x
  <2> HIDE DEF e
  <2>1. FlattenSeq(OneMore(e, n, x)) = FlattenSeq(e) \o x
    <3> HIDE DEF n
    <3> QED
      BY ZenonT(60), <1>2, <1>4, <1>5, FlattenOneMore
  <2>2. FlattenSeq(f) = FlattenSeq(e) \o x
    BY <2>1
  <2> HIDE DEF f
  <2> QED
    BY <1>8, <2>2 DEF ScanWritten
<1>11. SubSeq(block, 1, end) = SubSeq(block, 1, o) \o SubSeq(block, o + 1, end)
  <2>1. 1 \in 1 .. l + 1 /\ o \in 1 - 1 .. l /\ end \in o .. l
    BY ONLY <1>2, <1>4
  <2> QED
    BY <1>2, <2>1, ConcatAdjacentSubSeq DEF l
<1>12. SubSeq(block', 1, scan'.offset) = ScanWritten'
  BY <1>1, <1>4, <1>5, <1>10, <1>11
<1>13. BlockStands'
  BY <1>1, <1>3, <1>9, <1>12 DEF BlockStands
<1> QED
  BY <1>1, <1>13 DEF ReadingStands

\* At the end of the block everything consumed has been read.
LEMMA ScanEndsReads ==
    ASSUME CallInv, ReadingStands, ScanEnds
    PROVE  ReadingStands'
<1> DEFINE l == Len(block)
           end == base + l
           head == Marked(FixedAgain(data, object))
<1>1. /\ UNCHANGED <<data, object, block, scanned>> /\ pc = "scan" /\ pc' = "idle"
      /\ scan.offset = l /\ consumed' = end
  BY DEF ScanEnds, callFrame, Scan!Finish, Scan!AtEnd, Release
<1>2. /\ block \in Seq(Octet) /\ l \in Nat /\ base \in Nat /\ base + l <= Len(data)
      /\ data \in Seq(Octet) /\ Len(data) \in Nat
  BY DEF CallInv, CallTypes
<1>3. BlockStands
  BY <1>1 DEF ReadingStands
<1>4. block = ScanWritten
  BY <1>1, <1>2, <1>3, SubSeqFull DEF BlockStands
<1>5. scanned # <<>>
  <2> SUFFICES ASSUME scanned = <<>> PROVE FALSE
    OBVIOUS
  <2>1. [i \in DOMAIN scanned |-> Element(scanned[i])] = <<>>
    OBVIOUS
  <2>2. FlattenSeq(<<>>) = <<>>
    BY DEF FlattenSeq
  <2>3. ScanWritten = <<>>
    BY <2>1, <2>2 DEF ScanWritten
  <2> QED
    BY <1>3, <1>4, <2>3 DEF BlockStands
<1> HIDE DEF head
<1>6. SubSeq(data, 1, base) = head \o UvarintEncode(l) /\ SubSeq(data, base + 1, end) = block
  BY <1>3 DEF BlockStands, head
<1> HIDE DEF l, end
<1>7. SubSeq(data, 1, end) = SubSeq(data, 1, base) \o SubSeq(data, base + 1, end)
  <2> DEFINE d == Len(data)
  <2>1. 1 \in 1 .. d + 1 /\ base \in 1 - 1 .. d /\ end \in base .. d
    BY ONLY <1>2 DEF end
  <2> QED
    BY <1>2, <2>1, ConcatAdjacentSubSeq
<1>8. SubSeq(data, 1, end) = head \o UvarintEncode(Len(ScanWritten)) \o ScanWritten
  BY <1>4, <1>6, <1>7 DEF l
<1>9. ScanWritten' = ScanWritten
  BY <1>1 DEF ScanWritten, Element
<1>10. ConsumedIsCanonical'
  BY <1>1, <1>5, <1>8, <1>9 DEF ConsumedIsCanonical, head
<1> QED
  BY <1>1, <1>10 DEF ReadingStands

\* Answers and errors leave what has been read as it stands.
LEMMA ProceedReads ==
    ASSUME CallInv, ReadingStands, Proceed
    PROVE  ReadingStands' /\ (status' = "OK" => status = "OK") /\ data' = data
<1>1. data' = data /\ status = "OK"
  BY DEF CallInv, CallTypes, Proceed, ScanFails, ScanReads, ScanEnds, Accept, Refuse,
         RefuseUnasked, callFrame
<1>2. CASE ScanFails
  <2>1. block \in Seq(Octet) /\ scan \in Scan!Reader /\ scan.offset <= Len(block)
    BY DEF CallInv, CallTypes, ScanInOrder
  <2>2. status' # "OK"
    BY <1>2 DEF ScanFails, Scan!FailInKey, Scan!FailOnId, Scan!FailInSize, Scan!FailOnValue,
                Scan!Fail
  <2> QED
    BY <1>1, <1>2, <2>2 DEF ScanFails, ReadingStands
<1>3. CASE Refuse \/ RefuseUnasked
  BY <1>1, <1>3 DEF Refuse, RefuseUnasked, ReadingStands
<1>4. CASE Accept
  <2>1. /\ UNCHANGED <<data, base, block, object, scan, scanned>> /\ pc # "idle" /\ pc' # "idle"
    BY <1>4 DEF Accept, callFrame, scanVars
  <2>2. BlockStands'
    BY <2>1 DEF ReadingStands, BlockStands, ScanWritten, Element
  <2> QED
    BY <1>1, <2>1, <2>2 DEF ReadingStands
<1> QED
  BY <1>1, <1>2, <1>3, <1>4, ScanReadsReads, ScanEndsReads DEF Proceed

-----------------------------------------------------------------------------
\* The inductive invariant of a caller.
DecodeInv ==
    /\ CallInv /\ ReadingStands
    /\ calls \in 0 .. MaxCalls
    /\ calls > 0 /\ status = "OK" => data # <<>>

LEMMA DecodeInit == Init => DecodeInv
<1> SUFFICES ASSUME Init PROVE DecodeInv
  OBVIOUS
<1>1. /\ pc = "idle" /\ calls = 0 /\ data = <<>> /\ callback = FALSE /\ base = 0 /\ block = <<>>
      /\ scan = Scan!ReaderInit /\ extension = Scan!Unwritten /\ status = "OK"
      /\ reader = [base |-> 0, size |-> 0, next |-> Scan!ReaderInit]
      /\ consumed = 0 /\ scanned = <<>> /\ asked = <<>>
      /\ released = [data |-> <<>>, reader |-> reader, consumed |-> 0]
      /\ Len(block) = 0 /\ Len(data) = 0 /\ MaxCalls \in Nat /\ BlockMax \in Nat
  BY DecodeExtAssumption DEF Init, NoReader, ReaderOn
<1>2. Scan!ReaderInit \in Scan!Reader /\ Scan!Unwritten \in Scan!Extension
  BY DEF Scan!ReaderInit, Scan!Reader, Scan!Unwritten, Scan!Extension
<1>3. CallTypes
  <2>1. /\ <<>> \in Seq(Octet) /\ <<>> \in Seq(Scan!Extension)
        /\ <<>> \in Seq([extension : Scan!Extension, answer : BOOLEAN])
    OBVIOUS
  <2>2. reader \in [base : Nat, size : 0 .. BlockMax, next : Scan!Reader]
    BY <1>1, <1>2
  <2>3. /\ pc \in {"idle", "scan", "ask"} /\ status \in Status /\ status = "OK"
        /\ callback \in BOOLEAN /\ base \in Nat /\ consumed \in Nat
    BY <1>1 DEF Status
  <2>4. base + Len(block) <= Len(data) /\ Len(block) <= BlockMax
    BY <1>1
  <2>5. /\ data \in Seq(Octet) /\ block \in Seq(Octet) /\ scanned \in Seq(Scan!Extension)
        /\ asked \in Seq([extension : Scan!Extension, answer : BOOLEAN])
    BY <1>1, <2>1
  <2>6. scan \in Scan!Reader /\ extension \in Scan!Extension
    BY <1>1, <1>2
  <2> QED
    BY <2>2, <2>3, <2>4, <2>5, <2>6 DEF CallTypes
<1>4. ScanInOrder
  BY <1>1 DEF ScanInOrder, Scan!ReaderInit
<1>5. AskedAreCriticals
  <2>1. DOMAIN asked = {} /\ Examined = 0 /\ CriticalsIn(scanned, 0) = {}
    BY <1>1 DEF Examined, CriticalsIn
  <2> QED
    BY <1>1, <2>1 DEF AskedAreCriticals
<1>6. OutputsAreOfLastSuccess
  BY <1>1 DEF OutputsAreOfLastSuccess
<1>7. ReadingStands
  BY <1>1 DEF ReadingStands
<1> QED
  BY <1>1, <1>3, <1>4, <1>5, <1>6, <1>7 DEF DecodeInv, CallInv

LEMMA DecodeNext == DecodeInv /\ [Next]_vars => DecodeInv'
<1> SUFFICES ASSUME DecodeInv, [Next]_vars PROVE DecodeInv'
  OBVIOUS
<1>1. CASE Call
  <2>1. calls' \in 0 .. MaxCalls
    BY <1>1, DecodeExtAssumption DEF Call, DecodeInv
  <2>2. PICK input \in Inputs, withCallback \in BOOLEAN : Enter(input, withCallback)
    BY <1>1 DEF Call
  <2>3. input \in Seq(Octet)
    BY DecodeExtAssumption
  <2> QED
    BY <2>1, <2>2, <2>3, EnterInv, EnterReads DEF DecodeInv
<1>2. CASE Proceed
  <2>1. calls' = calls
    BY <1>2 DEF Proceed, ScanFails, ScanReads, ScanEnds, Accept, Refuse, RefuseUnasked, callFrame
  <2> QED
    BY <1>2, <2>1, ProceedInv, ProceedReads DEF DecodeInv
<1>3. CASE UNCHANGED vars
  BY <1>3 DEF vars, scanVars, outputs, DecodeInv, CallInv, CallTypes, ScanInOrder,
              AskedAreCriticals, Examined, OutputsAreOfLastSuccess, ReadingStands, BlockStands,
              ConsumedIsCanonical, ScanWritten, Element
<1> QED
  BY <1>1, <1>2, <1>3 DEF Next

\* The inductive invariant holds of every sequence of calls.
THEOREM DecodeInvariant == Spec => []DecodeInv
<1> QED
  BY DecodeInit, DecodeNext, PTL DEF Spec

\* The state of the calls and the caller's outputs keep their types: no block
\* above the limit is ever scanned, none reaches past its buffer.
THEOREM DecodeTypes == Spec => []TypeOK
<1>1. DecodeInv => TypeOK
  BY DEF DecodeInv, CallInv, CallTypes, TypeOK
<1> QED
  BY <1>1, DecodeInvariant, PTL

\* The reader and consumed are those of the last success together, whatever
\* calls fail in between and however far they get.
THEOREM DecodeOutputsOfLastSuccess == Spec => []OutputsAreOfLastSuccess
<1>1. DecodeInv => OutputsAreOfLastSuccess
  BY DEF DecodeInv, CallInv
<1> QED
  BY <1>1, DecodeInvariant, PTL

\* A call that succeeds has put every critical extension of the block to the
\* accept function, in order, and nothing else, and each was accepted; without
\* an accept function there is none.
THEOREM DecodeReleasesOnlyAccepted == Spec => []ReleasedOnlyIfAccepted
<1>1. DecodeInv => ReleasedOnlyIfAccepted
  <2> SUFFICES ASSUME DecodeInv, Succeeded
               PROVE  /\ {asked[n].extension : n \in DOMAIN asked} = Criticals
                      /\ \A m, n \in DOMAIN asked :
                            m < n => asked[m].extension.id < asked[n].extension.id
                      /\ \A n \in DOMAIN asked : asked[n].answer
                      /\ ~callback => Criticals = {}
    BY DEF ReleasedOnlyIfAccepted
  <2>1. pc = "idle" /\ status = "OK" /\ AskedAreCriticals /\ DOMAIN scanned = 1 .. Len(scanned)
    BY DEF Succeeded, Returned, DecodeInv, CallInv, CallTypes
  <2>2. CriticalsIn(scanned, Len(scanned)) = Criticals
    BY <2>1 DEF CriticalsIn, Criticals, Range
  <2>3. {asked[n].extension : n \in DOMAIN asked} = Criticals
    BY <2>1, <2>2 DEF AskedAreCriticals, Examined
  <2>4. ~callback => DOMAIN asked = {}
    BY <2>1 DEF AskedAreCriticals
  <2>5. ~callback => Criticals = {}
    BY <2>3, <2>4
  <2> QED
    BY <2>1, <2>3, <2>5 DEF AskedAreCriticals
<1> QED
  BY <1>1, DecodeInvariant, PTL

\* What a success consumed is the one encoding of what it returned: the body,
\* the length of the block and the extensions the scan read, to the last octet.
THEOREM DecodeReleasedIsCanonical == Spec => []ReleasedIsCanonical
<1>1. DecodeInv => ReleasedIsCanonical
  <2> SUFFICES ASSUME DecodeInv, Succeeded
               PROVE  ConsumedIsCanonical
    BY DEF ReleasedIsCanonical, ConsumedIsCanonical, FixedAgain, Marked, ScanWritten
  <2>1. pc = "idle" /\ status = "OK" /\ data # <<>>
    BY DEF Succeeded, Returned, DecodeInv
  <2> QED
    BY <2>1 DEF DecodeInv, ReadingStands
<1> QED
  BY <1>1, DecodeInvariant, PTL

\* The accept function is asked before anything is released, in ascending order
\* of ids, and never again after a no.
THEOREM DecodeAsksBeforeRelease == Spec => AskedBeforeRelease
<1> DEFINE Asks == asked' \notin {asked, <<>>} =>
              /\ UNCHANGED <<reader, consumed>>
              /\ \A i \in DOMAIN asked :
                    asked[i].answer /\ asked[i].extension.id < asked'[Len(asked')].extension.id
<1>1. DecodeInv /\ [Next]_vars => [Asks]_vars
  <2> SUFFICES ASSUME DecodeInv, Next PROVE Asks
    BY DEF vars
  <2>1. CASE Call \/ ScanFails \/ ScanReads \/ ScanEnds \/ RefuseUnasked
    BY <2>1 DEF Call, Enter, ScanFails, ScanReads, ScanEnds, RefuseUnasked
  <2>2. ASSUME NEW answer \in BOOLEAN, pc = "ask",
               asked' = Append(asked, [extension |-> extension, answer |-> answer]),
               UNCHANGED <<reader, consumed>>
        PROVE  Asks
    <3>1. /\ Len(asked) \in Nat
          /\ \A n \in DOMAIN asked : asked[n].answer /\ asked[n].extension.id < extension.id
      BY <2>2, AskedAscend DEF DecodeInv
    <3>2. asked \in Seq([extension : Scan!Extension, answer : BOOLEAN])
      BY DEF DecodeInv, CallInv, CallTypes
    <3>3. asked'[Len(asked')] = [extension |-> extension, answer |-> answer]
      BY <2>2, <3>1, <3>2
    <3> QED
      BY <2>2, <3>1, <3>3
  <2>3. CASE Accept
    BY <2>2, <2>3 DEF Accept
  <2>4. CASE Refuse
    BY <2>2, <2>4 DEF Refuse
  <2> QED
    BY <2>1, <2>3, <2>4 DEF Next, Proceed
<1> QED
  BY <1>1, DecodeInvariant, PTL DEF Spec, AskedBeforeRelease
=============================================================================
