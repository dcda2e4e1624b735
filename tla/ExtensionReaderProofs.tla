----------------------- MODULE ExtensionReaderProofs -----------------------
(***************************************************************************)
(* Proofs about the extension reader, for every payload group, word width  *)
(* and set of blocks: its types, that ids ascend, and that values are      *)
(* disjoint windows of the block in order, whatever calls are made; and    *)
(* that what was handed out without an error is the only reading there is  *)
(* of the octets read.                                                     *)
(***************************************************************************)
EXTENDS ExtensionReader, CodecLemmas

-----------------------------------------------------------------------------
\* previous_id is the id of the last extension handed out, and has_previous
\* says whether there is one (extension.c:444-445).
PreviousIsLast ==
    /\ reader.has_previous <=> yielded # <<>>
    /\ yielded # <<>> => reader.previous_id = yielded[Len(yielded)].id

\* The inductive invariant.  IdsAscend alone is not inductive: what a new id is
\* compared with is previous_id, not the history.
ReaderInv == TypeOK /\ IdsAscend /\ ValuesInOrder /\ PreviousIsLast

\* A call of the uvarint decoder, as far as the reader's types go.
LEMMA DecodeTypeInNat ==
    ASSUME NEW data \in Seq(Octet), NEW at \in 0 .. Len(data)
    PROVE  /\ UvarintDecode(data, at) \in [status : Status, value : Nat, used : Nat]
           /\ at + UvarintDecode(data, at).used <= Len(data)
           /\ UvarintDecode(data, at).status = "OK" => UvarintDecode(data, at).used >= 1
<1>1. /\ {"OK", "TRUNCATED", "RANGE", "NONCANONICAL"} \subseteq Status
      /\ Word \subseteq Nat /\ 0 .. MaxGroups \subseteq Nat
  BY UvarintAssumption DEF Status, Word, MaxGroups
<1> QED
  BY <1>1, UvarintDecodeType

\* The numbers a call reads are well formed, and the reader can not be moved
\* past the block by reading them.
LEMMA CallType ==
    ASSUME TypeOK, reader.offset <= Len(block)
    PROVE  /\ Key \in [status : Status, value : Nat, used : Nat]
           /\ AfterKey \in Nat /\ reader.offset <= AfterKey /\ AfterKey <= Len(block)
           /\ Key.status = "OK" => reader.offset + 1 <= AfterKey
           /\ ValueSize \in [status : Status, value : Nat, used : Nat]
           /\ AfterSize \in Nat /\ AfterKey <= AfterSize /\ AfterSize <= Len(block)
           /\ ValueSize.status = "OK" => AfterKey + 1 <= AfterSize
<1>1. block \in Seq(Octet) /\ reader.offset \in 0 .. Len(block)
  BY DEF TypeOK, Reader
<1>2. Key = UvarintDecode(block, reader.offset)
  BY <1>1 DEF Key, NumberAt
<1>3. /\ Key \in [status : Status, value : Nat, used : Nat]
      /\ reader.offset + Key.used <= Len(block)
      /\ Key.status = "OK" => Key.used >= 1
  BY <1>1, <1>2, DecodeTypeInNat
<1>4. AfterKey \in 0 .. Len(block) /\ reader.offset <= AfterKey
  BY <1>1, <1>3 DEF AfterKey
<1>5. ValueSize = UvarintDecode(block, AfterKey)
  BY <1>1, <1>4 DEF ValueSize, NumberAt
<1>6. /\ ValueSize \in [status : Status, value : Nat, used : Nat]
      /\ AfterKey + ValueSize.used <= Len(block)
      /\ ValueSize.status = "OK" => ValueSize.used >= 1
  BY <1>1, <1>4, <1>5, DecodeTypeInNat
<1> QED
  BY <1>1, <1>3, <1>4, <1>6 DEF AfterKey, AfterSize

\* The key splits into an id and a critical flag.
LEMMA FoundType ==
    ASSUME TypeOK, reader.offset <= Len(block)
    PROVE  Found \in Extension
<1>1. Key.value \in Nat /\ ValueSize.value \in Nat /\ AfterSize \in Nat
  BY CallType
<1>2. Key.value \div 2 \in Nat /\ Key.value % 2 \in {0, 1}
  BY <1>1
<1> QED
  BY <1>1, <1>2 DEF Found, Extension, IdOf, CriticalOf

\* The history holds extensions: numbers all through.
LEMMA YieldedType ==
    ASSUME TypeOK
    PROVE  \A i \in 1 .. Len(yielded) :
             /\ yielded[i].id \in Nat
             /\ yielded[i].value \in Nat
             /\ yielded[i].value_size \in Nat
             /\ yielded[i].value + yielded[i].value_size \in Nat
<1> SUFFICES ASSUME NEW i \in 1 .. Len(yielded)
             PROVE  /\ yielded[i].id \in Nat
                    /\ yielded[i].value \in Nat
                    /\ yielded[i].value_size \in Nat
                    /\ yielded[i].value + yielded[i].value_size \in Nat
  OBVIOUS
<1>1. yielded[i] \in Extension
  BY DEF TypeOK
<1> QED
  BY <1>1 DEF Extension

\* An error moves the reader inside the block and hands out nothing.
LEMMA FailInv ==
    ASSUME ReaderInv, NEW error \in Status, NEW offset \in reader.offset .. Len(block),
           Fail(error, offset)
    PROVE  ReaderInv'
<1>1. reader.offset \in Nat /\ offset \in Nat
  BY DEF ReaderInv, TypeOK, Reader
<1>2. /\ reader' = [reader EXCEPT !.offset = offset] /\ reader'.offset = offset
      /\ reader'.has_previous = reader.has_previous
      /\ reader'.previous_id = reader.previous_id
  BY DEF ReaderInv, TypeOK, Reader, Fail
<1>3. UNCHANGED <<block, extension, has_extension, yielded>>
  BY DEF Fail, outputs
<1>4. TypeOK'
  BY <1>1, <1>2, <1>3 DEF ReaderInv, TypeOK, Reader, Fail
<1>5. IdsAscend' /\ PreviousIsLast'
  BY <1>2, <1>3 DEF ReaderInv, IdsAscend, PreviousIsLast
<1>6. ValuesInOrder'
  <2>1. reader.offset <= offset /\ offset <= Len(block)
    BY <1>1
  <2>2. \A i \in DOMAIN yielded : yielded[i].value + yielded[i].value_size \in Nat
    BY SMTT(30), YieldedType DEF ReaderInv
  <2> QED
    BY <1>1, <1>2, <1>3, <2>1, <2>2 DEF ReaderInv, ValuesInOrder
<1> QED
  BY <1>4, <1>5, <1>6 DEF ReaderInv

\* A yielded extension comes after all earlier ones, in id and in place.
LEMMA YieldInv ==
    ASSUME ReaderInv, Yield
    PROVE  ReaderInv'
<1> DEFINE n == Len(yielded)
<1>1. /\ TypeOK /\ reader.offset <= Len(block) /\ block' = block
      /\ yielded \in Seq(Extension) /\ n \in Nat /\ reader.offset \in Nat
  BY DEF ReaderInv, TypeOK, ValuesInOrder, Reader, Yield
<1>2. Found \in Extension
  BY <1>1, FoundType
<1>3. /\ reader.offset + 2 <= AfterSize
      /\ AfterSize + ValueSize.value <= Len(block)
      /\ AfterSize \in Nat /\ ValueSize.value \in Nat
  BY SMTT(30), <1>1, CallType DEF Yield, ValueFits
<1>4. /\ yielded' = Append(yielded, Found)
      /\ reader' = [offset |-> AfterSize + ValueSize.value,
                    previous_id |-> Found.id, has_previous |-> TRUE]
  BY DEF Yield
<1>5. /\ Len(yielded') = n + 1 /\ yielded' \in Seq(Extension)
      /\ yielded'[n + 1] = Found
      /\ \A i \in 1 .. n : yielded'[i] = yielded[i]
  BY <1>1, <1>2, <1>4
<1>6. TypeOK'
  BY SMTT(30), <1>1, <1>2, <1>3, <1>4, <1>5 DEF TypeOK, Reader, Yield, Extension, Status
<1>7. PreviousIsLast'
  BY <1>1, <1>4, <1>5 DEF PreviousIsLast
<1>8. IdsAscend'
  <2>1. \A i \in 1 .. n : yielded[i].id < Found.id
    <3> SUFFICES ASSUME NEW i \in 1 .. n PROVE yielded[i].id < Found.id
      OBVIOUS
    <3>1. /\ yielded[i].id \in Nat /\ yielded[n].id \in Nat /\ Found.id \in Nat
          /\ i <= n /\ n \in 1 .. n
      <4>1. i \in 1 .. n /\ n \in 1 .. n
        BY <1>1
      <4>2. Found.id \in Nat
        BY <1>2 DEF Extension
      <4> QED
        BY <1>1, <4>1, <4>2, YieldedType
    <3>2. reader.previous_id = yielded[n].id /\ reader.has_previous
      BY <1>1, <3>1 DEF ReaderInv, PreviousIsLast
    <3>3. yielded[n].id < Found.id
      BY <3>1, <3>2 DEF Yield, IdIsNext, Found
    <3>4. i < n => yielded[i].id < yielded[n].id
      BY <1>1, <3>1 DEF ReaderInv, IdsAscend
    <3> QED
      BY <3>1, <3>3, <3>4
  <2>2. \A i, j \in 1 .. n : i < j => yielded[i].id < yielded[j].id
    BY <1>1 DEF ReaderInv, IdsAscend
  <2>3. DOMAIN yielded' = 1 .. n + 1
    BY <1>5
  <2> QED
    BY <1>1, <1>5, <2>1, <2>2, <2>3 DEF IdsAscend
<1>9. ValuesInOrder'
  <2>1. DOMAIN yielded' = 1 .. n + 1 /\ DOMAIN yielded = 1 .. n
    BY <1>1, <1>5
  <2>2. reader'.offset = AfterSize + ValueSize.value /\ reader'.offset <= Len(block')
    BY <1>1, <1>3, <1>4
  <2>3. ASSUME NEW i \in 1 .. n + 1
        PROVE  yielded'[i].value + yielded'[i].value_size <=
                 (IF i < n + 1 THEN yielded'[i + 1].value - 2 ELSE reader'.offset)
    <3>1. CASE i = n + 1
      BY <1>1, <1>3, <1>5, <2>2, <3>1 DEF Found
    <3>2. CASE i = n
      <4>1. yielded[n].value + yielded[n].value_size <= reader.offset
        BY <1>1, <2>1, <3>2 DEF ReaderInv, ValuesInOrder
      <4>2. yielded[n].value \in Nat /\ yielded[n].value_size \in Nat
        BY <1>1, <3>2, YieldedType
      <4>3. yielded'[n] = yielded[n] /\ yielded'[n + 1].value = AfterSize
        BY <1>1, <1>5, <3>2 DEF Found
      <4> QED
        BY SMTT(30), <1>1, <1>3, <3>2, <4>1, <4>2, <4>3
    <3>3. CASE i < n
      <4>1. yielded[i].value + yielded[i].value_size <= yielded[i + 1].value - 2
        BY SMTT(30), <1>1, <2>1, <3>3 DEF ReaderInv, ValuesInOrder
      <4>2. yielded'[i] = yielded[i] /\ yielded'[i + 1] = yielded[i + 1]
        BY <1>1, <1>5, <3>3
      <4> QED
        BY <1>1, <3>3, <4>1, <4>2
    <3> QED
      BY <1>1, <3>1, <3>2, <3>3
  <2> QED
    BY <1>5, <2>1, <2>2, <2>3 DEF ValuesInOrder
<1> QED
  BY <1>6, <1>7, <1>8, <1>9 DEF ReaderInv

-----------------------------------------------------------------------------
LEMMA InitInv == Init => ReaderInv
<1> SUFFICES ASSUME Init PROVE ReaderInv
  OBVIOUS
<1>1. block \in Seq(Octet) /\ reader = ReaderInit /\ yielded = <<>> /\ Len(yielded) = 0
  BY BlocksAssumption DEF Init, StartOn
<1>2. TypeOK
  <2>1. reader \in Reader
    BY <1>1 DEF Reader, ReaderInit
  <2>2. extension \in Extension
    BY DEF Init, StartOn, Extension, Unwritten
  <2>3. yielded \in Seq(Extension)
    BY <1>1
  <2> QED
    BY <1>1, <2>1, <2>2, <2>3 DEF Init, StartOn, TypeOK, Status
<1> QED
  BY <1>1, <1>2 DEF ReaderInv, IdsAscend, ValuesInOrder, PreviousIsLast, ReaderInit

LEMMA NextInv == ReaderInv /\ [Next]_vars => ReaderInv'
<1> SUFFICES ASSUME ReaderInv, [Next]_vars PROVE ReaderInv'
  OBVIOUS
<1>1. TypeOK /\ reader.offset <= Len(block) /\ reader.offset \in Nat
  BY DEF ReaderInv, ValuesInOrder, TypeOK, Reader
<1>2. CASE Finish
  BY <1>2 DEF Finish, ReaderInv, TypeOK, Status, IdsAscend, ValuesInOrder, PreviousIsLast
<1>3. CASE FailInKey
  <2>1. Key.status \in Status
    BY <1>1, CallType
  <2> QED
    BY <1>1, <1>3, <2>1, FailInv DEF FailInKey
<1>4. CASE FailOnId
  <2>1. AfterKey \in reader.offset .. Len(block) /\ "NONCANONICAL" \in Status
    BY <1>1, CallType DEF Status
  <2> QED
    BY <1>4, <2>1, FailInv DEF FailOnId
<1>5. CASE FailInSize
  <2>1. AfterKey \in reader.offset .. Len(block) /\ ValueSize.status \in Status
    BY <1>1, CallType
  <2> QED
    BY <1>5, <2>1, FailInv DEF FailInSize
<1>6. CASE FailOnValue
  <2>1. AfterSize \in reader.offset .. Len(block) /\ "TRUNCATED" \in Status
    BY <1>1, CallType DEF Status
  <2> QED
    BY <1>6, <2>1, FailInv DEF FailOnValue
<1>7. CASE Yield
  BY <1>7, YieldInv
<1>8. CASE UNCHANGED vars
  BY <1>8 DEF vars, outputs, ReaderInv, TypeOK, IdsAscend, ValuesInOrder, PreviousIsLast
<1> QED
  BY <1>2, <1>3, <1>4, <1>5, <1>6, <1>7, <1>8 DEF Next

\* The inductive invariant holds of every behaviour of a reader.
THEOREM ReaderInvariant == Spec => []ReaderInv
<1> QED
  BY InitInv, NextInv, PTL DEF Spec

\* The reader, its outputs and the history keep their types.
THEOREM ReaderTypes == Spec => []TypeOK
<1>1. ReaderInv => TypeOK
  BY DEF ReaderInv
<1> QED
  BY <1>1, ReaderInvariant, PTL

\* Ids strictly ascend over all calls, those made after an error included.
THEOREM ReaderIdsAscend == Spec => []IdsAscend
<1>1. ReaderInv => IdsAscend
  BY DEF ReaderInv
<1> QED
  BY <1>1, ReaderInvariant, PTL

\* Values are disjoint windows of the block, in order, behind the reader.
THEOREM ReaderValuesInOrder == Spec => []ValuesInOrder
<1>1. ReaderInv => ValuesInOrder
  BY DEF ReaderInv
<1> QED
  BY <1>1, ReaderInvariant, PTL

\* No call moves the reader back, and a successful one either reports the end
\* or moves past a whole element.
THEOREM ReaderMovesForward == Spec => CallsMoveForward
<1> DEFINE Forward ==
      /\ reader'.offset >= reader.offset
      /\ (status' = "OK" /\ has_extension') => reader'.offset >= reader.offset + 2
      /\ (status' = "OK" /\ ~has_extension') => UNCHANGED <<reader, yielded>>
<1>1. ReaderInv /\ [Next]_vars => [Forward]_vars
  <2> SUFFICES ASSUME ReaderInv, Next PROVE Forward
    BY DEF vars
  <2>1. /\ TypeOK /\ reader.offset <= Len(block) /\ reader.offset \in Nat
        /\ reader \in Reader
    BY DEF ReaderInv, ValuesInOrder, TypeOK, Reader
  <2>2. CASE Finish
    BY <2>1, <2>2 DEF Finish
  <2>3. ASSUME NEW error \in Status \ {"OK"}, NEW offset \in reader.offset .. Len(block),
               Fail(error, offset)
        PROVE  Forward
    BY <2>1, <2>3 DEF Fail, Reader
  <2>4. CASE FailInKey
    <3>1. Key.status \in Status \ {"OK"}
      BY <2>1, <2>4, CallType DEF FailInKey
    <3> QED
      BY <2>1, <2>3, <2>4, <3>1 DEF FailInKey
  <2>5. CASE FailOnId
    <3>1. AfterKey \in reader.offset .. Len(block)
      BY <2>1, CallType
    <3> QED
      BY <2>3, <2>5, <3>1 DEF FailOnId, Status
  <2>6. CASE FailInSize
    <3>1. AfterKey \in reader.offset .. Len(block) /\ ValueSize.status \in Status \ {"OK"}
      BY <2>1, <2>6, CallType DEF FailInSize
    <3> QED
      BY <2>3, <2>6, <3>1 DEF FailInSize
  <2>7. CASE FailOnValue
    <3>1. AfterSize \in reader.offset .. Len(block)
      BY <2>1, CallType
    <3> QED
      BY <2>3, <2>7, <3>1 DEF FailOnValue, Status
  <2>8. CASE Yield
    <3>1. reader.offset + 2 <= AfterSize /\ AfterSize \in Nat /\ ValueSize.value \in Nat
      BY SMTT(30), <2>1, <2>8, CallType DEF Yield
    <3> QED
      BY <2>1, <2>8, <3>1 DEF Yield
  <2> QED
    BY <2>2, <2>4, <2>5, <2>6, <2>7, <2>8 DEF Next
<1> QED
  BY <1>1, ReaderInvariant, PTL DEF Spec, CallsMoveForward

-----------------------------------------------------------------------------
\* The octets of what was handed out, in order.
Written == FlattenSeq([i \in DOMAIN yielded |-> Element(yielded[i])])

\* The inductive invariant of the reading: in addition to what CleanWalkIsCanonical
\* says, every element handed out consists of octets.
CanonInv ==
    /\ \A i \in DOMAIN yielded : Element(yielded[i]) \in Seq(Octet)
    /\ ~failed => SubSeq(block, 1, reader.offset) = Written

\* An extension that is handed out stands for exactly the octets it was read from.
LEMMA FoundIsWindow ==
    ASSUME ReaderInv, Yield
    PROVE  /\ Element(Found) = SubSeq(block, reader.offset + 1, AfterSize + ValueSize.value)
           /\ Element(Found) \in Seq(Octet)
<1> DEFINE o == reader.offset
           n == ValueSize.value
<1>1. /\ TypeOK /\ o <= Len(block) /\ block \in Seq(Octet) /\ o \in Nat /\ Len(block) \in Nat
  BY DEF ReaderInv, TypeOK, ValuesInOrder, Reader
<1>2. /\ AfterKey \in Nat /\ o <= AfterKey /\ AfterKey <= Len(block)
      /\ AfterSize \in Nat /\ AfterKey <= AfterSize /\ AfterSize <= Len(block)
      /\ Key.value \in Nat /\ n \in Nat
      /\ o \in 0 .. Len(block) /\ AfterKey \in 0 .. Len(block)
  BY <1>1, CallType
<1>3. /\ Key = UvarintDecode(block, o) /\ AfterKey = o + Key.used
      /\ ValueSize = UvarintDecode(block, AfterKey) /\ AfterSize = AfterKey + ValueSize.used
  BY <1>2 DEF Key, ValueSize, NumberAt, AfterKey, AfterSize
<1>4. Key.status = "OK" /\ ValueSize.status = "OK" /\ AfterSize + n <= Len(block)
  BY <1>1, <1>2 DEF Yield, ValueFits
<1>5. /\ UvarintEncode(Key.value) \o UvarintEncode(n) \o SubSeq(block, AfterSize + 1, AfterSize + n)
         = SubSeq(block, o + 1, AfterSize + n)
      /\ SubSeq(block, o + 1, AfterSize + n) \in Seq(Octet)
  <2>1. ElementIsWindow(block, o, Key, AfterKey, ValueSize, AfterSize)
    <3> HIDE DEF o
    <3> QED
      BY <1>1, <1>2, <1>3, <1>4, ElementWindow
  <2> QED
    BY <2>1 DEF ElementIsWindow
<1>6. Element(Found) =
         UvarintEncode(Key.value) \o UvarintEncode(n) \o SubSeq(block, AfterSize + 1, AfterSize + n)
  <2>1. 2 * (Key.value \div 2) + (Key.value % 2) = Key.value
    BY <1>2
  <2>2. /\ 2 * Found.id + Found.critical = Key.value /\ Found.value_size = n
        /\ Found.value = AfterSize
    BY <2>1 DEF Found, IdOf, CriticalOf
  <2> QED
    BY <2>2 DEF Element
<1> QED
  BY <1>5, <1>6

LEMMA CanonYield ==
    ASSUME ReaderInv, CanonInv, Yield
    PROVE  CanonInv'
<1> DEFINE n == Len(yielded)
           e == [i \in DOMAIN yielded |-> Element(yielded[i])]
           end == AfterSize + ValueSize.value
<1>1. /\ block \in Seq(Octet) /\ yielded \in Seq(Extension) /\ n \in Nat
      /\ reader.offset \in Nat /\ reader.offset <= Len(block) /\ Len(block) \in Nat
      /\ TypeOK
  BY DEF ReaderInv, TypeOK, ValuesInOrder, Reader
<1>2. /\ block' = block /\ failed' = failed /\ yielded' = Append(yielded, Found)
      /\ reader'.offset = end
  BY DEF Yield
<1>3. end \in Nat /\ reader.offset <= end /\ end <= Len(block)
  BY SMTT(30), <1>1, CallType DEF Yield, ValueFits
<1>4. /\ Element(Found) = SubSeq(block, reader.offset + 1, end)
      /\ Element(Found) \in Seq(Octet)
  BY FoundIsWindow
<1> HIDE DEF end
<1>5. /\ DOMAIN yielded' = 1 .. n + 1 /\ DOMAIN yielded = 1 .. n
      /\ yielded'[n + 1] = Found /\ \A i \in 1 .. n : yielded'[i] = yielded[i]
  BY <1>1, <1>2
<1>6. e \in Seq(Seq(Octet)) /\ Len(e) = n
  BY <1>1, <1>5 DEF CanonInv
<1>7. \A i \in DOMAIN yielded' : (Element(yielded[i]))' = Element(yielded'[i])
  BY <1>2 DEF Element
<1>8. /\ [i \in DOMAIN yielded' |-> (Element(yielded[i]))'] = Append(e, Element(Found))
      /\ \A i \in DOMAIN yielded' : (Element(yielded[i]))' \in Seq(Octet)
  <2>1. \A i \in 1 .. n + 1 :
           (Element(yielded[i]))' = IF i <= n THEN e[i] ELSE Element(Found)
    BY <1>1, <1>5, <1>7
  <2> HIDE DEF e
  <2>2. n \in Nat /\ \A i \in 1 .. n : e[i] \in Seq(Octet)
    BY <1>1, <1>6, ElementOfSeq
  <2>3. Append(e, Element(Found)) =
           [i \in 1 .. n + 1 |-> IF i <= n THEN e[i] ELSE Element(Found)]
    BY <1>4, <1>6, AppendIsFunction
  <2>4. \A i \in 1 .. n + 1 : (Element(yielded[i]))' \in Seq(Octet)
    <3> SUFFICES ASSUME NEW i \in 1 .. n + 1
                 PROVE  (Element(yielded[i]))' \in Seq(Octet)
      OBVIOUS
    <3>1. CASE i <= n
      <4>1. i \in 1 .. n /\ e[i] \in Seq(Octet)
        BY <2>2, <3>1
      <4> QED
        BY <2>1, <3>1, <4>1
    <3>2. CASE ~(i <= n)
      BY <1>4, <2>1, <3>2
    <3> QED
      BY <3>1, <3>2
  <2> QED
    BY <1>5, <2>1, <2>3, <2>4
<1>9. ASSUME ~failed
      PROVE  SubSeq(block, 1, end) = Written'
  <2>1. Written' = FlattenSeq(e) \o Element(Found)
    <3>1. Written' = FlattenSeq(Append(e, Element(Found)))
      BY <1>8 DEF Written
    <3> HIDE DEF e
    <3> QED
      BY <1>4, <1>6, <3>1, FlattenAppend
  <2>2. FlattenSeq(e) = SubSeq(block, 1, reader.offset)
    BY <1>9 DEF CanonInv, Written
  <2>3. SubSeq(block, 1, end) =
           SubSeq(block, 1, reader.offset) \o SubSeq(block, reader.offset + 1, end)
    <3>1. 1 \in 1 .. Len(block) + 1 /\ reader.offset \in 1 - 1 .. Len(block)
          /\ end \in reader.offset .. Len(block)
      BY <1>1, <1>3
    <3> QED
      BY <1>1, <3>1, ConcatAdjacentSubSeq
  <2> QED
    BY <1>4, <2>1, <2>2, <2>3
<1> QED
  BY <1>2, <1>8, <1>9 DEF CanonInv

\* While no call has failed the octets read are the encoding of what was handed
\* out: a block walked to its end has one reading (extension.c:393-447).
THEOREM ReaderWalkIsCanonical == Spec => []CleanWalkIsCanonical
<1>1. Init => CanonInv
  <2> SUFFICES ASSUME Init PROVE CanonInv
    OBVIOUS
  <2>1. yielded = <<>> /\ reader.offset = 0 /\ DOMAIN yielded = {}
    BY DEF Init, StartOn, ReaderInit
  <2>2. [i \in DOMAIN yielded |-> Element(yielded[i])] = <<>>
    BY <2>1
  <2>3. FlattenSeq(<<>>) = <<>>
    BY DEF FlattenSeq
  <2>4. SubSeq(block, 1, 0) = <<>>
    BY SubSeqEmpty
  <2>5. Written = <<>>
    BY <2>2, <2>3 DEF Written
  <2> QED
    BY <2>1, <2>4, <2>5 DEF CanonInv
<1>2. ReaderInv /\ CanonInv /\ [Next]_vars => CanonInv'
  <2> SUFFICES ASSUME ReaderInv, CanonInv, [Next]_vars PROVE CanonInv'
    OBVIOUS
  <2>1. CASE Finish
    BY <2>1 DEF Finish, CanonInv, Written, Element
  <2>2. ASSUME NEW error, NEW offset, Fail(error, offset)
        PROVE  CanonInv'
    <3>1. failed' /\ block' = block /\ yielded' = yielded
      BY <2>2 DEF Fail
    <3> QED
      BY <3>1 DEF CanonInv, Element
  <2>3. CASE FailInKey \/ FailOnId \/ FailInSize \/ FailOnValue
    BY <2>2, <2>3 DEF FailInKey, FailOnId, FailInSize, FailOnValue
  <2>4. CASE Yield
    BY <2>4, CanonYield
  <2>5. CASE UNCHANGED vars
    BY <2>5 DEF vars, CanonInv, Written, Element
  <2> QED
    BY <2>1, <2>3, <2>4, <2>5 DEF Next
<1>3. CanonInv => CleanWalkIsCanonical
  BY DEF CanonInv, Written, CleanWalkIsCanonical
<1> QED
  BY <1>1, <1>2, <1>3, ReaderInvariant, PTL DEF Spec
=============================================================================
