--------------------------- MODULE EncodeExtProofs ---------------------------
(***************************************************************************)
(* Proofs about the extension encoder, for every object, list of           *)
(* extensions, room, block bound and size of a payload group.  The first   *)
(* part is about the octets of a list and of an object, the second about   *)
(* the steps of a call: the invariant follows the two passes over the list *)
(* by the octets of the extensions they have been over.                    *)
(***************************************************************************)
EXTENDS EncodeExt, CodecLemmas

Byte == 0 .. 255
Extension == [id : Word, critical : Byte, value : Seq(Byte)]

\* The octets of one extension, and of the first m of a list.
ElementOf(e) == UvarintEncode(KeyOf(e)) \o UvarintEncode(Len(e.value)) \o e.value
Prefix(list, m) == FlattenSeq([n \in 1 .. m |-> ElementOf(list[n])])

\* The first m extensions pass the checks both passes make.
ValidUpTo(list, m) ==
    \A n \in 1 .. m : InRange(list[n]) /\ (n # 1 => list[n].id > list[n - 1].id)

\* The numbers among the assumptions.
LEMMA Bounds ==
    /\ Group \in Nat /\ Group > 1 /\ 2 * Group <= 256
    /\ WordMax \in Nat /\ (WordMax % 2) = 1
    /\ BlockMax \in Nat /\ BlockMax <= WordMax /\ BlockMax < Group * Group
    /\ MemorySize \in Nat
<1>1. Group \in Nat /\ Group > 1 /\ WordMax \in Nat
  BY UvarintAssumption
<1>2. 2 * Group <= 256 /\ (WordMax % 2) = 1 /\ BlockMax < Group * Group /\ MemorySize \in Nat
  BY EncodeExtAssumption
<1>3. BlockMax \in 1 .. WordMax
  BY EncodeExtAssumption
<1> QED
  BY <1>1, <1>2, <1>3

LEMMA ArgumentTypes ==
    /\ \A o \in Objects : o.priority \in Nat
    /\ \A list \in Lists : list \in Seq(Extension)
    /\ \A capacity \in Capacities : capacity \in 0 .. MemorySize
<1>1. \A o \in Objects : o.priority \in 0 .. 255
  BY EncodeExtAssumption
<1>2. Lists \subseteq Seq(Extension)
  BY EncodeExtAssumption DEF Extension, Byte
<1>3. Capacities \subseteq 0 .. MemorySize
  BY EncodeExtAssumption
<1>4. \A o \in Objects : o.priority \in Nat
  <2> SUFFICES ASSUME NEW o \in Objects PROVE o.priority \in Nat
    OBVIOUS
  <2>1. o.priority \in 0 .. 255
    BY <1>1
  <2> QED
    BY <2>1
<1> QED
  BY <1>2, <1>3, <1>4

LEMMA ExtensionType ==
    ASSUME NEW e \in Extension
    PROVE  /\ e.id \in Nat /\ e.critical \in Nat
           /\ e.value \in Seq(Byte) /\ Len(e.value) \in Nat
<1>1. e.id \in Word /\ e.critical \in Byte /\ e.value \in Seq(Byte)
  BY DEF Extension
<1>2. Word \subseteq Nat /\ Byte \subseteq Nat
  BY Bounds DEF Word, Byte
<1>3. Len(e.value) \in Nat
  BY <1>1
<1>4. e.id \in Nat /\ e.critical \in Nat
  BY <1>1, <1>2
<1> QED
  BY <1>1, <1>3, <1>4

\* The words of an extension that is in range, and its octets.
LEMMA KeyIsWord ==
    ASSUME NEW e \in Extension, InRange(e)
    PROVE  KeyOf(e) \in Word /\ Len(e.value) \in Word
<1>1. /\ e.id \in Nat /\ e.critical \in Nat /\ Len(e.value) \in Nat
      /\ WordMax \in Nat /\ (WordMax % 2) = 1
  BY Bounds, ExtensionType
<1>2. e.id <= WordMax \div 2 /\ e.critical <= 1 /\ Len(e.value) <= WordMax
  BY DEF InRange
<1>3. 2 * (WordMax \div 2) + 1 = WordMax
  BY <1>1
<1> DEFINE h == WordMax \div 2
<1>4. h \in Nat
  BY <1>1
<1> HIDE DEF h
<1>5. e.id <= h /\ 2 * h + 1 = WordMax
  BY <1>2, <1>3 DEF h
<1>6. 2 * e.id + e.critical \in 0 .. WordMax
  BY <1>1, <1>2, <1>4, <1>5
<1> QED
  BY <1>1, <1>2, <1>6 DEF KeyOf, Word

LEMMA WordOctets ==
    ASSUME NEW v \in Word
    PROVE  /\ UvarintEncode(v) \in Seq(Byte)
           /\ Len(UvarintEncode(v)) = UvarintSize(v)
           /\ UvarintSize(v) \in 1 .. 5
<1>1. UvarintEncode(v) \in Seq(Octet)
  BY EncodedOctets
<1>2. Octet \subseteq Byte
  BY Bounds DEF Octet, Byte
<1>3. UvarintEncode(v) \in Seq(Byte)
  BY <1>1, <1>2, WiderSequence
<1> QED
  BY <1>1, <1>3, SizeIsLength DEF MaxGroups

LEMMA ElementType ==
    ASSUME NEW e \in Extension, InRange(e)
    PROVE  /\ ElementOf(e) \in Seq(Byte)
           /\ Len(ElementOf(e)) = FieldSize(e) + Len(e.value)
           /\ FieldSize(e) \in Nat /\ Len(e.value) \in Nat
<1> DEFINE k == UvarintEncode(KeyOf(e))
           s == UvarintEncode(Len(e.value))
<1>1. KeyOf(e) \in Word /\ Len(e.value) \in Word
  BY KeyIsWord
<1>2. /\ k \in Seq(Byte) /\ Len(k) = UvarintSize(KeyOf(e)) /\ UvarintSize(KeyOf(e)) \in 1 .. 5
  BY <1>1, WordOctets
<1>3. /\ s \in Seq(Byte) /\ Len(s) = UvarintSize(Len(e.value))
      /\ UvarintSize(Len(e.value)) \in 1 .. 5
  BY <1>1, WordOctets
<1>4. e.value \in Seq(Byte) /\ Len(e.value) \in Nat
  BY ExtensionType
<1> HIDE DEF k, s
<1>5. k \o s \in Seq(Byte) /\ Len(k \o s) = Len(k) + Len(s)
  BY <1>2, <1>3, ConcatType
<1>6. (k \o s) \o e.value \in Seq(Byte) /\ Len((k \o s) \o e.value) = Len(k \o s) + Len(e.value)
  BY <1>4, <1>5, ConcatType
<1>7. ElementOf(e) = (k \o s) \o e.value
  BY DEF ElementOf, k, s
<1>8. FieldSize(e) = Len(k) + Len(s) /\ Len(k) \in Nat /\ Len(s) \in Nat
  BY <1>2, <1>3 DEF FieldSize
<1>9. Len(ElementOf(e)) = FieldSize(e) + Len(e.value) /\ FieldSize(e) \in Nat
  BY <1>5, <1>6, <1>7, <1>8
<1> QED
  BY <1>4, <1>6, <1>7, <1>9

\* The octets of a list, extension by extension.
LEMMA PrefixSteps ==
    ASSUME NEW list \in Seq(Extension), NEW m \in Nat, m <= Len(list), ValidUpTo(list, m)
    PROVE  /\ Prefix(list, 0) = <<>>
           /\ Prefix(list, m) \in Seq(Byte)
           /\ (m + 1 <= Len(list) /\ InRange(list[m + 1])) =>
                /\ Prefix(list, m + 1) = Prefix(list, m) \o ElementOf(list[m + 1])
                /\ Len(Prefix(list, m + 1)) = Len(Prefix(list, m)) + FieldSize(list[m + 1])
                                                 + Len(list[m + 1].value)
<1> DEFINE Parts(n) == [j \in 1 .. n |-> ElementOf(list[j])]
           S == Byte
           T == Seq(S)
<1>1. Prefix(list, 0) = <<>>
  <2>1. Parts(0) = <<>>
    OBVIOUS
  <2>2. FlattenSeq(<<>>) = <<>>
    BY DEF FlattenSeq
  <2>3. Prefix(list, 0) = FlattenSeq(Parts(0))
    BY DEF Prefix
  <2> HIDE DEF Parts
  <2> QED
    BY <2>1, <2>2, <2>3
<1>2. \A j \in 1 .. m : list[j] \in Extension /\ InRange(list[j])
  BY DEF ValidUpTo
<1>3. \A j \in 1 .. m : ElementOf(list[j]) \in Seq(S)
  BY <1>2, ElementType
<1> HIDE DEF S
<1>4. Parts(m) \in Seq(Seq(S)) /\ Len(Parts(m)) = m
  <2>1. Parts(m) \in [1 .. m -> Seq(S)]
    BY <1>3
  <2> HIDE DEF Parts
  <2> QED
    BY <2>1, FunctionIsSequence
<1>5. Prefix(list, m) \in Seq(S)
  <2>1. Prefix(list, m) = FlattenSeq(Parts(m))
    BY DEF Prefix
  <2> HIDE DEF Parts
  <2> QED
    BY <1>4, <2>1, FlattenType
<1>6. ASSUME m + 1 <= Len(list), InRange(list[m + 1])
      PROVE  /\ Prefix(list, m + 1) = Prefix(list, m) \o ElementOf(list[m + 1])
             /\ Len(Prefix(list, m + 1)) = Len(Prefix(list, m)) + FieldSize(list[m + 1])
                                              + Len(list[m + 1].value)
  <2> DEFINE x == ElementOf(list[m + 1])
  <2>1. list[m + 1] \in Extension
    BY <1>6
  <2>2. /\ x \in Seq(S)
        /\ Len(x) = FieldSize(list[m + 1]) + Len(list[m + 1].value)
        /\ FieldSize(list[m + 1]) \in Nat /\ Len(list[m + 1].value) \in Nat
    BY <1>6, <2>1, ElementType DEF S
  <2>3. Parts(m + 1) = Append(Parts(m), x)
    <3> DEFINE p == Parts(m)
    <3>0. p \in Seq(T) /\ Len(p) = m /\ x \in T
      BY <1>4, <2>2
    <3>1. Append(p, x) = [j \in 1 .. m + 1 |-> IF j <= m THEN p[j] ELSE x]
      <4> HIDE DEF p, x, T
      <4>1. Append(p, x) = [j \in 1 .. Len(p) + 1 |-> IF j <= Len(p) THEN p[j] ELSE x]
        BY <3>0, AppendIsFunction
      <4> QED
        BY <3>0, <4>1
    <3>2. \A j \in 1 .. m + 1 : ElementOf(list[j]) = IF j <= m THEN Parts(m)[j] ELSE x
      OBVIOUS
    <3> QED
      BY <3>1, <3>2
  <2>4. FlattenSeq(Append(Parts(m), x)) = FlattenSeq(Parts(m)) \o x
    <3> HIDE DEF Parts, x
    <3> QED
      BY <1>4, <2>2, FlattenAppend
  <2>5. Prefix(list, m + 1) = FlattenSeq(Parts(m + 1)) /\ Prefix(list, m) = FlattenSeq(Parts(m))
    BY DEF Prefix
  <2> HIDE DEF Parts, x
  <2>6. Prefix(list, m + 1) = Prefix(list, m) \o x
    BY <2>3, <2>4, <2>5
  <2>7. Len(Prefix(list, m) \o x) = Len(Prefix(list, m)) + Len(x)
    BY <1>5, <2>2, ConcatType
  <2>8. Len(Prefix(list, m)) \in Nat
    BY <1>5
  <2>9. Len(Prefix(list, m + 1)) = Len(Prefix(list, m)) + FieldSize(list[m + 1])
                                      + Len(list[m + 1].value)
    <3>1. Len(Prefix(list, m + 1)) = Len(Prefix(list, m)) + Len(x)
      BY <2>6, <2>7
    <3> QED
      BY SMTT(30), <2>2, <2>8, <3>1
  <2> QED
    BY <2>6, <2>9 DEF x
<1> QED
  BY <1>1, <1>5, <1>6 DEF S

LEMMA PrefixNext ==
    ASSUME NEW list \in Seq(Extension), NEW n \in 1 .. Len(list), ValidUpTo(list, n - 1),
           InRange(list[n])
    PROVE  Prefix(list, n) = Prefix(list, n - 1) \o ElementOf(list[n])
<1> DEFINE m == n - 1
<1>1. m \in Nat /\ m <= Len(list) /\ m + 1 <= Len(list) /\ m + 1 = n /\ ValidUpTo(list, m)
  OBVIOUS
<1> HIDE DEF m
<1>2. InRange(list[m + 1])
  BY <1>1
<1>3. Prefix(list, m + 1) = Prefix(list, m) \o ElementOf(list[m + 1])
  BY <1>1, <1>2, PrefixSteps
<1> QED
  BY <1>1, <1>3 DEF m

\* More extensions take no fewer octets.
LEMMA PrefixGrows ==
    ASSUME NEW list \in Seq(Extension), ValidUpTo(list, Len(list)), NEW m \in 0 .. Len(list)
    PROVE  Len(Prefix(list, m)) <= Len(Prefix(list, Len(list)))
<1> DEFINE n == Len(list)
           P(k) == Len(Prefix(list, k))
           S == {k \in Nat : m + k <= n => P(m) <= P(m + k)}
<1>1. n \in Nat
  OBVIOUS
<1>2. \A k \in 0 .. n : ValidUpTo(list, k)
  BY DEF ValidUpTo
<1>3. \A k \in 0 .. n : P(k) \in Nat
  <2> SUFFICES ASSUME NEW k \in 0 .. n PROVE P(k) \in Nat
    OBVIOUS
  <2>1. Prefix(list, k) \in Seq(Byte)
    BY <1>2, PrefixSteps
  <2> QED
    BY <2>1
<1>4. 0 \in S
  BY <1>3
<1>5. ASSUME NEW k \in Nat, k \in S PROVE k + 1 \in S
  <2> SUFFICES ASSUME m + (k + 1) <= n PROVE P(m) <= P(m + (k + 1))
    OBVIOUS
  <2>1. m + k \in Nat /\ m + k <= n /\ (m + k) + 1 <= n /\ m + (k + 1) = (m + k) + 1
    OBVIOUS
  <2>2. ValidUpTo(list, m + k) /\ InRange(list[(m + k) + 1]) /\ list[(m + k) + 1] \in Extension
    BY <1>2, <2>1 DEF ValidUpTo
  <2>3. P((m + k) + 1) = P(m + k) + FieldSize(list[(m + k) + 1]) + Len(list[(m + k) + 1].value)
    BY <2>1, <2>2, PrefixSteps
  <2>4. FieldSize(list[(m + k) + 1]) \in Nat /\ Len(list[(m + k) + 1].value) \in Nat
    BY <2>2, ElementType
  <2>5. P(m) \in Nat /\ P(m + k) \in Nat /\ P(m) <= P(m + k)
    BY <1>3, <1>5, <2>1
  <2> HIDE DEF P
  <2> QED
    BY <2>1, <2>3, <2>4, <2>5
<1> HIDE DEF S
<1>6. n - m \in S
  BY <1>1, <1>4, <1>5, AllNumbers
<1>7. n - m \in Nat /\ m + (n - m) = n
  BY <1>1
<1> QED
  BY <1>6, <1>7 DEF S

LEMMA ElementsArePrefix ==
    ASSUME NEW list \in Seq(Extension)
    PROVE  Elements(list) = Prefix(list, Len(list))
<1>1. DOMAIN list = 1 .. Len(list)
  OBVIOUS
<1> QED
  BY <1>1 DEF Elements, Prefix, ElementOf

LEMMA EncodableIsValid ==
    ASSUME NEW list \in Seq(Extension)
    PROVE  Encodable(list) <=> ValidUpTo(list, Len(list))
<1>1. DOMAIN list = 1 .. Len(list) /\ Len(list) \in Nat
  OBVIOUS
<1>2. \A n \in 1 .. Len(list) : list[n].id \in Nat
  <2> SUFFICES ASSUME NEW n \in 1 .. Len(list) PROVE list[n].id \in Nat
    OBVIOUS
  <2>1. list[n] \in Extension
    OBVIOUS
  <2> QED
    BY <2>1, ExtensionType
<1>3. ASSUME Encodable(list) PROVE ValidUpTo(list, Len(list))
  BY <1>1, <1>2, <1>3 DEF Encodable, ValidUpTo
<1>4. ASSUME ValidUpTo(list, Len(list)) PROVE Encodable(list)
  <2>1. \A n \in 2 .. Len(list) : n \in 1 .. Len(list) /\ n # 1 /\ n - 1 \in 1 .. Len(list)
    BY <1>1
  <2>2. \A n \in 2 .. Len(list) : list[n].id > list[n - 1].id
    BY <1>4, <2>1 DEF ValidUpTo
  <2>3. \A n \in 2 .. Len(list) : list[n - 1].id < list[n].id
    BY <1>2, <2>1, <2>2
  <2> QED
    BY <1>1, <1>4, <2>3 DEF Encodable, ValidUpTo
<1> QED
  BY <1>3, <1>4

-----------------------------------------------------------------------------
\* octets stand in memory behind position at.
Holds(octets, at, m) == \A k \in 1 .. Len(octets) : m[at + k] = octets[k]

\* The object can be encoded when there is room, and its octets.
Fitting(o) == EncodeAtMajor(EXPERIMENTAL_MAJOR, o, [k \in 1 .. 17 |-> 0], 17).status = "OK"
Fixed(o) == FixedEncoding(EXPERIMENTAL_MAJOR, o)

\* Two octets are enough for the length of a block (extension.h:115-119).
LEMMA LengthTakesTwo ==
    ASSUME NEW v \in 0 .. BlockMax
    PROVE  /\ v \in Word
           /\ UvarintEncode(v) \in Seq(Byte)
           /\ Len(UvarintEncode(v)) \in {1, 2}
<1>1. v \in Word /\ v < Group * Group
  BY Bounds DEF Word
<1> QED
  BY <1>1, WordOctets, TwoOctets

\* An object that fits has octets, ten to seventeen, and no extension_present.
LEMMA FixedType ==
    ASSUME NEW o \in Objects, Fitting(o)
    PROVE  /\ Fixed(o) \in Seq(Byte)
           /\ Len(Fixed(o)) = Required(EXPERIMENTAL_MAJOR, o)
           /\ Len(Fixed(o)) \in 10 .. 17
           /\ (Fixed(o)[2] % 2) = 0
           /\ \A k \in 1 .. Len(Fixed(o)) :
                 Fixed(o)[k] = EncodeAtMajor(EXPERIMENTAL_MAJOR, o, [j \in 1 .. 17 |-> 0], 17).memory[k]
<1>1. EncodeAtMajor(EXPERIMENTAL_MAJOR, o, [k \in 1 .. 17 |-> 0], 17).status = "OK"
  BY DEF Fitting
<1> QED
  BY <1>1, ArgumentTypes, FixedIs DEF Fixed, Byte

\* Encoding into room offered: the octets of the object, or there is no room.
LEMMA BodyWritten ==
    ASSUME NEW o \in Objects, NEW m \in [1 .. MemorySize -> 0 .. 255],
           NEW capacity \in 0 .. MemorySize
    PROVE  LET r == EncodeAtMajor(EXPERIMENTAL_MAJOR, o, m, capacity)
           IN  /\ r.status = "OK" =>
                     /\ Fitting(o)
                     /\ r.written = Len(Fixed(o)) /\ Len(Fixed(o)) <= capacity
                     /\ Holds(Fixed(o), 0, r.memory)
               /\ (r.status # "OK" /\ Fitting(o)) => capacity < Len(Fixed(o))
<1> DEFINE zeros == [k \in 1 .. 17 |-> 0]
           z == EncodeAtMajor(EXPERIMENTAL_MAJOR, o, zeros, 17)
           r == EncodeAtMajor(EXPERIMENTAL_MAJOR, o, m, capacity)
           n == Required(EXPERIMENTAL_MAJOR, o)
<1>1. o.priority \in Nat
  BY ArgumentTypes
<1>2. zeros \in [1 .. 17 -> 0 .. 255] /\ 17 \in Nat /\ 17 \in 0 .. 17
  OBVIOUS
<1>3. EncodesInto(r, EXPERIMENTAL_MAJOR, o, m, capacity, MemorySize)
  BY <1>1, Bounds, EncodeAtMajorWrites
<1>4. n <= 17 /\ n \in Nat
  BY RequiredType
<1>5. n <= capacity => /\ r.status = z.status
                       /\ r.status = "OK" => \A k \in 1 .. n : r.memory[k] = z.memory[k]
  <2> SUFFICES ASSUME n <= capacity
               PROVE  /\ r.status = z.status
                      /\ r.status = "OK" => \A k \in 1 .. n : r.memory[k] = z.memory[k]
    OBVIOUS
  <2>1. SameEncoding(EXPERIMENTAL_MAJOR, o, m, capacity, zeros, 17)
    BY EncodeIsLocal
  <2>2. ~(capacity < n) /\ ~(17 < n) /\ 1 .. n \subseteq DOMAIN m /\ 1 .. n \subseteq DOMAIN zeros
    BY SMTT(30), <1>4, Bounds
  <2> QED
    BY <2>1, <2>2 DEF SameEncoding
<1>6. Fitting(o) <=> z.status = "OK"
  BY DEF Fitting
<1>7. Fitting(o) => /\ Len(Fixed(o)) = n
                    /\ \A k \in 1 .. n : Fixed(o)[k] = z.memory[k]
  BY FixedType
<1>8. r.status = "OK" => r.written = n /\ n <= capacity
  BY <1>3 DEF EncodesInto
<1> HIDE DEF r, z, n, zeros
<1>9. ASSUME r.status = "OK"
      PROVE  /\ Fitting(o)
             /\ r.written = Len(Fixed(o)) /\ Len(Fixed(o)) <= capacity
             /\ Holds(Fixed(o), 0, r.memory)
  <2>1. Fitting(o) /\ Len(Fixed(o)) = n
    BY <1>5, <1>6, <1>7, <1>8, <1>9
  <2>2. \A k \in 1 .. n : 0 + k = k /\ r.memory[k] = Fixed(o)[k]
    BY <1>4, <1>5, <1>7, <1>8, <1>9, <2>1
  <2> QED
    BY <1>8, <1>9, <2>1, <2>2 DEF Holds
<1>10. ASSUME r.status # "OK", Fitting(o) PROVE capacity < Len(Fixed(o))
  BY <1>4, <1>5, <1>6, <1>7, <1>10
<1> QED
  BY <1>9, <1>10 DEF r

-----------------------------------------------------------------------------
\* Octets in memory, side by side, kept and read back.
LEMMA HoldsBoth ==
    ASSUME NEW S, NEW p \in Seq(S), NEW q \in Seq(S), NEW at \in Nat, NEW m,
           Holds(p, at, m), Holds(q, at + Len(p), m)
    PROVE  Holds(p \o q, at, m)
<1>1. Len(p) \in Nat /\ Len(q) \in Nat /\ Len(p \o q) = Len(p) + Len(q)
  BY ConcatType
<1> SUFFICES ASSUME NEW k \in 1 .. Len(p \o q) PROVE m[at + k] = (p \o q)[k]
  BY DEF Holds
<1>2. (p \o q)[k] = IF k <= Len(p) THEN p[k] ELSE q[k - Len(p)]
  BY <1>1, ConcatProperties
<1>3. CASE k <= Len(p)
  BY <1>2, <1>3 DEF Holds
<1>4. CASE ~(k <= Len(p))
  <2>1. k - Len(p) \in 1 .. Len(q) /\ (at + Len(p)) + (k - Len(p)) = at + k
    BY <1>1, <1>4
  <2>2. m[(at + Len(p)) + (k - Len(p))] = q[k - Len(p)]
    BY <2>1 DEF Holds
  <2> QED
    BY <1>2, <1>4, <2>1, <2>2
<1> QED
  BY <1>3, <1>4

LEMMA HoldsKept ==
    ASSUME NEW p, NEW at, NEW m, NEW other, Holds(p, at, m),
           \A k \in 1 .. Len(p) : other[at + k] = m[at + k]
    PROVE  Holds(p, at, other)
  BY DEF Holds

LEMMA HoldsIsSubSeq ==
    ASSUME NEW S, NEW c \in Seq(S), NEW n \in Nat, NEW m \in [1 .. n -> S],
           Len(c) <= n, Holds(c, 0, m)
    PROVE  SubSeq(m, 1, Len(c)) = c
<1> DEFINE t == SubSeq(m, 1, Len(c))
           l == Len(c)
<1>1. l \in Nat /\ m \in Seq(S) /\ Len(m) = n
  BY FunctionIsSequence
<1>2. \A k \in 1 .. l : m[k] = c[k] /\ m[k] \in S
  <2> SUFFICES ASSUME NEW k \in 1 .. l PROVE m[k] = c[k] /\ m[k] \in S
    OBVIOUS
  <2>1. 0 + k = k /\ k \in 1 .. n
    BY <1>1
  <2>2. m[0 + k] = c[k]
    BY DEF Holds
  <2> QED
    BY <2>1, <2>2
<1>3. t = [k \in 1 .. l |-> m[k]]
  BY <1>1
<1> HIDE DEF t
<1>4. t \in [1 .. l -> S]
  BY <1>2, <1>3
<1> HIDE DEF l
<1>5. t \in Seq(S) /\ Len(t) = l
  BY <1>1, <1>4, FunctionIsSequence
<1>6. \A k \in 1 .. l : t[k] = c[k]
  BY <1>2, <1>3
<1> USE DEF l
<1>7. t = c
  BY <1>5, <1>6, SeqEqual
<1> QED
  BY <1>7 DEF t

\* A copy into memory, and the memory around it.
LEMMA PutWrites ==
    ASSUME memory \in [1 .. MemorySize -> 0 .. 255],
           NEW octets \in Seq(Byte), NEW at \in Nat, at + Len(octets) <= MemorySize
    PROVE  /\ Put(at, octets) \in [1 .. MemorySize -> 0 .. 255]
           /\ Holds(octets, at, Put(at, octets))
           /\ \A k \in 1 .. MemorySize :
                 (k <= at \/ k > at + Len(octets)) => Put(at, octets)[k] = memory[k]
<1> DEFINE p == Put(at, octets)
           l == Len(octets)
<1>1. l \in Nat /\ MemorySize \in Nat /\ at + l <= MemorySize
  BY Bounds
<1>2. \A k \in 1 .. l : octets[k] \in Byte
  OBVIOUS
<1>3. p = [k \in 1 .. MemorySize |-> IF k \in at + 1 .. at + l THEN octets[k - at] ELSE memory[k]]
  BY DEF Put
<1> HIDE DEF p, l
<1>4. \A k \in 1 .. MemorySize : k \in at + 1 .. at + l => k - at \in 1 .. l
  BY <1>1
<1>5. ASSUME NEW k \in 1 .. MemorySize
      PROVE  (IF k \in at + 1 .. at + l THEN octets[k - at] ELSE memory[k]) \in Byte
  <2>1. memory[k] \in Byte
    BY DEF Byte
  <2> QED
    BY <1>2, <1>4, <2>1
<1>6. p \in [1 .. MemorySize -> Byte]
  BY <1>3, <1>5
<1>7. ASSUME NEW k \in 1 .. l PROVE p[at + k] = octets[k]
  <2>1. at + k \in 1 .. MemorySize /\ at + k \in at + 1 .. at + l /\ (at + k) - at = k
    BY <1>1
  <2> QED
    BY <1>3, <2>1
<1>8. Holds(octets, at, p)
  BY <1>7 DEF Holds, l
<1>9. ASSUME NEW k \in 1 .. MemorySize, k <= at \/ k > at + l PROVE p[k] = memory[k]
  <2>1. k \notin at + 1 .. at + l
    BY <1>1, <1>9
  <2> QED
    BY <1>3, <2>1
<1> QED
  BY <1>6, <1>8, <1>9 DEF p, l, Byte

LEMMA PutNothing ==
    ASSUME memory \in [1 .. MemorySize -> 0 .. 255]
    PROVE  Put(0, <<>>) = memory
<1>1. \A k : k \notin 0 + 1 .. 0 + Len(<<>>)
  OBVIOUS
<1> QED
  BY <1>1 DEF Put

\* The octets of an object with extensions: body, length and block in turn.
Flagged(o) == [Fixed(o) EXCEPT ![2] = @ + 1]
Whole(o, list) ==
    Len(Fixed(o)) + Len(UvarintEncode(Len(Elements(list)))) + Len(Elements(list))

LEMMA CanonicalParts ==
    ASSUME NEW o \in Objects, Fitting(o), NEW list \in Seq(Extension), list # <<>>,
           ValidUpTo(list, Len(list)), Len(Elements(list)) <= BlockMax
    PROVE  /\ Canonical(o, list) =
                 Flagged(o) \o UvarintEncode(Len(Elements(list))) \o Elements(list)
           /\ Flagged(o) \in Seq(Byte) /\ Len(Flagged(o)) = Len(Fixed(o))
           /\ \A k \in 1 .. Len(Fixed(o)) :
                 Flagged(o)[k] = IF k = 2 THEN Fixed(o)[k] + 1 ELSE Fixed(o)[k]
           /\ UvarintEncode(Len(Elements(list))) \in Seq(Byte)
           /\ Elements(list) \in Seq(Byte)
           /\ Canonical(o, list) \in Seq(Byte)
           /\ Len(Canonical(o, list)) = Whole(o, list)
           /\ Whole(o, list) <= 17 + 2 + BlockMax
<1> DEFINE f == Fixed(o)
           g == Flagged(o)
           e == Elements(list)
           u == UvarintEncode(Len(e))
<1>1. f \in Seq(Byte) /\ Len(f) \in 10 .. 17 /\ (f[2] % 2) = 0
  BY FixedType
<1>2. e \in Seq(Byte) /\ Len(e) <= BlockMax /\ BlockMax \in Nat
  <2>1. Prefix(list, Len(list)) \in Seq(Byte)
    BY PrefixSteps
  <2> QED
    BY <2>1, ElementsArePrefix, Bounds
<1>3. u \in Seq(Byte) /\ Len(u) \in {1, 2}
  <2>1. Len(e) \in 0 .. BlockMax
    BY <1>2
  <2> QED
    BY <2>1, LengthTakesTwo
<1>4. Canonical(o, list) = g \o u \o e
  BY DEF Canonical, Fixed, Flagged
<1>5. g = [f EXCEPT ![2] = @ + 1]
  BY DEF Flagged
<1> HIDE DEF f, e, u, g
<1>6. 2 \in 1 .. Len(f) /\ f[2] + 1 \in Byte
  <2>1. 2 \in 1 .. Len(f)
    BY <1>1
  <2>2. f[2] \in Byte
    BY <1>1, <2>1
  <2>3. f[2] \in 0 .. 255 /\ f[2] # 255
    BY <1>1, <2>2 DEF Byte
  <2>4. f[2] + 1 \in 0 .. 255
    <3> DEFINE x == f[2]
    <3>1. x \in 0 .. 255 /\ x # 255
      BY <2>3
    <3> HIDE DEF x
    <3>2. x + 1 \in 0 .. 255
      BY <3>1
    <3> QED
      BY <3>2 DEF x
  <2> QED
    BY <2>1, <2>4 DEF Byte
<1>7. g \in Seq(Byte) /\ Len(g) = Len(f)
  BY <1>1, <1>5, <1>6
<1>8. \A k \in 1 .. Len(f) : g[k] = IF k = 2 THEN f[k] + 1 ELSE f[k]
  BY <1>1, <1>5, <1>6
<1>9. g \o u \in Seq(Byte) /\ Len(g \o u) = Len(g) + Len(u)
  BY <1>3, <1>7, ConcatType
<1>10. (g \o u) \o e \in Seq(Byte) /\ Len((g \o u) \o e) = Len(g \o u) + Len(e)
  BY <1>2, <1>9, ConcatType
<1>11. Len(f) + Len(u) + Len(e) <= 17 + 2 + BlockMax
  <2> DEFINE x == Len(f)
             y == Len(u)
             z == Len(e)
  <2>1. x \in 10 .. 17 /\ y \in 1 .. 2 /\ z \in Nat /\ z <= BlockMax /\ BlockMax \in Nat
    BY <1>1, <1>2, <1>3
  <2> HIDE DEF x, y, z
  <2>2. x + y + z <= 17 + 2 + BlockMax
    BY <2>1
  <2> QED
    BY <2>2 DEF x, y, z
<1>12. Whole(o, list) = Len(f) + Len(u) + Len(e)
  BY DEF Whole, f, u, e
<1> QED
  BY <1>2, <1>3, <1>4, <1>7, <1>8, <1>9, <1>10, <1>11, <1>12 DEF f, g, u, e

-----------------------------------------------------------------------------
(***************************************************************************)
(* The invariant.  Shapes and Outcome hold all along; then what is known   *)
(* at each place of the call: how far a pass has come is the octets of the *)
(* extensions it has been over, and what was written before stands in the  *)
(* memory as it was written.                                               *)
(***************************************************************************)
Shapes ==
    /\ pc \in {"start", "size", "body", "length", "write", "finish", "done"}
    /\ memory \in [1 .. MemorySize -> 0 .. 255]
    /\ block \in 0 .. BlockMax
    /\ body \in Nat /\ start \in Nat /\ offset \in Nat
    /\ start + offset <= MemorySize
    /\ i \in 1 .. Len(request.list) + 1

Outcome ==
    /\ status \in {"OK", "UNSUPPORTED_SEMANTIC", "BUFFER_TOO_SMALL", "RANGE", "NONCANONICAL"}
    /\ pc # "done" => status = "OK" /\ written = 0
    /\ status # "OK" => written = 0

Called ==
    /\ request.list \in Seq(Extension)
    /\ pc # "start" => /\ request.entry \in Entry /\ request.object \in Objects
                       /\ request.capacity \in 0 .. MemorySize

\* Every extension before i was sized, at the sum of their octets.
AtSize ==
    pc = "size" =>
        /\ request.entry \in {"tier0_encode_ext", "extensions_encoded_size"}
        /\ request.entry = "tier0_encode_ext" => request.list # <<>>
        /\ body = 0 /\ start = 0 /\ offset = 0
        /\ ValidUpTo(request.list, i - 1) /\ block = Len(Prefix(request.list, i - 1))

Sized ==
    /\ request.entry = "tier0_encode_ext" /\ request.list # <<>>
    /\ ValidUpTo(request.list, Len(request.list))
    /\ block = Len(Elements(request.list))

BodyThere ==
    /\ Fitting(request.object)
    /\ body = Len(Fixed(request.object)) /\ body <= request.capacity
    /\ Holds(Fixed(request.object), 0, memory)

LengthThere ==
    /\ start = body + Len(UvarintEncode(block))
    /\ Holds(UvarintEncode(block), body, memory)

AtBody   == pc = "body" => Sized /\ i = 1 /\ body = 0 /\ start = 0 /\ offset = 0
AtLength == pc = "length" => Sized /\ BodyThere /\ i = 1 /\ start = 0 /\ offset = 0

\* Every extension before i stands in the memory.
AtWrite ==
    pc \in {"write", "finish"} =>
        /\ ValidUpTo(request.list, i - 1) /\ offset = Len(Prefix(request.list, i - 1))
        /\ start + offset <= request.capacity
        /\ Holds(Prefix(request.list, i - 1), start, memory)
        /\ \/ request.entry = "extensions_encode" /\ start = 0 /\ body = 0 /\ pc = "write"
           \/ Sized /\ BodyThere /\ LengthThere
        /\ pc = "finish" => i = Len(request.list) + 1

\* What a call may answer to a request: SuccessIsCanonical and RoomForEveryObject
\* as operators on what they are about.
Allowed(list) == Encodable(list) /\ Len(Elements(list)) <= BlockMax

RoomAnswer(o, list, capacity, code) ==
    /\ (Allowed(list) /\ Fitting(o)) =>
          /\ code = "OK" <=> capacity >= Len(Canonical(o, list))
          /\ Len(Canonical(o, list)) <= 17 + 2 + BlockMax
    /\ ~Allowed(list) => code \notin {"OK", "BUFFER_TOO_SMALL"}
    /\ ~Fitting(o) => code # "OK"

CanonicalAnswer(asked, m, count) ==
    LET octets == CASE asked.entry = "tier0_encode_ext" -> Canonical(asked.object, asked.list)
                    [] asked.entry = "extensions_encode" -> Elements(asked.list)
                    [] OTHER -> <<>>
    IN  /\ Encodable(asked.list)
        /\ SubSeq(m, 1, Len(octets)) = octets
        /\ count = IF asked.entry = "extensions_encoded_size"
                   THEN Len(Elements(asked.list)) ELSE Len(octets)

\* What the call has come to; a failure behind the body is for want of room and
\* leaves extension_present alone.
AtDone ==
    pc = "done" =>
        /\ status = "OK" => CanonicalAnswer(request, memory, written)
        /\ request.entry = "tier0_encode_ext" =>
              RoomAnswer(request.object, request.list, request.capacity, status)
        /\ (request.entry = "tier0_encode_ext" /\ status # "OK" /\ body > 0) =>
              status = "BUFFER_TOO_SMALL" /\ (memory[2] % 2) = 0

AtStart ==
    pc = "start" => /\ request.list = <<>> /\ block = 0 /\ body = 0 /\ start = 0
                    /\ i = 1 /\ offset = 0 /\ written = 0 /\ request.entry = "none"

IInv ==
    /\ Shapes /\ Outcome /\ Called /\ AtStart /\ AtSize /\ AtBody /\ AtLength /\ AtWrite /\ AtDone

LEMMA AllowedIsValid ==
    ASSUME NEW list \in Seq(Extension), ValidUpTo(list, Len(list)),
           Len(Elements(list)) <= BlockMax
    PROVE  Allowed(list)
  BY EncodableIsValid DEF Allowed

LEMMA RoomAnswered ==
    ASSUME NEW o \in Objects, NEW list \in Seq(Extension), list # <<>>, NEW capacity, NEW code,
           ValidUpTo(list, Len(list)), Len(Elements(list)) <= BlockMax,
           code = "OK" => Fitting(o),
           Fitting(o) => (code = "OK" <=> capacity >= Whole(o, list))
    PROVE  RoomAnswer(o, list, capacity, code)
<1>1. Allowed(list)
  BY AllowedIsValid
<1>2. Fitting(o) => /\ Len(Canonical(o, list)) = Whole(o, list)
                    /\ Whole(o, list) <= 17 + 2 + BlockMax
  BY CanonicalParts
<1> QED
  BY <1>1, <1>2 DEF RoomAnswer

\* The sizing pass refuses no list that may be encoded.
LEMMA RefusedIsNotAllowed ==
    ASSUME NEW list \in Seq(Extension), NEW n \in 1 .. Len(list), ValidUpTo(list, n - 1),
           \/ ~InRange(list[n])
           \/ ~(n # 1 => list[n].id > list[n - 1].id)
           \/ /\ InRange(list[n])
              /\ Len(Prefix(list, n - 1)) + FieldSize(list[n]) + Len(list[n].value) > BlockMax
    PROVE  ~Allowed(list)
<1> SUFFICES ASSUME Encodable(list), Len(Elements(list)) <= BlockMax PROVE FALSE
  BY DEF Allowed
<1>1. ValidUpTo(list, Len(list))
  BY EncodableIsValid
<1>2. InRange(list[n]) /\ (n # 1 => list[n].id > list[n - 1].id)
  BY <1>1 DEF ValidUpTo
<1>3. Len(Prefix(list, n - 1)) + FieldSize(list[n]) + Len(list[n].value) > BlockMax
  BY <1>2
<1>4. n - 1 \in Nat /\ n - 1 <= Len(list) /\ (n - 1) + 1 = n /\ n \in 0 .. Len(list)
  OBVIOUS
<1>5. Len(Prefix(list, n)) = Len(Prefix(list, n - 1)) + FieldSize(list[n]) + Len(list[n].value)
  BY <1>2, <1>4, PrefixSteps
<1>6. Len(Prefix(list, n)) <= Len(Prefix(list, Len(list)))
  BY <1>1, <1>4, PrefixGrows
<1>7. Len(Elements(list)) = Len(Prefix(list, Len(list)))
  BY ElementsArePrefix
<1>8. Len(Prefix(list, n)) \in Nat /\ Len(Prefix(list, Len(list))) \in Nat
  <2>1. ValidUpTo(list, n)
    BY <1>1 DEF ValidUpTo
  <2>2. Prefix(list, n) \in Seq(Byte) /\ Prefix(list, Len(list)) \in Seq(Byte)
    BY <1>1, <1>4, <2>1, PrefixSteps
  <2> QED
    BY <2>2
<1> QED
  BY <1>3, <1>5, <1>6, <1>7, <1>8, Bounds

LEMMA ValidSteps ==
    ASSUME NEW list, NEW n \in Nat, n # 0, ValidUpTo(list, n - 1), InRange(list[n]),
           n # 1 => list[n].id > list[n - 1].id
    PROVE  ValidUpTo(list, n)
  BY DEF ValidUpTo

-----------------------------------------------------------------------------
\* The sizing pass.
LEMMA SizeOneKeeps ==
    ASSUME IInv, SizeOne
    PROVE  IInv'
<1> DEFINE list == request.list
           e == list[i]
           n == i
<1>1. /\ pc = "size" /\ i <= Len(list)
      /\ request' = request /\ memory' = memory /\ body' = body /\ start' = start
      /\ offset' = offset /\ written' = written
  BY DEF SizeOne, List
<1>2. /\ list \in Seq(Extension) /\ n \in 1 .. Len(list) /\ ValidUpTo(list, n - 1)
      /\ block = Len(Prefix(list, n - 1)) /\ block \in 0 .. BlockMax
      /\ body = 0 /\ start = 0 /\ offset = 0 /\ written = 0 /\ status = "OK"
      /\ e \in Extension
  <2>1. /\ list \in Seq(Extension) /\ n \in 1 .. Len(list) + 1 /\ ValidUpTo(list, n - 1)
        /\ block = Len(Prefix(list, n - 1)) /\ block \in 0 .. BlockMax
        /\ body = 0 /\ start = 0 /\ offset = 0 /\ status = "OK"
    BY <1>1 DEF IInv, Called, Shapes, AtSize, Outcome
  <2>2. n \in 1 .. Len(list)
    BY <1>1, <2>1
  <2>3. list[n] \in Extension
    BY <2>1, <2>2
  <2>4. written = 0
    BY <1>1 DEF SizeOne, IInv, Outcome
  <2> QED
    BY <2>1, <2>2, <2>3, <2>4
<1>3. CASE /\ pc' = "done" /\ status' \in {"RANGE", "NONCANONICAL"} /\ block' = block /\ i' = i
           /\ ~Allowed(list)
  <2>1. Shapes'
    BY <1>1, <1>3 DEF IInv, Shapes
  <2>2. Outcome' /\ Called'
    BY <1>1, <1>2, <1>3 DEF IInv, Outcome, Called
  <2>3. RoomAnswer(request.object, request.list, request.capacity, status')
    BY <1>3 DEF RoomAnswer
  <2>4. AtDone'
    BY <1>1, <1>2, <1>3, <2>3 DEF AtDone
  <2> QED
    BY <1>3, <2>1, <2>2, <2>4 DEF IInv, AtStart, AtSize, AtBody, AtLength, AtWrite
<1>4. CASE /\ InRange(e) /\ InOrder /\ ~OutgrowsBlock(e)
           /\ block' = block + FieldSize(e) + Len(e.value)
           /\ i' = i + 1 /\ pc' = pc /\ status' = status
  <2>1. ValidUpTo(list, n)
    BY <1>2, <1>4, ValidSteps DEF InOrder, List
  <2>2. /\ Len(Prefix(list, n)) = block + FieldSize(e) + Len(e.value)
        /\ block + FieldSize(e) + Len(e.value) \in 0 .. BlockMax
    <3>1. FieldSize(e) \in Nat /\ Len(e.value) \in Nat
      BY <1>2, <1>4, ElementType
    <3>2. n - 1 \in Nat /\ n - 1 <= Len(list) /\ (n - 1) + 1 = n
      BY <1>2
    <3>3. Len(Prefix(list, n)) = Len(Prefix(list, n - 1)) + FieldSize(e) + Len(e.value)
      BY <1>2, <1>4, <3>2, PrefixSteps
    <3>4. /\ ~(FieldSize(e) > BlockMax - block)
          /\ ~(Len(e.value) > BlockMax - (block + FieldSize(e)))
      BY <1>4 DEF OutgrowsBlock
    <3>5. block + FieldSize(e) + Len(e.value) \in 0 .. BlockMax
      <4> DEFINE x == FieldSize(e)
                 y == Len(e.value)
      <4>1. /\ x \in Nat /\ y \in Nat /\ ~(x > BlockMax - block) /\ ~(y > BlockMax - (block + x))
            /\ block \in Nat /\ BlockMax \in Nat
        BY <1>2, <3>1, <3>4, Bounds
      <4> HIDE DEF x, y
      <4>2. block + x + y \in 0 .. BlockMax
        BY <4>1
      <4> QED
        BY <4>2 DEF x, y
    <3> QED
      BY <1>2, <3>3, <3>5
  <2>3. Shapes'
    <3>1. i' \in 1 .. Len(list) + 1
      BY <1>2, <1>4
    <3> QED
      BY <1>1, <1>4, <2>2, <3>1 DEF IInv, Shapes
  <2>4. i' - 1 = n
    BY <1>2, <1>4
  <2>5. AtSize'
    BY <1>1, <1>2, <1>4, <2>1, <2>2, <2>4 DEF IInv, AtSize
  <2>6. Outcome' /\ Called'
    BY <1>1, <1>2, <1>4 DEF IInv, Outcome, Called
  <2> QED
    BY <1>1, <1>4, <2>3, <2>5, <2>6 DEF IInv, AtStart, AtBody, AtLength, AtWrite, AtDone
<1>5. ASSUME ~InRange(e) \/ ~InOrder \/ OutgrowsBlock(e)
      PROVE  ~Allowed(list)
  <2>1. CASE ~InRange(e) \/ ~InOrder
    BY <1>2, <2>1, RefusedIsNotAllowed DEF InOrder, List
  <2>2. CASE InRange(e) /\ OutgrowsBlock(e)
    <3>1. FieldSize(e) \in Nat /\ Len(e.value) \in Nat
      BY <1>2, <2>2, ElementType
    <3>2. \/ FieldSize(e) > BlockMax - block
          \/ Len(e.value) > BlockMax - (block + FieldSize(e))
      BY <2>2 DEF OutgrowsBlock
    <3>3. block + FieldSize(e) + Len(e.value) > BlockMax
      BY SMTT(30), <1>2, <3>1, <3>2, Bounds
    <3> QED
      BY <1>2, <2>2, <3>3, RefusedIsNotAllowed
  <2> QED
    BY <1>5, <2>1, <2>2
<1> QED
  BY <1>3, <1>4, <1>5 DEF SizeOne, Return, List

LEMMA SizeDoneKeeps ==
    ASSUME IInv, SizeDone
    PROVE  IInv'
<1> DEFINE list == request.list
<1>1. /\ pc = "size" /\ ~(i <= Len(list))
      /\ request' = request /\ memory' = memory /\ block' = block /\ body' = body
      /\ start' = start /\ offset' = offset /\ status' = status /\ i' = 1
      /\ IF request.entry = "extensions_encoded_size"
         THEN pc' = "done" /\ written' = block
         ELSE pc' = "body" /\ written' = written
  <2>1. i \in Nat /\ Len(list) \in Nat
    BY DEF IInv, Shapes, Called
  <2> QED
    BY <2>1 DEF SizeDone, List
<1>2. /\ list \in Seq(Extension) /\ i = Len(list) + 1 /\ Len(list) \in Nat
      /\ status = "OK" /\ written = 0
      /\ body = 0 /\ start = 0 /\ offset = 0
      /\ request.entry \in {"tier0_encode_ext", "extensions_encoded_size"}
      /\ request.entry = "tier0_encode_ext" => list # <<>>
  <2>1. list \in Seq(Extension) /\ i \in 1 .. Len(list) + 1
    BY DEF IInv, Called, Shapes
  <2>2. i = Len(list) + 1 /\ Len(list) \in Nat
    BY <1>1, <2>1
  <2> QED
    BY <1>1, <2>1, <2>2 DEF IInv, Outcome, AtSize
<1>3. ValidUpTo(list, Len(list)) /\ block = Len(Elements(list)) /\ block \in 0 .. BlockMax
  <2>1. i - 1 = Len(list)
    BY <1>2
  <2>2. ValidUpTo(list, Len(list)) /\ block = Len(Prefix(list, Len(list)))
    BY <1>1, <2>1 DEF IInv, AtSize
  <2> QED
    BY <1>2, <2>2, ElementsArePrefix DEF IInv, Shapes
<1>4. Shapes'
  <2>1. i' \in 1 .. Len(list) + 1
    BY <1>1, <1>2
  <2> QED
    BY <1>1, <2>1 DEF IInv, Shapes
<1>5. Outcome' /\ Called'
  BY <1>1, <1>2 DEF IInv, Outcome, Called
<1>6. AtBody'
  BY <1>1, <1>2, <1>3 DEF AtBody, Sized
<1>7. AtDone'
  <2> SUFFICES ASSUME pc' = "done" PROVE AtDone'
    BY DEF AtDone
  <2>1. request.entry = "extensions_encoded_size" /\ written' = Len(Elements(list))
    BY <1>1, <1>3
  <2>2. Encodable(list)
    BY <1>2, <1>3, EncodableIsValid
  <2>3. SubSeq(memory, 1, Len(<<>>)) = <<>>
    OBVIOUS
  <2>4. CanonicalAnswer(request, memory', written')
    BY <1>1, <2>1, <2>2, <2>3 DEF CanonicalAnswer
  <2> QED
    BY <1>1, <2>1, <2>4 DEF AtDone
<1> QED
  BY <1>1, <1>4, <1>5, <1>6, <1>7 DEF IInv, AtStart, AtSize, AtLength, AtWrite

-----------------------------------------------------------------------------
\* The fixed body.
LEMMA EncodeBodyKeeps ==
    ASSUME IInv, EncodeBody
    PROVE  IInv'
<1> DEFINE list == request.list
           o == request.object
           r == EncodeAtMajor(EXPERIMENTAL_MAJOR, o, memory, request.capacity)
<1>1. /\ pc = "body" /\ memory' = r.memory /\ body' = r.written
      /\ request' = request /\ block' = block /\ start' = start /\ i' = i
      /\ offset' = offset /\ written' = written
      /\ IF r.status = "OK" THEN pc' = "length" /\ status' = status
                            ELSE pc' = "done" /\ status' = r.status
  BY DEF EncodeBody, Return, Capacity
<1>2. /\ list \in Seq(Extension) /\ o \in Objects /\ request.capacity \in 0 .. MemorySize
      /\ memory \in [1 .. MemorySize -> 0 .. 255]
      /\ status = "OK" /\ written = 0 /\ Sized
      /\ i = 1 /\ body = 0 /\ start = 0 /\ offset = 0 /\ block \in 0 .. BlockMax
  BY <1>1 DEF IInv, Called, Shapes, Outcome, AtBody
<1>3. /\ r.status = "OK" =>
            /\ Fitting(o)
            /\ r.written = Len(Fixed(o)) /\ Len(Fixed(o)) <= request.capacity
            /\ Holds(Fixed(o), 0, r.memory)
      /\ (r.status # "OK" /\ Fitting(o)) => request.capacity < Len(Fixed(o))
  BY <1>2, BodyWritten
<1>4. EncodesInto(r, EXPERIMENTAL_MAJOR, o, memory, request.capacity, MemorySize)
  BY <1>2, ArgumentTypes, Bounds, EncodeAtMajorWrites
<1> HIDE DEF r
<1>5. /\ r.status \in {"OK", "UNSUPPORTED_SEMANTIC", "BUFFER_TOO_SMALL", "RANGE"}
      /\ r.memory \in [1 .. MemorySize -> 0 .. 255]
      /\ r.status # "OK" => r.written = 0
  BY <1>4 DEF EncodesInto
<1>6. r.written \in Nat
  <2>1. CASE r.status = "OK"
    <3>1. Fixed(o) \in Seq(Byte)
      BY <1>2, <1>3, <2>1, FixedType
    <3> QED
      BY <1>3, <2>1, <3>1
  <2> QED
    BY <1>5, <2>1
<1>7. Shapes'
  BY <1>1, <1>5, <1>6 DEF IInv, Shapes
<1>8. Outcome' /\ Called'
  BY <1>1, <1>2, <1>5 DEF IInv, Outcome, Called
<1>9. AtLength'
  BY <1>1, <1>2, <1>3 DEF AtLength, Sized, BodyThere
<1>10. AtDone'
  <2> SUFFICES ASSUME r.status # "OK" PROVE AtDone'
    BY <1>1 DEF AtDone
  <2>1. Fitting(o) => ~(request.capacity >= Whole(o, list))
    <3> SUFFICES ASSUME Fitting(o) PROVE ~(request.capacity >= Whole(o, list))
      OBVIOUS
    <3> DEFINE x == Len(Fixed(o))
               y == Len(UvarintEncode(block))
    <3>1. x \in Nat /\ request.capacity < x /\ request.capacity \in Nat
      <4>1. Fixed(o) \in Seq(Byte)
        BY <1>2, FixedType
      <4> QED
        BY <1>2, <1>3, <4>1, Bounds
    <3>2. y \in Nat /\ block \in Nat
      BY <1>2, LengthTakesTwo
    <3>3. Whole(o, list) = x + y + block
      BY <1>2 DEF Whole, Sized
    <3> HIDE DEF x, y
    <3> QED
      BY <3>1, <3>2, <3>3
  <2>2. RoomAnswer(o, list, request.capacity, r.status)
    <3>1. Len(Elements(list)) <= BlockMax /\ ValidUpTo(list, Len(list)) /\ list # <<>>
      BY <1>2, Bounds DEF Sized
    <3> QED
      BY <1>2, <2>1, <3>1, RoomAnswered
  <2>3. r.written = 0
    BY <1>5
  <2> QED
    BY <1>1, <2>2, <2>3 DEF AtDone
<1> QED
  BY <1>1, <1>7, <1>8, <1>9, <1>10 DEF IInv, AtStart, AtSize, AtBody, AtWrite

\* While the body stands as it was encoded, extension_present is not set.
LEMMA BodyUnflagged ==
    ASSUME BodyThere, request.object \in Objects
    PROVE  body \in 10 .. 17 /\ (memory[2] % 2) = 0
<1> DEFINE f == Fixed(request.object)
<1>1. Len(f) \in 10 .. 17 /\ (f[2] % 2) = 0 /\ body = Len(f)
  BY FixedType DEF BodyThere
<1>2. 2 \in 1 .. Len(f) /\ 0 + 2 = 2
  BY <1>1
<1>3. memory[0 + 2] = f[2]
  BY <1>2 DEF BodyThere, Holds
<1> QED
  BY <1>1, <1>2, <1>3

\* The length of the block.
LEMMA EncodeLengthKeeps ==
    ASSUME IInv, EncodeLength
    PROVE  IInv'
<1> DEFINE list == request.list
           o == request.object
           u == UvarintEncode(block)
<1>1. /\ pc = "length"
      /\ request' = request /\ block' = block /\ body' = body /\ i' = i
      /\ offset' = offset /\ written' = written
      /\ IF request.capacity - body < Len(u)
         THEN /\ pc' = "done" /\ status' = "BUFFER_TOO_SMALL" /\ memory' = memory /\ start' = start
         ELSE /\ memory' = Put(body, u) /\ start' = body + Len(u)
              /\ pc' = "write" /\ status' = status
  BY DEF EncodeLength, Return, Capacity
<1>2. /\ list \in Seq(Extension) /\ o \in Objects /\ request.capacity \in 0 .. MemorySize
      /\ memory \in [1 .. MemorySize -> 0 .. 255]
      /\ status = "OK" /\ written = 0 /\ Sized /\ BodyThere
      /\ i = 1 /\ start = 0 /\ offset = 0 /\ block \in 0 .. BlockMax
  BY <1>1 DEF IInv, Called, Shapes, Outcome, AtLength
<1>3. body \in 10 .. 17 /\ (memory[2] % 2) = 0
  BY <1>2, BodyUnflagged
<1>4. u \in Seq(Byte) /\ Len(u) \in 1 .. 2
  BY <1>2, LengthTakesTwo
<1>5. /\ request.capacity \in Nat /\ request.capacity <= MemorySize /\ MemorySize \in Nat
      /\ body \in Nat /\ Len(u) \in Nat /\ block \in Nat
  BY <1>2, <1>3, <1>4, Bounds
<1> HIDE DEF u
<1>6. CASE request.capacity - body < Len(u)
  <2>1. Shapes' /\ Outcome' /\ Called'
    BY <1>1, <1>2, <1>6 DEF IInv, Shapes, Outcome, Called
  <2>2. ~(request.capacity >= Whole(o, list))
    <3>1. Whole(o, list) = body + Len(u) + block
      BY <1>2 DEF Whole, Sized, BodyThere, u
    <3> QED
      BY <1>5, <1>6, <3>1
  <2>3. RoomAnswer(o, list, request.capacity, "BUFFER_TOO_SMALL")
    <3>1. Len(Elements(list)) <= BlockMax /\ ValidUpTo(list, Len(list)) /\ list # <<>>
      BY <1>2, Bounds DEF Sized
    <3> QED
      BY <1>2, <2>2, <3>1, RoomAnswered
  <2>4. AtDone'
    BY <1>1, <1>3, <1>6, <2>3 DEF AtDone
  <2> QED
    BY <1>1, <1>6, <2>1, <2>4 DEF IInv, AtStart, AtSize, AtBody, AtLength, AtWrite
<1>7. CASE ~(request.capacity - body < Len(u))
  <2>1. body + Len(u) <= request.capacity /\ body + Len(u) <= MemorySize
    BY <1>5, <1>7
  <2>2. /\ Put(body, u) \in [1 .. MemorySize -> 0 .. 255]
        /\ Holds(u, body, Put(body, u))
        /\ \A k \in 1 .. MemorySize : k <= body => Put(body, u)[k] = memory[k]
    BY ZenonT(30), <1>2, <1>4, <1>5, <2>1, PutWrites
  <2>3. start' + offset' <= request.capacity /\ start' + offset' <= MemorySize /\ start' \in Nat
    BY <1>1, <1>2, <1>5, <1>7, <2>1
  <2>4. Shapes'
    BY <1>1, <1>2, <1>7, <2>2, <2>3 DEF IInv, Shapes
  <2>5. Outcome' /\ Called'
    BY <1>1, <1>2, <1>7 DEF IInv, Outcome, Called
  <2>6. BodyThere'
    <3> DEFINE f == Fixed(o)
    <3>1. /\ Fitting(o) /\ body = Len(f) /\ body <= request.capacity /\ Holds(f, 0, memory)
      BY <1>2 DEF BodyThere
    <3>2. \A k \in 1 .. Len(f) : Put(body, u)[0 + k] = memory[0 + k]
      <4> SUFFICES ASSUME NEW k \in 1 .. Len(f) PROVE Put(body, u)[0 + k] = memory[0 + k]
        OBVIOUS
      <4>1. 0 + k = k /\ k \in 1 .. MemorySize /\ k <= body
        BY <1>5, <3>1
      <4> QED
        BY <2>2, <4>1
    <3>3. Holds(f, 0, Put(body, u))
      BY <3>1, <3>2, HoldsKept
    <3> QED
      BY <1>1, <1>7, <3>1, <3>3 DEF BodyThere
  <2>7. LengthThere'
    BY <1>1, <1>7, <2>2 DEF LengthThere, u
  <2>8. Sized'
    BY <1>1, <1>2 DEF Sized
  <2>9. /\ ValidUpTo(list, 0) /\ Prefix(list, 0) = <<>>
        /\ Holds(Prefix(list, 0), start', memory')
    <3>1. ValidUpTo(list, 0)
      BY DEF ValidUpTo
    <3>2. Prefix(list, 0) = <<>>
      BY <1>2, <3>1, PrefixSteps
    <3> QED
      BY <3>1, <3>2 DEF Holds
  <2>10. i' - 1 = 0 /\ offset' = Len(<<>>)
    BY <1>1, <1>2
  <2>11. AtWrite'
    BY <1>1, <1>7, <2>3, <2>6, <2>7, <2>8, <2>9, <2>10 DEF AtWrite
  <2> QED
    BY <1>1, <1>7, <2>4, <2>5, <2>11 DEF IInv, AtStart, AtSize, AtBody, AtLength, AtDone
<1> QED
  BY <1>6, <1>7

-----------------------------------------------------------------------------
\* The writing pass.  Octets written behind the block so far disturb nothing.
LEMMA WritingKeeps ==
    ASSUME memory \in [1 .. MemorySize -> 0 .. 255], NEW octets \in Seq(Byte),
           start \in Nat, offset \in Nat, start + offset + Len(octets) <= MemorySize
    PROVE  /\ Put(start + offset, octets) \in [1 .. MemorySize -> 0 .. 255]
           /\ Holds(octets, start + offset, Put(start + offset, octets))
           /\ \A k \in 1 .. start + offset : Put(start + offset, octets)[k] = memory[k]
<1> DEFINE at == start + offset
<1>1. at \in Nat /\ at + Len(octets) <= MemorySize /\ Len(octets) \in Nat /\ MemorySize \in Nat
  BY Bounds
<1> HIDE DEF at
<1>2. /\ Put(at, octets) \in [1 .. MemorySize -> 0 .. 255]
      /\ Holds(octets, at, Put(at, octets))
      /\ \A k \in 1 .. MemorySize : k <= at => Put(at, octets)[k] = memory[k]
  BY ZenonT(30), <1>1, PutWrites
<1>3. \A k \in 1 .. at : k \in 1 .. MemorySize /\ k <= at
  BY <1>1
<1> QED
  BY <1>2, <1>3 DEF at

LEMMA HoldsBefore ==
    ASSUME NEW S, NEW p \in Seq(S), NEW at \in Nat, NEW limit \in Nat, NEW m, NEW other,
           Holds(p, at, m), at + Len(p) <= limit, \A k \in 1 .. limit : other[k] = m[k]
    PROVE  Holds(p, at, other)
<1>1. \A k \in 1 .. Len(p) : at + k \in 1 .. limit
  OBVIOUS
<1>2. \A k \in 1 .. Len(p) : other[at + k] = m[at + k]
  BY <1>1
<1> QED
  BY <1>2, HoldsKept

LEMMA WriteOneKeeps ==
    ASSUME IInv, WriteOne
    PROVE  IInv'
<1> DEFINE list == request.list
           o == request.object
           e == list[i]
           n == i
           capacity == request.capacity
           key == UvarintEncode(KeyOf(e))
           header == key \o UvarintEncode(Len(e.value))
           room == capacity - start - offset
           short == IF room < Len(key) THEN <<>> ELSE IF room < Len(header) THEN key ELSE header
           inBlock == request.entry = "extensions_encode" /\ start = 0 /\ body = 0
           inObject == Sized /\ BodyThere /\ LengthThere
<1>1. /\ pc = "write" /\ n <= Len(list)
      /\ request' = request /\ block' = block /\ body' = body /\ start' = start
      /\ written' = written
  BY DEF WriteOne, List
<1>2. /\ list \in Seq(Extension) /\ n \in 1 .. Len(list) /\ e \in Extension
      /\ o \in Objects /\ capacity \in 0 .. MemorySize /\ capacity \in Nat
      /\ memory \in [1 .. MemorySize -> 0 .. 255]
      /\ status = "OK" /\ written = 0 /\ block \in 0 .. BlockMax
      /\ body \in Nat /\ start \in Nat /\ offset \in Nat
  <2>1. /\ list \in Seq(Extension) /\ n \in 1 .. Len(list) + 1
        /\ o \in Objects /\ capacity \in 0 .. MemorySize
        /\ memory \in [1 .. MemorySize -> 0 .. 255]
        /\ status = "OK" /\ written = 0 /\ block \in 0 .. BlockMax
        /\ body \in Nat /\ start \in Nat /\ offset \in Nat
    BY <1>1 DEF IInv, Called, Shapes, Outcome
  <2>2. n \in 1 .. Len(list)
    BY <1>1, <2>1
  <2>3. list[n] \in Extension /\ capacity \in Nat
    BY <2>1, <2>2, Bounds
  <2> QED
    BY <2>1, <2>2, <2>3
<1>3. /\ ValidUpTo(list, n - 1) /\ offset = Len(Prefix(list, n - 1))
      /\ start + offset <= capacity /\ Holds(Prefix(list, n - 1), start, memory)
      /\ inBlock \/ inObject
  BY <1>1 DEF IInv, AtWrite
<1>4. /\ \/ /\ ~InRange(e) \/ ~InOrder
            /\ pc' = "done" /\ status' \in {"RANGE", "NONCANONICAL"}
            /\ memory' = memory /\ i' = i /\ offset' = offset
         \/ /\ InRange(e) /\ InOrder /\ room < Len(header) + Len(e.value)
            /\ memory' = Put(start + offset, short)
            /\ pc' = "done" /\ status' = "BUFFER_TOO_SMALL" /\ i' = i /\ offset' = offset
         \/ /\ InRange(e) /\ InOrder /\ room >= Len(header) + Len(e.value)
            /\ memory' = Put(start + offset, header \o e.value)
            /\ offset' = offset + Len(header) + Len(e.value)
            /\ i' = i + 1 /\ pc' = pc /\ status' = status
  BY DEF WriteOne, Return, List, Capacity
<1>5. ASSUME InRange(e)
      PROVE  /\ key \in Seq(Byte) /\ header \in Seq(Byte) /\ e.value \in Seq(Byte)
             /\ header \o e.value = ElementOf(e) /\ ElementOf(e) \in Seq(Byte)
             /\ Len(ElementOf(e)) = Len(header) + Len(e.value)
             /\ Len(key) \in Nat /\ Len(header) \in Nat /\ Len(e.value) \in Nat
             /\ Len(ElementOf(e)) = FieldSize(e) + Len(e.value)
  <2>1. KeyOf(e) \in Word /\ Len(e.value) \in Word /\ e.value \in Seq(Byte)
    BY <1>2, <1>5, KeyIsWord, ExtensionType
  <2>2. key \in Seq(Byte) /\ UvarintEncode(Len(e.value)) \in Seq(Byte)
    BY <2>1, WordOctets
  <2>3. header \in Seq(Byte)
    BY <2>2, ConcatType
  <2>4. header \o e.value = ElementOf(e)
    BY DEF ElementOf
  <2>5. Len(header \o e.value) = Len(header) + Len(e.value)
    BY <2>1, <2>3, ConcatType
  <2>6. ElementOf(e) \in Seq(Byte) /\ Len(ElementOf(e)) = FieldSize(e) + Len(e.value)
    BY <1>2, <1>5, ElementType
  <2>7. Len(key) \in Nat /\ Len(header) \in Nat /\ Len(e.value) \in Nat
    BY <2>1, <2>2, <2>3
  <2> QED
    BY <2>1, <2>2, <2>3, <2>4, <2>5, <2>6, <2>7
<1>6. inObject => /\ InRange(e) /\ InOrder /\ 2 \in 1 .. start + offset /\ (memory[2] % 2) = 0
                  /\ Fitting(o) /\ ValidUpTo(list, Len(list)) /\ list # <<>>
                  /\ block = Len(Elements(list)) /\ start = Len(Fixed(o)) + Len(UvarintEncode(block))
                  /\ request.entry = "tier0_encode_ext"
  <2> SUFFICES ASSUME inObject
               PROVE  /\ InRange(e) /\ InOrder /\ 2 \in 1 .. start + offset /\ (memory[2] % 2) = 0
                      /\ Fitting(o) /\ ValidUpTo(list, Len(list)) /\ list # <<>>
                      /\ block = Len(Elements(list))
                      /\ start = Len(Fixed(o)) + Len(UvarintEncode(block))
                      /\ request.entry = "tier0_encode_ext"
    OBVIOUS
  <2>1. body \in 10 .. 17 /\ (memory[2] % 2) = 0
    BY <1>2, BodyUnflagged
  <2>2. Len(UvarintEncode(block)) \in {1, 2} /\ start = body + Len(UvarintEncode(block))
    BY <1>2, LengthTakesTwo DEF LengthThere
  <2>3. 2 \in 1 .. start + offset
    BY <1>2, <2>1, <2>2
  <2>4. ValidUpTo(list, Len(list)) /\ list # <<>> /\ block = Len(Elements(list))
    BY DEF Sized
  <2>5. InRange(e) /\ InOrder
    BY <1>2, <2>4 DEF ValidUpTo, InOrder, List
  <2> QED
    BY <2>1, <2>2, <2>3, <2>4, <2>5 DEF BodyThere, Sized
<1> HIDE DEF key, header, short, room
<1>7. CASE /\ ~InRange(e) \/ ~InOrder
           /\ pc' = "done" /\ status' \in {"RANGE", "NONCANONICAL"}
           /\ memory' = memory /\ i' = i /\ offset' = offset
  <2>1. request.entry = "extensions_encode"
    BY <1>3, <1>6, <1>7
  <2>2. Shapes' /\ Outcome' /\ Called'
    BY <1>1, <1>2, <1>7 DEF IInv, Shapes, Outcome, Called
  <2>3. AtDone'
    BY <1>1, <1>7, <2>1 DEF AtDone
  <2> QED
    BY <1>7, <2>2, <2>3 DEF IInv, AtStart, AtSize, AtBody, AtLength, AtWrite
<1>8. CASE /\ InRange(e) /\ InOrder /\ room < Len(header) + Len(e.value)
           /\ memory' = Put(start + offset, short)
           /\ pc' = "done" /\ status' = "BUFFER_TOO_SMALL" /\ i' = i /\ offset' = offset
  <2>1. short \in Seq(Byte) /\ Len(short) <= room
    <3>1. room \in Nat
      BY <1>2, <1>3 DEF room
    <3>2. CASE room < Len(key)
      BY <3>1, <3>2 DEF short
    <3>3. CASE ~(room < Len(key)) /\ room < Len(header)
      BY <1>5, <1>8, <3>1, <3>3 DEF short
    <3>4. CASE ~(room < Len(key)) /\ ~(room < Len(header))
      BY <1>5, <1>8, <3>1, <3>4 DEF short
    <3> QED
      BY <3>2, <3>3, <3>4
  <2>2. start + offset + Len(short) <= MemorySize
    <3>1. Len(short) \in Nat /\ MemorySize \in Nat /\ capacity <= MemorySize
      BY <1>2, <2>1, Bounds
    <3> QED
      BY <1>2, <2>1, <3>1 DEF room
  <2>3. /\ Put(start + offset, short) \in [1 .. MemorySize -> 0 .. 255]
        /\ \A k \in 1 .. start + offset : Put(start + offset, short)[k] = memory[k]
    BY <1>2, <2>1, <2>2, WritingKeeps
  <2>4. Shapes' /\ Outcome' /\ Called'
    BY <1>1, <1>2, <1>8, <2>3 DEF IInv, Shapes, Outcome, Called
  <2>5. ASSUME inObject PROVE ~(capacity >= Whole(o, list))
    <3> DEFINE l == Len(Prefix(list, n))
               el == Len(ElementOf(e))
               w == Len(Elements(list))
    <3>1. n - 1 \in Nat /\ n - 1 <= Len(list) /\ (n - 1) + 1 = n /\ n \in 0 .. Len(list)
      BY <1>2
    <3>2. l = offset + el
      <4>1. Len(Prefix(list, n)) = Len(Prefix(list, n - 1)) + FieldSize(e) + Len(e.value)
        <5> DEFINE m == n - 1
        <5>1. m \in Nat /\ m <= Len(list) /\ m + 1 = n /\ m + 1 <= Len(list)
          BY <1>2, <3>1
        <5>2. ValidUpTo(list, m) /\ InRange(list[m + 1]) /\ list \in Seq(Extension)
          BY <1>2, <1>3, <1>8, <5>1
        <5> HIDE DEF m, list
        <5>3. Len(Prefix(list, m + 1)) = Len(Prefix(list, m)) + FieldSize(list[m + 1])
                                            + Len(list[m + 1].value)
          BY <5>1, <5>2, PrefixSteps
        <5> QED
          BY <5>1, <5>3 DEF m
      <4>2. FieldSize(e) \in Nat /\ Len(e.value) \in Nat
        BY <1>2, <1>8, ElementType
      <4>3. Len(ElementOf(e)) = FieldSize(e) + Len(e.value)
        BY <1>5, <1>8
      <4> DEFINE x == FieldSize(e)
                 y == Len(e.value)
      <4>4. l = offset + x + y /\ x \in Nat /\ y \in Nat /\ el = x + y
        BY <1>3, <4>1, <4>2, <4>3
      <4> HIDE DEF x, y, l, el
      <4> QED
        BY <1>2, <4>4
    <3>3. l <= w
      BY <1>2, <1>6, <2>5, <3>1, PrefixGrows, ElementsArePrefix
    <3>4. capacity - start - offset < el
      BY <1>5, <1>8 DEF room
    <3>5. Whole(o, list) = start + w
      <4>1. Whole(o, list) = Len(Fixed(o)) + Len(UvarintEncode(block)) + block
        BY <1>6, <2>5 DEF Whole
      <4> QED
        BY <1>6, <2>5, <4>1
    <3>6. el \in Nat /\ w \in Nat
      BY <1>2, <1>5, <1>6, <1>8, <2>5, Bounds
    <3> HIDE DEF l, el, w
    <3> QED
      BY <1>2, <3>2, <3>3, <3>4, <3>5, <3>6
  <2>6. inObject => RoomAnswer(o, list, capacity, "BUFFER_TOO_SMALL")
    <3>1. Len(Elements(list)) <= BlockMax \/ ~inObject
      BY <1>2, <1>6, Bounds
    <3> QED
      BY <1>2, <1>6, <2>5, <3>1, RoomAnswered
  <2>7. inObject => (memory'[2] % 2) = 0
    BY <1>6, <1>8, <2>3
  <2>8. AtDone'
    BY <1>1, <1>3, <1>8, <2>6, <2>7 DEF AtDone
  <2> QED
    BY <1>8, <2>4, <2>8 DEF IInv, AtStart, AtSize, AtBody, AtLength, AtWrite
<1>9. CASE /\ InRange(e) /\ InOrder /\ room >= Len(header) + Len(e.value)
           /\ memory' = Put(start + offset, header \o e.value)
           /\ offset' = offset + Len(header) + Len(e.value)
           /\ i' = i + 1 /\ pc' = pc /\ status' = status
  <2> DEFINE el == ElementOf(e)
             at == start + offset
  <2>1. /\ memory' = Put(start + offset, el) /\ el \in Seq(Byte)
        /\ offset' = offset + Len(el) /\ Len(el) \in Nat /\ offset' \in Nat
        /\ start + offset' <= capacity /\ start + offset' <= MemorySize
        /\ start + offset + Len(el) <= MemorySize
    <3> DEFINE x == Len(header)
               y == Len(e.value)
    <3>1. /\ header \o e.value = el /\ el \in Seq(Byte) /\ Len(el) = x + y
          /\ x \in Nat /\ y \in Nat
      BY <1>5, <1>9
    <3>2. capacity - start - offset >= x + y
      BY <1>9 DEF room
    <3>3. offset' = offset + x + y
      BY <1>9
    <3>4. capacity <= MemorySize /\ MemorySize \in Nat
      BY <1>2, Bounds
    <3>5. memory' = Put(start + offset, el)
      BY <1>9, <3>1
    <3> DEFINE z == Len(el)
    <3> HIDE DEF x, y, el
    <3>6. z \in Nat /\ z = x + y /\ offset' = offset + z
      BY <1>2, <3>1, <3>3
    <3> HIDE DEF z
    <3>7. capacity - start - offset >= z
      BY <3>2, <3>6
    <3>8. /\ offset' \in Nat /\ start + offset' <= capacity /\ start + offset' <= MemorySize
          /\ start + offset + z <= MemorySize
      <4>1. capacity \in Nat /\ start \in Nat /\ offset \in Nat /\ MemorySize \in Nat
        BY <1>2, <3>4
      <4> HIDE DEF capacity
      <4>2. start + (offset + z) <= capacity
        BY <3>6, <3>7, <4>1
      <4>3. start + (offset + z) <= MemorySize
        BY <3>4, <3>6, <4>1, <4>2
      <4>4. offset + z \in Nat /\ start + offset + z = start + (offset + z)
        BY <3>6, <4>1
      <4> QED
        BY <3>6, <4>2, <4>3, <4>4
    <3> QED
      BY <3>1, <3>5, <3>6, <3>8 DEF z
  <2>2. /\ memory' \in [1 .. MemorySize -> 0 .. 255]
        /\ Holds(el, at, memory')
        /\ \A k \in 1 .. at : memory'[k] = memory[k]
    BY ZenonT(30), <1>2, <2>1, WritingKeeps
  <2>3. at \in Nat
    BY <1>2
  <2>4. Shapes'
    <3>1. i' \in 1 .. Len(list) + 1
      BY <1>2, <1>9
    <3> QED
      BY ZenonT(30), <1>1, <1>2, <1>9, <2>1, <2>2, <3>1 DEF IInv, Shapes
  <2>5. Outcome' /\ Called'
    BY <1>1, <1>2, <1>9 DEF IInv, Outcome, Called
  <2>6. ValidUpTo(list, n)
    BY <1>2, <1>3, <1>9, ValidSteps DEF InOrder, List
  <2>7. /\ Prefix(list, n) = Prefix(list, n - 1) \o el
        /\ Prefix(list, n - 1) \in Seq(Byte)
        /\ Len(Prefix(list, n)) = offset'
    <3>1. n - 1 \in Nat /\ n - 1 <= Len(list) /\ (n - 1) + 1 = n
      BY <1>2
    <3>2. Prefix(list, n) = Prefix(list, n - 1) \o el /\ Prefix(list, n - 1) \in Seq(Byte)
      <4>1. Prefix(list, n - 1) \in Seq(Byte)
        BY <1>2, <1>3, <3>1, PrefixSteps
      <4>2. Prefix(list, n) = Prefix(list, n - 1) \o el
        BY <1>2, <1>3, <1>9, PrefixNext
      <4> QED
        BY <4>1, <4>2
    <3>3. Len(Prefix(list, n)) = Len(Prefix(list, n - 1)) + Len(el)
      BY <2>1, <3>2, ConcatType
    <3> QED
      BY <1>3, <2>1, <3>2, <3>3
  <2> HIDE DEF el
  <2>8. Holds(Prefix(list, n), start, memory')
    <3>1. start + Len(Prefix(list, n - 1)) <= at
      BY <1>2, <1>3
    <3>2. Holds(Prefix(list, n - 1), start, memory')
      BY <1>2, <1>3, <2>2, <2>3, <2>7, <3>1, HoldsBefore
    <3>3. Holds(el, start + Len(Prefix(list, n - 1)), memory')
      BY <1>3, <2>2
    <3> QED
      BY <1>2, <2>1, <2>7, <3>2, <3>3, HoldsBoth
  <2>9. ASSUME inObject PROVE Sized' /\ BodyThere' /\ LengthThere'
    <3> DEFINE f == Fixed(o)
               u == UvarintEncode(block)
    <3>1. f \in Seq(Byte) /\ Len(f) \in Nat
      <4>1. Fitting(o)
        BY <2>9 DEF BodyThere
      <4>2. f \in Seq(Byte)
        BY <1>2, <4>1, FixedType
      <4> QED
        BY <4>2
    <3>2. u \in Seq(Byte) /\ Len(u) \in Nat
      BY <1>2, LengthTakesTwo
    <3>3. /\ Fitting(o) /\ body = Len(f) /\ body <= capacity /\ Holds(f, 0, memory)
          /\ start = body + Len(u) /\ Holds(u, body, memory)
      BY <2>9 DEF BodyThere, LengthThere
    <3> HIDE DEF f, u
    <3>4. 0 + Len(f) <= at /\ body + Len(u) <= at
      BY <1>2, <3>1, <3>2, <3>3
    <3>5. Holds(f, 0, memory')
      BY <2>2, <2>3, <3>1, <3>3, <3>4, HoldsBefore
    <3>6. Holds(u, body, memory')
      BY <1>2, <2>2, <2>3, <3>2, <3>3, <3>4, HoldsBefore
    <3>7. BodyThere'
      BY <1>1, <3>3, <3>5 DEF BodyThere, f
    <3>8. LengthThere'
      BY <1>1, <3>3, <3>6 DEF LengthThere, u
    <3>9. Sized'
      BY <1>1, <2>9 DEF Sized
    <3> QED
      BY <3>7, <3>8, <3>9
  <2>10. i' - 1 = n
    BY <1>2, <1>9
  <2>11. AtWrite'
    BY <1>1, <1>3, <1>9, <2>1, <2>6, <2>7, <2>8, <2>9, <2>10 DEF AtWrite
  <2> QED
    BY <1>1, <1>9, <2>4, <2>5, <2>11 DEF IInv, AtStart, AtSize, AtBody, AtLength, AtDone
<1> QED
  BY <1>4, <1>7, <1>8, <1>9

LEMMA WriteDoneKeeps ==
    ASSUME IInv, WriteDone
    PROVE  IInv'
<1> DEFINE list == request.list
<1>1. /\ pc = "write" /\ ~(i <= Len(list))
      /\ request' = request /\ memory' = memory /\ block' = block /\ body' = body
      /\ start' = start /\ i' = i /\ offset' = offset /\ status' = status
      /\ IF request.entry = "extensions_encode"
         THEN pc' = "done" /\ written' = offset
         ELSE pc' = "finish" /\ written' = written
  <2>1. i \in Nat /\ Len(list) \in Nat
    BY DEF IInv, Shapes, Called
  <2> QED
    BY <2>1 DEF WriteDone, List
<1>2. /\ list \in Seq(Extension) /\ i = Len(list) + 1 /\ i - 1 = Len(list)
      /\ memory \in [1 .. MemorySize -> 0 .. 255] /\ status = "OK" /\ written = 0
  <2>1. list \in Seq(Extension) /\ i \in 1 .. Len(list) + 1 /\ Len(list) \in Nat
    BY DEF IInv, Called, Shapes
  <2>2. i = Len(list) + 1 /\ i - 1 = Len(list)
    BY <1>1, <2>1
  <2> QED
    BY <1>1, <2>1, <2>2 DEF IInv, Shapes, Outcome
<1>3. Shapes' /\ Outcome' /\ Called'
  <2>1. Shapes'
    BY <1>1 DEF IInv, Shapes
  <2>2. Outcome'
    BY <1>1, <1>2 DEF IInv, Outcome
  <2>3. Called'
    BY <1>1 DEF IInv, Called
  <2> QED
    BY <2>1, <2>2, <2>3
<1>4. AtWrite'
  BY <1>1, <1>2 DEF IInv, AtWrite, Sized, BodyThere, LengthThere
<1>5. AtDone'
  <2> SUFFICES ASSUME request.entry = "extensions_encode" PROVE AtDone'
    BY <1>1 DEF AtDone
  <2> DEFINE c == Elements(list)
  <2>1. /\ ValidUpTo(list, Len(list)) /\ c = Prefix(list, Len(list)) /\ offset = Len(c)
        /\ start = 0 /\ Holds(c, 0, memory) /\ offset <= MemorySize
    <3>1. /\ ValidUpTo(list, Len(list)) /\ offset = Len(Prefix(list, Len(list)))
          /\ start = 0 /\ Holds(Prefix(list, Len(list)), start, memory)
      BY <1>1, <1>2 DEF IInv, AtWrite, Sized
    <3>2. 0 + offset <= MemorySize /\ offset \in Nat
      BY <3>1 DEF IInv, Shapes
    <3>3. offset <= MemorySize
      BY <3>2
    <3> QED
      BY <1>2, <3>1, <3>3, ElementsArePrefix
  <2>2. c \in Seq(Byte)
    <3>1. Len(list) \in Nat /\ Len(list) <= Len(list)
      BY <1>2
    <3> QED
      BY <1>2, <2>1, <3>1, PrefixSteps
  <2>3. memory \in [1 .. MemorySize -> Byte]
    BY <1>2 DEF Byte
  <2> HIDE DEF c
  <2>4. SubSeq(memory, 1, Len(c)) = c
    BY <2>1, <2>2, <2>3, Bounds, HoldsIsSubSeq
  <2>5. Encodable(list)
    BY <1>2, <2>1, EncodableIsValid
  <2>6. CanonicalAnswer(request, memory', written')
    BY <1>1, <2>1, <2>4, <2>5 DEF CanonicalAnswer, c
  <2> QED
    BY <1>1, <2>6 DEF AtDone
<1> QED
  BY <1>1, <1>3, <1>4, <1>5 DEF IInv, AtStart, AtSize, AtBody, AtLength

\* The passes agree, and extension_present is set: the object is complete.
LEMMA FinishKeeps ==
    ASSUME IInv, Finish
    PROVE  IInv'
<1> DEFINE list == request.list
           o == request.object
           f == Fixed(o)
           g == Flagged(o)
           c == Elements(list)
           u == UvarintEncode(block)
<1>1. /\ pc = "finish" /\ request' = request /\ block' = block /\ body' = body
      /\ start' = start /\ i' = i /\ offset' = offset
      /\ offset = block =>
            /\ memory' = [memory EXCEPT ![2] = IF @ % 2 = 1 THEN @ ELSE @ + 1]
            /\ written' = start + block /\ pc' = "done" /\ status' = "OK"
  BY DEF Finish, Return
<1>2. /\ list \in Seq(Extension) /\ o \in Objects
      /\ request.capacity \in 0 .. MemorySize /\ request.capacity \in Nat /\ MemorySize \in Nat
      /\ memory \in [1 .. MemorySize -> 0 .. 255] /\ block \in 0 .. BlockMax
      /\ body \in Nat /\ start \in Nat /\ offset \in Nat
  BY <1>1, Bounds DEF IInv, Called, Shapes
<1>3. /\ Sized /\ BodyThere /\ LengthThere /\ i = Len(list) + 1
      /\ ValidUpTo(list, i - 1) /\ offset = Len(Prefix(list, i - 1))
      /\ start + offset <= request.capacity /\ Holds(Prefix(list, i - 1), start, memory)
  BY <1>1 DEF IInv, AtWrite
<1>4. body \in 10 .. 17 /\ (memory[2] % 2) = 0
  BY <1>2, <1>3, BodyUnflagged
<1>5. /\ ValidUpTo(list, Len(list)) /\ offset = Len(c) /\ block = Len(c) /\ list # <<>>
      /\ Holds(c, start, memory) /\ request.entry = "tier0_encode_ext"
  <2>1. Len(list) \in Nat
    BY <1>2
  <2>2. i - 1 = Len(list)
    BY <1>3, <2>1
  <2> QED
    BY <1>2, <1>3, <2>2, ElementsArePrefix DEF Sized
<1>6. /\ Fitting(o) /\ body = Len(f) /\ Holds(f, 0, memory)
      /\ start = body + Len(u) /\ Holds(u, body, memory)
  BY <1>3 DEF BodyThere, LengthThere
<1>7. /\ Canonical(o, list) = g \o u \o c
      /\ g \in Seq(Byte) /\ Len(g) = Len(f) /\ u \in Seq(Byte) /\ c \in Seq(Byte)
      /\ \A k \in 1 .. Len(f) : g[k] = IF k = 2 THEN f[k] + 1 ELSE f[k]
      /\ Canonical(o, list) \in Seq(Byte)
      /\ Len(Canonical(o, list)) = Whole(o, list)
  <2>1. Len(Elements(list)) <= BlockMax
    BY <1>2, <1>5, Bounds
  <2> QED
    BY <1>2, <1>5, <1>6, <2>1, CanonicalParts
<1>8. Whole(o, list) = start + block /\ start + block <= MemorySize
  <2>1. Whole(o, list) = Len(f) + Len(u) + block
    BY <1>5 DEF Whole
  <2>2. start + block <= MemorySize
    BY <1>2, <1>3, <1>5
  <2> QED
    BY <1>6, <2>1, <2>2
<1>9. /\ memory' = [memory EXCEPT ![2] = @ + 1] /\ written' = start + block
      /\ pc' = "done" /\ status' = "OK"
  BY <1>1, <1>4, <1>5
<1> HIDE DEF f, g, c, u
<1>9a. /\ body \in Nat /\ 10 <= body /\ Len(u) \in Nat /\ start = body + Len(u)
       /\ start + block <= MemorySize /\ block \in Nat
  <2>1. Len(u) \in Nat
    BY <1>7
  <2>2. body \in Nat /\ 10 <= body /\ block \in Nat
    BY <1>2, <1>4, Bounds
  <2> QED
    BY <1>6, <1>8, <2>1, <2>2
<1>10. /\ 2 \in 1 .. MemorySize /\ memory' \in [1 .. MemorySize -> Byte]
       /\ memory'[2] = memory[2] + 1
       /\ \A k \in 1 .. MemorySize : k # 2 => memory'[k] = memory[k]
  <2>1. 2 \in 1 .. MemorySize
    BY <1>2, <1>9a
  <2>2. memory[2] \in 0 .. 255 /\ memory[2] # 255
    BY <1>2, <1>4, <2>1
  <2> DEFINE x == memory[2]
  <2> HIDE DEF x
  <2>3. x \in 0 .. 255 /\ x # 255
    BY <2>2 DEF x
  <2>4. x + 1 \in Byte
    BY <2>3 DEF Byte
  <2>5. memory' = [memory EXCEPT ![2] = x + 1]
    BY <1>9 DEF x
  <2>6. memory \in [1 .. MemorySize -> Byte]
    BY <1>2 DEF Byte
  <2> QED
    BY <2>1, <2>4, <2>5, <2>6 DEF x
<1>11. Holds(g, 0, memory')
  <2> SUFFICES ASSUME NEW k \in 1 .. Len(g) PROVE memory'[0 + k] = g[k]
    BY DEF Holds
  <2>1. 0 + k = k /\ k \in 1 .. Len(f) /\ k \in 1 .. MemorySize
    BY <1>2, <1>3, <1>6, <1>7 DEF BodyThere
  <2>2. memory[0 + k] = f[k]
    BY <1>6, <2>1 DEF Holds
  <2>3. g[k] = IF k = 2 THEN f[k] + 1 ELSE f[k]
    BY <1>7, <2>1
  <2> QED
    BY <1>10, <2>1, <2>2, <2>3
<1>12. Holds(u, Len(g), memory')
  <2> SUFFICES ASSUME NEW k \in 1 .. Len(u) PROVE memory'[Len(g) + k] = u[k]
    BY DEF Holds
  <2>1. Len(u) \in Nat /\ k \in Nat /\ Len(g) = body
    BY <1>6, <1>7
  <2>2. Len(g) + k \in 1 .. MemorySize /\ Len(g) + k # 2
    BY <1>2, <1>9a, <2>1
  <2>3. memory[Len(g) + k] = u[k]
    BY <1>6, <2>1 DEF Holds
  <2> QED
    BY <1>10, <2>2, <2>3
<1>13. Holds(c, Len(g \o u), memory')
  <2>0. Len(g \o u) = start
    <3>1. Len(g \o u) = Len(g) + Len(u)
      BY <1>7, ConcatType
    <3> QED
      BY <1>6, <1>7, <3>1
  <2> SUFFICES ASSUME NEW k \in 1 .. Len(c) PROVE memory'[start + k] = c[k]
    BY <2>0 DEF Holds
  <2>1. Len(u) \in Nat /\ k \in Nat /\ Len(c) \in Nat /\ k <= block /\ block \in Nat
    BY <1>5, <1>7
  <2>2. start + k \in 1 .. MemorySize /\ start + k # 2
    BY <1>2, <1>9a, <2>1
  <2>3. memory[start + k] = c[k]
    BY <1>5 DEF Holds
  <2> QED
    BY <1>10, <2>2, <2>3
<1>14. SubSeq(memory', 1, Len(Canonical(o, list))) = Canonical(o, list)
  <2>1. g \o u \in Seq(Byte) /\ 0 + Len(g) = Len(g) /\ 0 + Len(g \o u) = Len(g \o u)
    <3>1. g \o u \in Seq(Byte)
      BY <1>7, ConcatType
    <3> QED
      BY <1>7, <3>1
  <2>2. Holds(g \o u, 0, memory')
    BY <1>7, <1>11, <1>12, <2>1, HoldsBoth
  <2>3. Holds((g \o u) \o c, 0, memory')
    BY <1>7, <1>13, <2>1, <2>2, HoldsBoth
  <2>4. Holds(Canonical(o, list), 0, memory')
    BY <1>7, <2>3
  <2> DEFINE w == Canonical(o, list)
             m == memory'
  <2>5. w \in Seq(Byte) /\ Len(w) <= MemorySize /\ Holds(w, 0, m) /\ m \in [1 .. MemorySize -> Byte]
    BY <1>7, <1>8, <1>10, <2>4
  <2> HIDE DEF w, m
  <2>6. SubSeq(m, 1, Len(w)) = w
    BY <1>2, <2>5, HoldsIsSubSeq
  <2> QED
    BY <2>6 DEF w, m
<1>15. Shapes'
  <2>1. memory' \in [1 .. MemorySize -> 0 .. 255]
    BY <1>10 DEF Byte
  <2> QED
    BY <1>1, <1>9, <2>1 DEF IInv, Shapes
<1>16. Outcome' /\ Called'
  BY <1>1, <1>2, <1>9 DEF IInv, Outcome, Called
<1>17. AtDone'
  <2>1. Encodable(list)
    BY <1>2, <1>5, EncodableIsValid
  <2>2. CanonicalAnswer(request, memory', written')
    BY <1>5, <1>7, <1>8, <1>9, <1>14, <2>1 DEF CanonicalAnswer
  <2>3. RoomAnswer(o, list, request.capacity, "OK")
    <3>1. Len(Elements(list)) <= BlockMax
      BY <1>2, <1>5, Bounds DEF c
    <3>2. request.capacity >= Whole(o, list)
      BY <1>2, <1>3, <1>5, <1>8
    <3> QED
      BY <1>2, <1>5, <1>6, <3>1, <3>2, RoomAnswered
  <2> QED
    BY <1>1, <1>9, <2>2, <2>3 DEF AtDone
<1> QED
  BY <1>9, <1>15, <1>16, <1>17 DEF IInv, AtStart, AtSize, AtBody, AtLength, AtWrite

-----------------------------------------------------------------------------
\* The call; an object without extensions is all done at once.
LEMMA BeginKeeps ==
    ASSUME IInv, NEW entry \in Entry, NEW object \in Objects, NEW list \in Lists,
           NEW capacity \in Capacities, Begin(entry, object, list, capacity)
    PROVE  IInv'
<1> DEFINE r == EncodeAtMajor(EXPERIMENTAL_MAJOR, object, memory, capacity)
           asked == [entry |-> entry, object |-> object, list |-> list, capacity |-> capacity]
<1>1. /\ pc = "start" /\ request' = asked /\ block' = block /\ body' = body
      /\ start' = start /\ i' = i /\ offset' = offset
      /\ \/ /\ entry = "tier0_encode_ext" /\ list = <<>>
            /\ memory' = r.memory /\ written' = r.written
            /\ pc' = "done" /\ status' = r.status
         \/ /\ entry = "extensions_encoded_size" \/ (entry = "tier0_encode_ext" /\ list # <<>>)
            /\ pc' = "size" /\ memory' = memory /\ status' = status /\ written' = written
         \/ /\ entry = "extensions_encode"
            /\ pc' = "write" /\ memory' = memory /\ status' = status /\ written' = written
  BY DEF Begin, Return
<1>2. /\ list \in Seq(Extension) /\ capacity \in 0 .. MemorySize /\ capacity \in Nat
      /\ memory \in [1 .. MemorySize -> 0 .. 255]
      /\ status = "OK" /\ written = 0 /\ body = 0 /\ start = 0 /\ i = 1 /\ offset = 0
      /\ block = 0 /\ MemorySize \in Nat /\ BlockMax \in Nat
  <2>1. capacity \in 0 .. MemorySize /\ list \in Seq(Extension)
    BY ArgumentTypes
  <2> QED
    BY <1>1, <2>1, Bounds DEF IInv, Shapes, Outcome, AtStart
<1>3. asked.entry = entry /\ asked.object = object /\ asked.list = list /\ asked.capacity = capacity
  OBVIOUS
<1>4. EncodesInto(r, EXPERIMENTAL_MAJOR, object, memory, capacity, MemorySize)
  BY <1>2, ArgumentTypes, EncodeAtMajorWrites
<1>5. /\ r.status = "OK" =>
            /\ Fitting(object)
            /\ r.written = Len(Fixed(object)) /\ Len(Fixed(object)) <= capacity
            /\ Holds(Fixed(object), 0, r.memory)
      /\ (r.status # "OK" /\ Fitting(object)) => capacity < Len(Fixed(object))
  BY <1>2, BodyWritten
<1> HIDE DEF r, asked
<1>6. /\ r.status \in {"OK", "UNSUPPORTED_SEMANTIC", "BUFFER_TOO_SMALL", "RANGE"}
      /\ r.memory \in [1 .. MemorySize -> 0 .. 255]
      /\ r.status # "OK" => r.written = 0
  BY <1>4 DEF EncodesInto
<1>7. Shapes'
  <2>1. i' \in 1 .. Len(list) + 1
    <3>1. Len(list) \in Nat
      BY <1>2
    <3> QED
      BY <1>1, <1>2, <3>1
  <2>2. memory' \in [1 .. MemorySize -> 0 .. 255]
    BY <1>1, <1>2, <1>6
  <2>3. request'.list = list
    BY <1>1, <1>3
  <2>4. pc' \in {"start", "size", "body", "length", "write", "finish", "done"}
    BY <1>1
  <2>5. start' + offset' <= MemorySize /\ block' \in 0 .. BlockMax
    BY <1>1, <1>2
  <2> QED
    BY <1>1, <1>2, <2>1, <2>2, <2>3, <2>4, <2>5 DEF Shapes
<1>8. Outcome'
  BY <1>1, <1>2, <1>6 DEF Outcome
<1>9. Called'
  BY <1>1, <1>2, <1>3 DEF Called
<1>10. ValidUpTo(list, 0) /\ Len(Prefix(list, 0)) = 0 /\ \A m : Holds(Prefix(list, 0), 0, m)
  <2>1. ValidUpTo(list, 0)
    BY DEF ValidUpTo
  <2>2. Prefix(list, 0) = <<>>
    BY <1>2, <2>1, PrefixSteps
  <2> QED
    BY <2>1, <2>2 DEF Holds
<1>11. AtSize'
  BY <1>1, <1>2, <1>3, <1>10 DEF AtSize
<1>12. AtWrite'
  BY <1>1, <1>2, <1>3, <1>10 DEF AtWrite
<1>13. AtDone'
  <2> SUFFICES ASSUME pc' = "done" PROVE AtDone'
    BY DEF AtDone
  <2>1. /\ entry = "tier0_encode_ext" /\ list = <<>> /\ memory' = r.memory
        /\ written' = r.written /\ status' = r.status
    BY <1>1
  <2>2. Canonical(object, list) = Fixed(object)
    BY <2>1 DEF Canonical, Fixed
  <2>3. Encodable(list) /\ Len(Elements(list)) = 0
    <3>1. Encodable(list)
      BY <2>1 DEF Encodable
    <3>2. Len(list) = 0
      BY <2>1
    <3> QED
      BY <1>2, <1>10, <3>1, <3>2, ElementsArePrefix
  <2>4. Allowed(list)
    BY <1>2, <2>3 DEF Allowed
  <2>5. Fitting(object) => Fixed(object) \in Seq(Byte) /\ Len(Fixed(object)) \in 10 .. 17
    BY FixedType
  <2>6. RoomAnswer(object, list, capacity, r.status)
    <3>1. Fitting(object) => /\ r.status = "OK" <=> capacity >= Len(Fixed(object))
                             /\ Len(Fixed(object)) <= 17 + 2 + BlockMax
      <4> DEFINE x == Len(Fixed(object))
      <4>1. Fitting(object) => x \in 10 .. 17
        BY <2>5
      <4>2. /\ (r.status = "OK" /\ Fitting(object)) => x <= capacity
            /\ (r.status # "OK" /\ Fitting(object)) => capacity < x
        BY <1>5
      <4> HIDE DEF x
      <4>3. Fitting(object) => (r.status = "OK" <=> capacity >= x) /\ x <= 17 + 2 + BlockMax
        BY <1>2, <4>1, <4>2
      <4> QED
        BY <4>3 DEF x
    <3> QED
      BY <1>5, <2>2, <2>4, <3>1 DEF RoomAnswer
  <2>7. ASSUME r.status = "OK" PROVE CanonicalAnswer(asked, memory', written')
    <3> DEFINE c == Fixed(object)
               m == r.memory
    <3>1. /\ c \in Seq(Byte) /\ Len(c) <= MemorySize /\ Holds(c, 0, m)
          /\ m \in [1 .. MemorySize -> Byte]
      <4>1. m \in [1 .. MemorySize -> Byte]
        BY <1>6 DEF Byte
      <4>2. Len(c) <= MemorySize
        BY <1>2, <1>5, <2>5, <2>7
      <4> QED
        BY <1>5, <2>5, <2>7, <4>1, <4>2
    <3> HIDE DEF c, m
    <3>2. SubSeq(m, 1, Len(c)) = c
      BY <1>2, <3>1, HoldsIsSubSeq
    <3> QED
      BY <1>3, <1>5, <2>1, <2>2, <2>3, <2>7, <3>2 DEF CanonicalAnswer, c, m
  <2>8. body' = 0
    BY <1>1, <1>2
  <2> QED
    BY <1>1, <1>3, <2>1, <2>6, <2>7, <2>8 DEF AtDone
<1> QED
  BY <1>1, <1>7, <1>8, <1>9, <1>11, <1>12, <1>13 DEF IInv, AtStart, AtBody, AtLength

-----------------------------------------------------------------------------
LEMMA InitInvariant ==
    ASSUME Init
    PROVE  IInv
<1>1. Shapes
  <2>1. memory \in [1 .. MemorySize -> 0 .. 255]
    BY DEF Init, Fill
  <2>2. request.list = <<>> /\ i \in 1 .. Len(request.list) + 1
    BY DEF Init
  <2> QED
    BY <2>1, <2>2, Bounds DEF Init, Shapes
<1>2. request.list \in Seq(Extension)
  BY DEF Init
<1> QED
  BY <1>1, <1>2 DEF Init, IInv, Outcome, Called, AtStart, AtSize, AtBody, AtLength, AtWrite, AtDone

LEMMA NextInvariant ==
    ASSUME IInv, [Next]_vars
    PROVE  IInv'
<1>1. CASE UNCHANGED vars
  BY <1>1 DEF vars, IInv, Shapes, Outcome, Called, AtStart, AtSize, AtBody, AtLength, AtWrite,
              AtDone, Sized, BodyThere, LengthThere
<1>2. CASE \E entry \in Entry, object \in Objects, list \in Lists, capacity \in Capacities :
              Begin(entry, object, list, capacity)
  BY <1>2, BeginKeeps
<1>3. CASE SizeOne
  BY <1>3, SizeOneKeeps
<1>4. CASE SizeDone
  BY <1>4, SizeDoneKeeps
<1>5. CASE EncodeBody
  BY <1>5, EncodeBodyKeeps
<1>6. CASE EncodeLength
  BY <1>6, EncodeLengthKeeps
<1>7. CASE WriteOne
  BY <1>7, WriteOneKeeps
<1>8. CASE WriteDone
  BY <1>8, WriteDoneKeeps
<1>9. CASE Finish
  BY <1>9, FinishKeeps
<1> QED
  BY <1>1, <1>2, <1>3, <1>4, <1>5, <1>6, <1>7, <1>8, <1>9 DEF Next

\* The two passes over the list of extensions, at every step.
THEOREM EncodeInvariant == Spec => []IInv
<1>1. Init => IInv
  BY InitInvariant
<1>2. IInv /\ [Next]_vars => IInv'
  BY NextInvariant
<1> QED
  BY <1>1, <1>2, PTL DEF Spec

\* The types of the call's state (extension.c:170-268).
THEOREM EncodeTypes == Spec => []TypeOK
<1>1. IInv => TypeOK
  BY DEF IInv, Shapes, Outcome, TypeOK, Status, List
<1> QED
  BY <1>1, EncodeInvariant, PTL

\* A success has written the canonical octets and nothing else (extension.c:119-268).
THEOREM EncodeSuccessIsCanonical == Spec => []SuccessIsCanonical
<1>1. IInv => SuccessIsCanonical
  BY DEF IInv, AtDone, CanonicalAnswer, SuccessIsCanonical, Success, Done, List
<1> QED
  BY <1>1, EncodeInvariant, PTL

\* The check that the passes agree never fails, and a list that was sized is
\* refused for want of room only (extension.c:180-183, 258-262).
THEOREM EncodePassesAgree == Spec => []PassesAgree
<1>1. IInv => PassesAgree
  <2> SUFFICES ASSUME IInv, request.entry = "tier0_encode_ext"
               PROVE  /\ pc = "finish" => offset = block
                      /\ (Done /\ body > 0 /\ status # "OK") => status = "BUFFER_TOO_SMALL"
    BY DEF PassesAgree
  <2>1. ASSUME pc = "finish" PROVE offset = block
    <3>1. /\ i = Len(request.list) + 1 /\ offset = Len(Prefix(request.list, i - 1))
          /\ block = Len(Elements(request.list)) /\ request.list \in Seq(Extension)
      BY <2>1 DEF IInv, AtWrite, Sized, Called
    <3>2. i - 1 = Len(request.list)
      BY <3>1
    <3> QED
      BY <3>1, <3>2, ElementsArePrefix
  <2>2. (Done /\ body > 0 /\ status # "OK") => status = "BUFFER_TOO_SMALL"
    BY DEF IInv, AtDone, Done
  <2> QED
    BY <2>1, <2>2
<1> QED
  BY <1>1, EncodeInvariant, PTL

\* Whatever is within the limits is encoded when there is room, and
\* MCL_WIRE_TIER0_EXT_MAX_SIZE is room for all of it (extension.h:115-119).
THEOREM EncodeHasRoomForEveryObject == Spec => []RoomForEveryObject
<1>1. IInv => RoomForEveryObject
  BY DEF IInv, AtDone, RoomForEveryObject, RoomAnswer, Allowed, Fitting, Done, List, Capacity
<1> QED
  BY <1>1, EncodeInvariant, PTL

\* extension_present is set when the whole block stands behind the body, and not
\* before (extension.c:264-266).
THEOREM EncodeSetsTheBitLast == Spec => []BitIsSetLast
<1>1. IInv => BitIsSetLast
  <2> SUFFICES ASSUME IInv, request.entry = "tier0_encode_ext", body > 0, ~Success
               PROVE  (memory[2] % 2) = 0
    BY DEF BitIsSetLast
  <2>1. CASE pc \in {"start", "size", "body"}
    <3>1. body = 0
      BY <2>1 DEF IInv, AtStart, AtSize, AtBody
    <3> QED
      BY <3>1
  <2>2. CASE pc \in {"length", "write", "finish"}
    <3>1. request.object \in Objects
      BY <2>2 DEF IInv, Called
    <3>2. BodyThere
      BY <2>2 DEF IInv, AtLength, AtWrite
    <3> QED
      BY <3>1, <3>2, BodyUnflagged
  <2>3. CASE pc = "done"
    BY <2>3 DEF IInv, AtDone, Success, Done
  <2> QED
    BY <2>1, <2>2, <2>3 DEF IInv, Shapes
<1> QED
  BY <1>1, EncodeInvariant, PTL

\* What the two writing steps put into memory fits the room offered.
LEMMA LengthInRoom ==
    ASSUME IInv, EncodeLength
    PROVE  \E at \in Nat, octets \in Seq(Byte) :
              /\ request' = request /\ memory' = Put(at, octets)
              /\ at + Len(octets) <= request.capacity
<1> DEFINE u == UvarintEncode(block)
<1>1. /\ request.capacity \in Nat /\ body \in Nat /\ body <= request.capacity
      /\ u \in Seq(Byte) /\ Len(u) \in Nat
  <2>1. /\ request.capacity \in 0 .. MemorySize /\ body \in Nat /\ body <= request.capacity
        /\ block \in 0 .. BlockMax
    BY DEF EncodeLength, IInv, Called, Shapes, AtLength, BodyThere
  <2> QED
    BY <2>1, Bounds, LengthTakesTwo
<1>2. CASE request.capacity - body < Len(u)
  <2>1. request' = request /\ memory' = memory
    BY <1>2 DEF EncodeLength, Capacity
  <2>2. Put(0, <<>>) = memory
    BY PutNothing DEF IInv, Shapes
  <2>3. 0 + Len(<<>>) <= request.capacity /\ <<>> \in Seq(Byte)
    BY <1>1
  <2> QED
    BY <2>1, <2>2, <2>3
<1>3. CASE ~(request.capacity - body < Len(u))
  <2>1. request' = request /\ memory' = Put(body, u)
    BY <1>3 DEF EncodeLength, Capacity
  <2>2. body + Len(u) <= request.capacity
    BY <1>1, <1>3
  <2> QED
    BY <1>1, <2>1, <2>2
<1> QED
  BY <1>2, <1>3

LEMMA ExtensionInRoom ==
    ASSUME IInv, WriteOne
    PROVE  \E at \in Nat, octets \in Seq(Byte) :
              /\ request' = request /\ memory' = Put(at, octets)
              /\ at + Len(octets) <= request.capacity
<1> DEFINE e == request.list[i]
           capacity == request.capacity
           at == start + offset
           key == UvarintEncode(KeyOf(e))
           header == key \o UvarintEncode(Len(e.value))
           short == IF capacity - start - offset < Len(key) THEN <<>>
                    ELSE IF capacity - start - offset < Len(header) THEN key ELSE header
<1>1. /\ capacity \in Nat /\ start \in Nat /\ offset \in Nat /\ at <= capacity /\ at \in Nat
      /\ e \in Extension /\ request' = request
  <2>1. /\ capacity \in 0 .. MemorySize /\ start \in Nat /\ offset \in Nat
        /\ start + offset <= capacity /\ request.list \in Seq(Extension)
        /\ i \in 1 .. Len(request.list) + 1 /\ i <= Len(request.list)
    BY DEF WriteOne, IInv, Called, Shapes, AtWrite, List
  <2>2. e \in Extension
    BY <2>1
  <2> QED
    BY <2>1, <2>2, Bounds DEF WriteOne
<1>2. \/ memory' = memory
      \/ /\ InRange(e)
         /\ \/ memory' = Put(at, short)
            \/ /\ memory' = Put(at, header \o e.value)
               /\ capacity - start - offset >= Len(header) + Len(e.value)
  BY DEF WriteOne, List, Capacity
<1>3. ASSUME InRange(e)
      PROVE  /\ key \in Seq(Byte) /\ header \in Seq(Byte) /\ header \o e.value \in Seq(Byte)
             /\ Len(header \o e.value) = Len(header) + Len(e.value)
             /\ Len(key) \in Nat /\ Len(header) \in Nat /\ Len(e.value) \in Nat
  <2>1. KeyOf(e) \in Word /\ Len(e.value) \in Word /\ e.value \in Seq(Byte)
    BY <1>1, <1>3, KeyIsWord, ExtensionType
  <2>2. key \in Seq(Byte) /\ UvarintEncode(Len(e.value)) \in Seq(Byte)
    BY <2>1, WordOctets
  <2>3. header \in Seq(Byte)
    BY <2>2, ConcatType
  <2> HIDE DEF key, header
  <2>4. header \o e.value \in Seq(Byte) /\ Len(header \o e.value) = Len(header) + Len(e.value)
    BY <2>1, <2>3, ConcatType
  <2> QED
    BY <2>1, <2>2, <2>3, <2>4
<1> HIDE DEF key, header, e, capacity
<1>4. CASE memory' = memory
  <2>1. Put(0, <<>>) = memory
    BY PutNothing DEF IInv, Shapes
  <2>2. 0 + Len(<<>>) <= capacity /\ <<>> \in Seq(Byte)
    BY <1>1
  <2> QED
    BY <1>1, <1>4, <2>1, <2>2 DEF capacity
<1>5. CASE InRange(e) /\ memory' = Put(at, short)
  <2>1. short \in Seq(Byte) /\ Len(short) <= capacity - start - offset
    <3> DEFINE room == capacity - start - offset
    <3>1. room \in Nat
      BY <1>1
    <3>2. CASE room < Len(key)
      BY <3>1, <3>2
    <3>3. CASE ~(room < Len(key)) /\ room < Len(header)
      BY <1>3, <1>5, <3>1, <3>3
    <3>4. CASE ~(room < Len(key)) /\ ~(room < Len(header))
      BY <1>3, <1>5, <3>1, <3>4
    <3> QED
      BY <3>2, <3>3, <3>4
  <2> HIDE DEF short
  <2>2. Len(short) \in Nat
    BY <2>1
  <2>3. at + Len(short) <= capacity
    BY <1>1, <2>1, <2>2
  <2> QED
    BY <1>1, <1>5, <2>1, <2>3 DEF capacity
<1>6. CASE /\ InRange(e) /\ memory' = Put(at, header \o e.value)
           /\ capacity - start - offset >= Len(header) + Len(e.value)
  <2> DEFINE el == header \o e.value
             l == Len(el)
  <2>1. el \in Seq(Byte) /\ l \in Nat /\ capacity - start - offset >= l
    BY <1>3, <1>6
  <2> HIDE DEF l
  <2>2. at + l <= capacity
    BY <1>1, <2>1
  <2> QED
    BY <1>1, <1>6, <2>1, <2>2 DEF capacity, l
<1> QED
  BY <1>2, <1>4, <1>5, <1>6

\* No step writes outside the room offered, and no failure reports a length
\* (extension.c:44-46, 130-152, 239-254).
THEOREM EncodeStaysInRoom == Spec => WritesStayInRoom
<1> DEFINE Stays == /\ \A k \in 1 .. MemorySize : k > request'.capacity => memory'[k] = memory[k]
                    /\ status' # "OK" => written' = 0
<1>1. IInv /\ IInv' /\ [Next]_vars => [Stays]_vars
  <2> SUFFICES ASSUME IInv, IInv', Next
               PROVE  \A k \in 1 .. MemorySize : k > request'.capacity => memory'[k] = memory[k]
    BY DEF vars, IInv, Outcome
  <2>1. ASSUME NEW o \in Objects, NEW capacity \in 0 .. MemorySize
        PROVE  \A k \in 1 .. MemorySize : k > capacity =>
                   EncodeAtMajor(EXPERIMENTAL_MAJOR, o, memory, capacity).memory[k] = memory[k]
    <3> DEFINE r == EncodeAtMajor(EXPERIMENTAL_MAJOR, o, memory, capacity)
               n == Required(EXPERIMENTAL_MAJOR, o)
    <3>1. EncodesInto(r, EXPERIMENTAL_MAJOR, o, memory, capacity, MemorySize)
      BY ArgumentTypes, Bounds, EncodeAtMajorWrites DEF IInv, Shapes
    <3> HIDE DEF r
    <3>2. n \in Nat /\ capacity \in Nat
      BY RequiredType, Bounds
    <3>3. /\ capacity < n => r.memory = memory
          /\ \A k \in 1 .. MemorySize : k > n => r.memory[k] = memory[k]
      BY <3>1 DEF EncodesInto
    <3> HIDE DEF n
    <3> QED
      BY <3>2, <3>3 DEF r
  <2>2. CASE \E entry \in Entry, object \in Objects, list \in Lists, capacity \in Capacities :
                Begin(entry, object, list, capacity)
    <3>1. PICK entry \in Entry, object \in Objects, list \in Lists, capacity \in Capacities :
             Begin(entry, object, list, capacity)
      BY <2>2
    <3>2. capacity \in 0 .. MemorySize /\ request'.capacity = capacity
      BY <3>1, ArgumentTypes DEF Begin
    <3>3. \/ memory' = memory
          \/ memory' = EncodeAtMajor(EXPERIMENTAL_MAJOR, object, memory, capacity).memory
      BY <3>1 DEF Begin
    <3> QED
      BY <2>1, <3>2, <3>3
  <2>3. CASE SizeOne \/ SizeDone \/ WriteDone
    BY <2>3 DEF SizeOne, SizeDone, WriteDone
  <2>4. CASE EncodeBody
    <3>1. /\ request' = request
          /\ memory' = EncodeAtMajor(EXPERIMENTAL_MAJOR, request.object, memory,
                                     request.capacity).memory
      BY <2>4 DEF EncodeBody, Capacity
    <3>2. request.object \in Objects /\ request.capacity \in 0 .. MemorySize
      BY <2>4 DEF IInv, Called, EncodeBody
    <3> QED
      BY <2>1, <3>1, <3>2
  <2>5. CASE EncodeLength \/ WriteOne
    <3>1. PICK at \in Nat, octets \in Seq(Byte) :
             /\ request' = request /\ memory' = Put(at, octets)
             /\ at + Len(octets) <= request.capacity
      BY <2>5, LengthInRoom, ExtensionInRoom
    <3>2. request.capacity \in 0 .. MemorySize
      BY <2>5 DEF IInv, Called, EncodeLength, WriteOne
    <3>3. request.capacity \in Nat /\ request.capacity <= MemorySize /\ Len(octets) \in Nat
      BY <3>2, Bounds
    <3>4. at + Len(octets) <= MemorySize
      BY <3>1, <3>3, Bounds
    <3>5. \A k \in 1 .. MemorySize : k > at + Len(octets) => Put(at, octets)[k] = memory[k]
      BY ZenonT(30), <3>4, PutWrites DEF IInv, Shapes
    <3> QED
      BY <3>1, <3>3, <3>5
  <2>6. CASE Finish
    <3>1. /\ request' = request /\ pc = "finish"
          /\ \A k \in 1 .. MemorySize : k # 2 => memory'[k] = memory[k]
      BY <2>6 DEF Finish, IInv, Shapes
    <3>2. request.object \in Objects /\ BodyThere
      BY <3>1 DEF IInv, Called, AtWrite
    <3>3. request.capacity \in 0 .. MemorySize /\ body <= request.capacity
      BY <3>1, <3>2 DEF IInv, Called, BodyThere
    <3>4. body \in 10 .. 17
      BY <3>2, BodyUnflagged
    <3>5. request.capacity \in Nat /\ request.capacity >= 10
      BY <3>3, <3>4, Bounds
    <3> QED
      BY <3>1, <3>5
  <2> QED
    BY <2>2, <2>3, <2>4, <2>5, <2>6 DEF Next
<1> QED
  BY <1>1, EncodeInvariant, PTL DEF Spec, WritesStayInRoom
=============================================================================
