-------------------------- MODULE WireStreamProofs --------------------------
(***************************************************************************)
(* Proofs about the receiver of back-to-back objects, for every payload    *)
(* group, word width, block limit, set of streams and set of understood    *)
(* ids: an object of the encoder is told from a shorter buffer and from    *)
(* what follows it, and what is delivered is what was sent.                *)
(***************************************************************************)
EXTENDS WireStream, DecodeExtProofs

-----------------------------------------------------------------------------
\* A window of a sequence, and a window of a window.
LEMMA WindowIs ==
    ASSUME NEW S, NEW s \in Seq(S), NEW b \in Nat, NEW n \in Nat, b + n <= Len(s)
    PROVE  /\ SubSeq(s, b + 1, b + n) \in Seq(S) /\ Len(SubSeq(s, b + 1, b + n)) = n
           /\ \A k \in 1 .. n : SubSeq(s, b + 1, b + n)[k] = s[b + k]
<1> DEFINE w == SubSeq(s, b + 1, b + n)
           l == Len(s)
<1>1. l \in Nat /\ b + 1 \in Int /\ b + n \in Int /\ b + n <= l
  OBVIOUS
<1>2. \A i \in b + 1 .. b + n : s[i] \in S
  <2>1. \A i \in 1 .. l : s[i] \in S
    OBVIOUS
  <2> HIDE DEF l
  <2>2. \A i \in b + 1 .. b + n : i \in 1 .. l
    BY <1>1
  <2> QED
    BY <2>1, <2>2
<1>3. /\ w \in Seq(S)
      /\ Len(w) = IF b + 1 <= b + n THEN (b + n) - (b + 1) + 1 ELSE 0
      /\ \A i \in 1 .. (b + n) - (b + 1) + 1 : w[i] = s[b + 1 + i - 1]
  BY ONLY <1>1, <1>2, SubSeqProperties
<1>4. /\ (b + n) - (b + 1) + 1 = n
      /\ (IF b + 1 <= b + n THEN n ELSE 0) = n
      /\ \A k \in 1 .. n : b + 1 + k - 1 = b + k
  OBVIOUS
<1> HIDE DEF w
<1>5. Len(w) = n /\ \A k \in 1 .. n : w[k] = s[b + k]
  BY <1>3, <1>4
<1> QED
  BY <1>3, <1>5 DEF w

LEMMA WindowOfWindow ==
    ASSUME NEW S, NEW s \in Seq(S), NEW b \in Nat, NEW r \in Nat, b + r <= Len(s),
           NEW v \in Nat, NEW n \in Nat, v + n <= r
    PROVE  SubSeq(SubSeq(s, b + 1, b + r), v + 1, v + n) = SubSeq(s, b + v + 1, b + v + n)
<1> DEFINE w == SubSeq(s, b + 1, b + r)
           x == SubSeq(w, v + 1, v + n)
           c == b + v
           y == SubSeq(s, c + 1, c + n)
<1>1. w \in Seq(S) /\ Len(w) = r /\ \A k \in 1 .. r : w[k] = s[b + k]
  BY ONLY s \in Seq(S), b \in Nat, r \in Nat, b + r <= Len(s), WindowIs
<1>2. Len(s) \in Nat /\ c \in Nat /\ c + n <= Len(s)
  OBVIOUS
<1> HIDE DEF w, c
<1>3. x \in Seq(S) /\ Len(x) = n /\ \A k \in 1 .. n : x[k] = w[v + k]
  BY ONLY <1>1, v \in Nat, n \in Nat, v + n <= r, WindowIs
<1>4. y \in Seq(S) /\ Len(y) = n /\ \A k \in 1 .. n : y[k] = s[c + k]
  BY ONLY s \in Seq(S), n \in Nat, <1>2, WindowIs
<1>5. \A k \in 1 .. n : v + k \in 1 .. r /\ b + (v + k) = c + k
  BY DEF c
<1> HIDE DEF x, y
<1>6. \A k \in 1 .. n : x[k] = y[k]
  BY <1>1, <1>3, <1>4, <1>5
<1>7. x = y
  BY <1>3, <1>4, <1>6, SeqEqual
<1> QED
  BY <1>7 DEF x, y, w, c

-----------------------------------------------------------------------------
\* Where the extensions of a list lie in its block.
ElementOf(e) == UvarintEncode(KeyOf(e)) \o UvarintEncode(Len(e.value)) \o e.value
ElementsIn(list) == [n \in 1 .. Len(list) |-> ElementOf(list[n])]
Reached(list, m) == Len(FlatTo(ElementsIn(list), m))

Writable(e) ==
    /\ KeyOf(e) \in Word /\ Len(e.value) \in Word
    /\ e = [id |-> e.id, critical |-> e.critical, value |-> e.value]
    /\ e.id \in Nat /\ e.id # 0 /\ e.critical \in {0, 1} /\ e.value \in Seq(Octet)

\* An extension is read from its octets.
ReadAs(octets, at, e, end, key, size) ==
    LET value == at + key.used + size.used
    IN  /\ key.status = "OK" /\ key.value = KeyOf(e)
        /\ size.status = "OK" /\ size.value = Len(e.value)
        /\ key.used \in Nat \ {0} /\ size.used \in Nat \ {0}
        /\ value + Len(e.value) = end
        /\ SubSeq(octets, value + 1, end) = e.value
ReadAt(octets, at, e, end) ==
    ReadAs(octets, at, e, end, UvarintDecode(octets, at),
           UvarintDecode(octets, at + UvarintDecode(octets, at).used))

LEMMA ElementReads ==
    ASSUME NEW octets \in Seq(Octet), NEW at \in Nat, NEW e, Writable(e),
           at + Len(ElementOf(e)) <= Len(octets),
           \A k \in 1 .. Len(ElementOf(e)) : octets[at + k] = ElementOf(e)[k]
    PROVE  /\ ReadAt(octets, at, e, at + Len(ElementOf(e)))
           /\ ElementOf(e) \in Seq(Octet)
<1> DEFINE K == UvarintEncode(KeyOf(e))
           S == UvarintEncode(Len(e.value))
           V == e.value
           a == Len(K)
           b == Len(S)
           c == Len(V)
           key == UvarintDecode(octets, at)
           size == UvarintDecode(octets, at + a)
<1>1. /\ K \in Seq(Octet) /\ S \in Seq(Octet) /\ V \in Seq(Octet)
      /\ a \in Nat \ {0} /\ b \in Nat \ {0} /\ c \in Nat
  <2>1. \A v \in Word : UvarintEncode(v) \in Seq(Octet) /\ Len(UvarintEncode(v)) \in 1 .. MaxGroups
    BY EncodedOctets, SizeIsLength
  <2>2. KeyOf(e) \in Word /\ Len(e.value) \in Word /\ V \in Seq(Octet)
    BY DEF Writable
  <2>3. \A n \in 1 .. MaxGroups : n \in Nat \ {0}
    BY DEF MaxGroups
  <2> QED
    BY <2>1, <2>2, <2>3
<1>2. ElementOf(e) = (K \o S) \o V
  BY DEF ElementOf
<1> HIDE DEF K, S, V
<1>3. /\ K \o S \in Seq(Octet) /\ Len(K \o S) = a + b
      /\ ElementOf(e) \in Seq(Octet) /\ Len(ElementOf(e)) = a + b + c
  BY <1>1, <1>2, ConcatType
<1>4. /\ \A k \in 1 .. a : octets[at + k] = K[k]
      /\ \A k \in 1 .. b : octets[at + a + k] = S[k]
      /\ \A k \in 1 .. c : octets[at + a + b + k] = V[k]
  <2>1. ASSUME NEW k \in 1 .. a PROVE octets[at + k] = K[k]
    <3>1. k \in 1 .. a + b + c /\ k \in 1 .. a + b
      BY <1>1
    <3>2. ((K \o S) \o V)[k] = K[k]
      BY <1>1, <1>3, <3>1
    <3> QED
      BY <1>2, <1>3, <3>1, <3>2
  <2>2. ASSUME NEW k \in 1 .. b PROVE octets[at + a + k] = S[k]
    <3>1. a + k \in 1 .. a + b + c /\ a + k \in 1 .. a + b
      BY <1>1
    <3>2. ((K \o S) \o V)[a + k] = S[k]
      BY <1>1, <1>3, <3>1
    <3>3. at + a + k = at + (a + k)
      BY <1>1
    <3> QED
      BY <1>2, <1>3, <3>1, <3>2, <3>3
  <2>3. ASSUME NEW k \in 1 .. c PROVE octets[at + a + b + k] = V[k]
    <3>1. a + b + k \in 1 .. a + b + c
      BY <1>1
    <3>2. ((K \o S) \o V)[a + b + k] = V[k]
      BY <1>1, <1>3, <3>1
    <3>3. at + a + b + k = at + (a + b + k)
      BY <1>1
    <3> QED
      BY <1>2, <1>3, <3>1, <3>2, <3>3
  <2> QED
    BY <2>1, <2>2, <2>3
<1>5. at + a <= Len(octets) /\ at + a + b <= Len(octets) /\ at + a + b + c <= Len(octets)
  BY <1>1, <1>3
<1>6. key = [status |-> "OK", value |-> KeyOf(e), used |-> a]
  <2>1. KeyOf(e) \in Word
    BY DEF Writable
  <2> QED
    BY <1>4, <1>5, <2>1, EncodingIsDecoded DEF K
<1>7. size = [status |-> "OK", value |-> c, used |-> b]
  <2>1. c \in Word /\ at + a \in Nat
    BY <1>1 DEF Writable, V
  <2> QED
    BY <1>4, <1>5, <2>1, EncodingIsDecoded DEF S, V
<1>8. SubSeq(octets, at + a + b + 1, at + a + b + c) = V
  <2> DEFINE p == at + a + b
             w == SubSeq(octets, p + 1, p + c)
  <2>1. /\ p \in Nat /\ c \in Nat /\ p + c <= Len(octets) /\ Len(V) = c
        /\ \A k \in 1 .. c : octets[p + k] = V[k]
    BY <1>1, <1>4, <1>5
  <2> HIDE DEF p, c
  <2>2. w \in Seq(Octet) /\ Len(w) = c /\ \A k \in 1 .. c : w[k] = octets[p + k]
    BY ONLY octets \in Seq(Octet), <2>1, WindowIs
  <2> HIDE DEF w
  <2>3. \A k \in 1 .. c : w[k] = V[k]
    BY <2>1, <2>2
  <2>4. w = V
    BY ONLY <1>1, <2>1, <2>2, <2>3, SeqEqual
  <2> QED
    BY <2>4 DEF w, p, c
<1>9. at + Len(ElementOf(e)) = at + a + b + c
  BY <1>1, <1>3
<1> HIDE DEF key, size, a, b, c
<1>10. ReadAt(octets, at, e, at + a + b + c)
  <2>1. key.used = a /\ size.used = b
    BY <1>6, <1>7
  <2>2. UvarintDecode(octets, at) = key /\ UvarintDecode(octets, at + a) = size
    BY DEF key, size
  <2>3. ReadAs(octets, at, e, at + a + b + c, key, size)
    BY <1>1, <1>6, <1>7, <1>8, <2>1 DEF ReadAs, c, V
  <2>4. UvarintDecode(octets, at + key.used) = size
    BY <2>1, <2>2
  <2> QED
    BY ONLY <2>2, <2>3, <2>4, Zenon DEF ReadAt
<1> QED
  BY <1>3, <1>9, <1>10

LEMMA ElementLonger ==
    ASSUME NEW octets, NEW at \in Nat, NEW e, Len(e.value) \in Nat, NEW end, ReadAt(octets, at, e, end)
    PROVE  at < end
  BY DEF ReadAt, ReadAs

\* The block of a list is read extension by extension to its end.
ListStands(list) ==
    /\ Len(list) \in Nat /\ list = [n \in 1 .. Len(list) |-> list[n]]
    /\ Elements(list) \in Seq(Octet)
    /\ Reached(list, 0) = 0 /\ Reached(list, Len(list)) = Len(Elements(list))
    /\ list = <<>> => Elements(list) = <<>>
    /\ \A m, n \in 1 .. Len(list) : m < n => list[m].id < list[n].id
    /\ \A n \in 1 .. Len(list) :
          /\ Writable(list[n])
          /\ Reached(list, n - 1) \in Nat /\ Reached(list, n) \in Nat
          /\ Reached(list, n - 1) < Reached(list, n) /\ Reached(list, n) <= Len(Elements(list))
          /\ ReadAt(Elements(list), Reached(list, n - 1), list[n], Reached(list, n))

LEMMA ListReads ==
    ASSUME NEW list, Extensible(list)
    PROVE  ListStands(list)
<1> DEFINE e == ElementsIn(list)
           l == Len(list)
           all == Elements(list)
           R == [id : Nat \ {0}, critical : {0, 1}, value : Seq(Octet)]
<1>1. /\ list \in Seq(R) /\ l \in Nat /\ DOMAIN list = 1 .. l /\ list = [n \in 1 .. l |-> list[n]]
      /\ \A m, n \in 1 .. l : m < n => list[m].id < list[n].id
  <2>1. list \in Seq(R)
    BY DEF Extensible
  <2>2. l \in Nat /\ DOMAIN list = 1 .. l /\ list = [n \in 1 .. l |-> list[n]]
    BY <2>1
  <2> QED
    BY <2>1, <2>2 DEF Extensible
<1>2. ASSUME NEW n \in 1 .. l PROVE Writable(list[n])
  <2>1. KeyOf(list[n]) \in Word /\ Len(list[n].value) \in Word
    BY <1>1 DEF Extensible
  <2>2. list[n] \in R
    <3> HIDE DEF R
    <3> QED
      BY <1>1
  <2>3. list[n] = [id |-> list[n].id, critical |-> list[n].critical, value |-> list[n].value]
    BY <2>2
  <2> QED
    BY <2>1, <2>2, <2>3 DEF Writable
<1>3. ASSUME NEW n \in 1 .. l PROVE ElementOf(list[n]) \in Seq(Octet)
  <2>1. Writable(list[n])
    BY <1>2
  <2>2. \A v \in Word : UvarintEncode(v) \in Seq(Octet)
    BY EncodedOctets
  <2>3. /\ UvarintEncode(KeyOf(list[n])) \in Seq(Octet)
        /\ UvarintEncode(Len(list[n].value)) \in Seq(Octet) /\ list[n].value \in Seq(Octet)
    BY <2>1, <2>2 DEF Writable
  <2>4. UvarintEncode(KeyOf(list[n])) \o UvarintEncode(Len(list[n].value)) \in Seq(Octet)
    BY <2>3, ConcatType
  <2> QED
    BY <2>3, <2>4, ConcatType DEF ElementOf
<1>4. e \in [1 .. l -> Seq(Octet)] /\ \A n \in 1 .. l : e[n] = ElementOf(list[n])
  BY <1>3 DEF ElementsIn
<1>5. all = FlattenSeq(e)
  BY <1>1 DEF Elements, ElementsIn, ElementOf
<1>6. \A m \in 0 .. l : Reached(list, m) = Len(FlatTo(e, m))
  BY DEF Reached
<1>7. list = <<>> => all = <<>> /\ l = 0
  <2> SUFFICES ASSUME list = <<>> PROVE all = <<>> /\ l = 0
    OBVIOUS
  <2>1. l = 0
    OBVIOUS
  <2>2. FlatTo(e, 0) = <<>> /\ FlatTo(e, l) = FlattenSeq(e)
    <3>1. 0 \in 0 .. l
      BY <1>1
    <3> HIDE DEF e, l
    <3> QED
      BY <1>1, <1>4, <3>1, FlatToSteps
  <2> QED
    BY <1>5, <2>1, <2>2
<1> HIDE DEF e, l, all
<1>8. /\ FlatTo(e, 0) = <<>> /\ FlatTo(e, l) = all /\ all \in Seq(Octet)
  <2>1. l \in 0 .. l
    BY <1>1
  <2>2. l \in Nat /\ e \in [1 .. l -> Seq(Octet)]
    BY <1>1, <1>4
  <2>3. FlatTo(e, 0) = <<>> /\ FlatTo(e, l) \in Seq(Octet) /\ FlatTo(e, l) = FlattenSeq(e)
    BY ONLY <2>1, <2>2, FlatToSteps
  <2> QED
    BY <1>5, <2>3
<1>9. Reached(list, 0) = 0 /\ Reached(list, l) = Len(all)
  <2>1. l \in Nat
    BY <1>1
  <2>2. 0 \in 0 .. l /\ l \in 0 .. l
    BY ONLY <2>1
  <2> QED
    BY ONLY <1>6, <1>8, <2>2
<1>10. ASSUME NEW n \in 1 .. l
       PROVE  /\ Writable(list[n])
              /\ Reached(list, n - 1) \in Nat /\ Reached(list, n) \in Nat
              /\ Reached(list, n - 1) < Reached(list, n) /\ Reached(list, n) <= Len(all)
              /\ ReadAt(all, Reached(list, n - 1), list[n], Reached(list, n))
  <2> DEFINE p == Len(FlatTo(e, n - 1))
             q == Len(e[n])
  <2>1. n - 1 \in 0 .. l /\ n \in 0 .. l
    BY <1>1
  <2>2. /\ p \in Nat /\ q \in Nat /\ Len(FlatTo(e, n)) = p + q /\ p + q <= Len(all)
        /\ \A k \in 1 .. q : all[p + k] = e[n][k]
    <3>1. l \in Nat /\ e \in [1 .. l -> Seq(Octet)] /\ n \in 1 .. l
      BY <1>1, <1>4
    <3>2. LiesIn(e, n)
      BY <3>1, FlatPart
    <3> QED
      BY <1>5, <3>2 DEF LiesIn
  <2>3. Reached(list, n - 1) = p /\ Reached(list, n) = p + q
    BY <1>6, <2>1, <2>2
  <2>4. Writable(list[n]) /\ e[n] = ElementOf(list[n]) /\ q = Len(ElementOf(list[n]))
    BY <1>2, <1>4
  <2> HIDE DEF p, q
  <2>5. ReadAt(all, p, list[n], p + Len(ElementOf(list[n])))
    BY <1>8, <2>2, <2>4, ElementReads
  <2>6. p < p + q
    BY <2>2, <2>4, <2>5, ElementLonger DEF Writable
  <2> QED
    BY <2>2, <2>3, <2>4, <2>5, <2>6
<1> QED
  BY <1>1, <1>7, <1>8, <1>9, <1>10 DEF ListStands, l, all

-----------------------------------------------------------------------------
\* The octets of the encoder: a body, and when there are extensions the length of
\* their block and the block.
LengthOf(list) == UvarintEncode(Len(Elements(list)))
BodySize(octets, list) ==
    IF list = <<>> THEN Len(octets)
    ELSE Len(octets) - (Len(LengthOf(list)) + Len(Elements(list)))

BlockBehind(octets, list, p) ==
    /\ Len(Elements(list)) \in 1 .. BlockMax /\ Len(Elements(list)) \in Word
    /\ LengthOf(list) \in Seq(Octet) /\ Len(LengthOf(list)) \in {1, 2}
    /\ Len(octets) = p + Len(LengthOf(list)) + Len(Elements(list))
    /\ \A k \in 1 .. Len(LengthOf(list)) : octets[p + k] = LengthOf(list)[k]
    /\ \A k \in 1 .. Len(Elements(list)) :
          octets[p + Len(LengthOf(list)) + k] = Elements(list)[k]

\* The body is the one the encoder of Tier 0 wrote, extension_present aside.
BodyInFront(octets, o, flag, p) ==
    \E major \in {EXPERIMENTAL_MAJOR, STABLE_MAJOR} :
       LET memory == EncodeAtMajor(major, o, [k \in 1 .. 17 |-> 0], 17).memory
       IN  /\ EncodeAtMajor(major, o, [k \in 1 .. 17 |-> 0], 17).status = "OK"
           /\ p = Required(major, o)
           /\ major = STABLE_MAJOR /\ o.kind = "PRESENCE" => o.body.machine_class = 0
           /\ \A k \in 1 .. p : octets[k] = IF k = 2 THEN memory[k] + flag ELSE memory[k]

DueStands(octets, o, list) ==
    LET p == BodySize(octets, list)
    IN  /\ p \in 10 .. 17 /\ p <= Len(octets) /\ Len(octets) <= ExtMaxSize
        /\ BodyInFront(octets, o, IF list = <<>> THEN 0 ELSE 1, p)
        /\ list # <<>> => BlockBehind(octets, list, p)

LEMMA EncodedStands ==
    ASSUME NEW octets \in Seq(Octet), NEW o, NEW list, Encoded(octets, o, list)
    PROVE  DueStands(octets, o, list)
<1> DEFINE zeros == [k \in 1 .. 17 |-> 0]
           all == Elements(list)
           u == LengthOf(list)
           B == 0 .. 255
<1>0. B \subseteq Nat
  <2>1. \A x \in 0 .. 255 : x \in Nat
    OBVIOUS
  <2> QED
    BY <2>1
<1>1. /\ WellTyped(o) /\ o.priority \in Nat /\ Extensible(list)
      /\ BlockMax \in Nat /\ BlockMax <= WordMax /\ BlockMax < Group * Group
      /\ Len(octets) \in Nat
  BY DecodeExtAssumption, StreamsAssumption DEF Encoded
<1>2. PICK major \in {EXPERIMENTAL_MAJOR, STABLE_MAJOR} :
          /\ EncodeAtMajor(major, o, zeros, 17).status = "OK"
          /\ octets = IF list = <<>> THEN FixedEncoding(major, o) ELSE Canonical(o, list)
          /\ major = STABLE_MAJOR =>
                list = <<>> /\ (o.kind = "PRESENCE" => o.body.machine_class = 0)
  BY DEF Encoded
<1> DEFINE fixed == FixedEncoding(major, o)
           memory == EncodeAtMajor(major, o, zeros, 17).memory
           p == Required(major, o)
<1>3. /\ fixed \in Seq(B) /\ Len(fixed) = p /\ p \in 10 .. 17
      /\ \A k \in 1 .. p : fixed[k] = memory[k]
  <2>1. /\ fixed \in Seq(B) /\ Len(fixed) = p /\ Len(fixed) \in 10 .. 17
        /\ \A k \in 1 .. Len(fixed) : fixed[k] = memory[k]
    BY <1>1, <1>2, FixedIs
  <2> QED
    BY <2>1
<1> HIDE DEF memory, p, fixed, B
<1>4. /\ \A k \in 1 .. p : memory[k] \in Nat
      /\ p \in Nat /\ 10 <= p /\ p <= 17
      /\ major = STABLE_MAJOR /\ o.kind = "PRESENCE" => o.body.machine_class = 0
  <2>1. \A k \in 1 .. p : fixed[k] \in B
    BY <1>3
  <2>2. \A k \in 1 .. p : memory[k] \in Nat
    BY <1>0, <1>3, <2>1
  <2>3. p \in Nat /\ 10 <= p /\ p <= 17
    BY <1>3
  <2> QED
    BY ONLY <1>2, <2>2, <2>3, Zenon
<1>5. CASE list = <<>>
  <2>1. octets = fixed /\ BodySize(octets, list) = p
    BY <1>2, <1>3, <1>5 DEF BodySize, fixed
  <2>2. \A k \in 1 .. p : octets[k] = IF k = 2 THEN memory[k] + 0 ELSE memory[k]
    <3>1. ASSUME NEW k \in 1 .. p PROVE octets[k] = IF k = 2 THEN memory[k] + 0 ELSE memory[k]
      <4>1. octets[k] = memory[k] /\ memory[k] \in Nat
        BY <1>3, <1>4, <2>1
      <4> HIDE DEF memory
      <4> QED
        BY <4>1
    <3> QED
      BY <3>1
  <2>3. BodyInFront(octets, o, 0, p)
    BY <1>2, <1>4, <2>2 DEF BodyInFront, p, memory
  <2>4. p <= Len(octets) /\ Len(octets) <= ExtMaxSize
    BY <1>1, <1>3, <2>1 DEF ExtMaxSize, MaxFixedSize
  <2> QED
    BY <1>3, <1>5, <2>1, <2>3, <2>4 DEF DueStands
<1>6. CASE list # <<>>
  <2> DEFINE g == [fixed EXCEPT ![2] = @ + 1]
  <2>1. major = EXPERIMENTAL_MAJOR /\ octets = (g \o u) \o all
    <3>1. major = EXPERIMENTAL_MAJOR
      BY <1>2, <1>6
    <3>2. octets = Canonical(o, list)
      BY <1>2, <1>6
    <3> QED
      BY <1>6, <3>1, <3>2 DEF Canonical, LengthOf, fixed
  <2>2. ListStands(list)
    BY <1>1, ListReads
  <2>3. all \in Seq(Octet) /\ Len(all) \in 1 .. BlockMax
    <3>1. all \in Seq(Octet) /\ Len(all) <= BlockMax /\ Len(all) \in Nat
      BY <1>1, <2>2 DEF ListStands, Extensible
    <3>2. Len(list) \in Nat /\ Len(list) # 0
      <4>1. list \in Seq([id : Nat \ {0}, critical : {0, 1}, value : Seq(Octet)])
        BY <1>1 DEF Extensible
      <4> QED
        BY <1>6, <4>1
    <3>3. Len(list) \in 1 .. Len(list)
      BY <3>2
    <3>4. Reached(list, Len(list) - 1) \in Nat /\ Reached(list, Len(list) - 1) < Len(all)
      BY <2>2, <3>3 DEF ListStands
    <3> QED
      BY <3>1, <3>4
  <2>4. Len(all) \in Word /\ Len(all) < Group * Group
    <3> DEFINE n == Len(all)
    <3>1. n \in 1 .. BlockMax
      BY <2>3
    <3> HIDE DEF n
    <3>2. n \in Nat /\ n <= WordMax /\ n < Group * Group
      BY <1>1, <3>1, UvarintAssumption
    <3> QED
      BY <3>2 DEF Word, n
  <2>5. u \in Seq(Octet) /\ Len(u) \in {1, 2}
    BY <2>4, EncodedOctets, TwoOctets DEF LengthOf
  <2> HIDE DEF u, all
  <2>6. /\ g \in Seq(Nat) /\ Len(g) = p
        /\ \A k \in 1 .. p : g[k] = IF k = 2 THEN memory[k] + 1 ELSE memory[k]
    <3>1. 2 \in 1 .. p /\ fixed \in Seq(Nat)
      <4>1. fixed \in Seq(Nat)
        BY <1>0, <1>3, WiderSequence
      <4> QED
        BY <1>4, <4>1
    <3>2. Len(fixed) = p /\ \A k \in 1 .. p : fixed[k] = memory[k]
      BY <1>3
    <3>3. fixed[2] + 1 \in Nat
      BY <3>1, <3>2
    <3> QED
      BY <3>1, <3>2, <3>3
  <2>7. u \in Seq(Nat) /\ all \in Seq(Nat)
    <3>1. Octet \subseteq Nat
      BY UvarintAssumption DEF Octet
    <3> QED
      BY <2>3, <2>5, <3>1, WiderSequence
  <2> HIDE DEF g
  <2>8. /\ g \o u \in Seq(Nat) /\ Len(g \o u) = p + Len(u)
        /\ Len(octets) = p + Len(u) + Len(all)
    <3>1. g \o u \in Seq(Nat) /\ Len(g \o u) = Len(g) + Len(u)
      BY <2>6, <2>7, ConcatType
    <3>2. Len((g \o u) \o all) = Len(g \o u) + Len(all)
      BY <2>7, <3>1, ConcatType
    <3> QED
      BY <2>1, <2>6, <3>1, <3>2
  <2>9. /\ \A k \in 1 .. p : octets[k] = g[k]
        /\ \A k \in 1 .. Len(u) : octets[p + k] = u[k]
        /\ \A k \in 1 .. Len(all) : octets[p + Len(u) + k] = all[k]
    <3>0. p \in Nat /\ Len(u) \in Nat /\ Len(all) \in Nat
      BY <1>3, <2>7
    <3>1. ASSUME NEW k \in 1 .. p PROVE octets[k] = g[k]
      <4>1. k \in 1 .. Len(g \o u) /\ k \in 1 .. Len(g)
        BY <2>6, <2>8, <3>0
      <4>2. ((g \o u) \o all)[k] = (g \o u)[k] /\ (g \o u)[k] = g[k]
        <5>1. (g \o u)[k] = g[k]
          BY ONLY <2>6, <2>7, <4>1
        <5> DEFINE v == g \o u
        <5>2. v \in Seq(Nat) /\ k \in 1 .. Len(v)
          BY ONLY <2>8, <4>1
        <5> HIDE DEF v
        <5>3. (v \o all)[k] = v[k]
          BY ONLY <2>7, <5>2
        <5> QED
          BY ONLY <5>1, <5>3 DEF v
      <4> QED
        BY <2>1, <4>2
    <3>2. ASSUME NEW k \in 1 .. Len(u) PROVE octets[p + k] = u[k]
      <4>1. p + k \in 1 .. Len(g \o u) /\ Len(g) = p
        BY <2>6, <2>8, <3>0
      <4>2. ((g \o u) \o all)[p + k] = (g \o u)[p + k] /\ (g \o u)[p + k] = u[k]
        <5>1. (g \o u)[p + k] = u[k]
          BY ONLY <2>6, <2>7, <3>0, <4>1, k \in 1 .. Len(u)
        <5> DEFINE v == g \o u
        <5>2. v \in Seq(Nat) /\ p + k \in 1 .. Len(v)
          BY ONLY <2>8, <4>1
        <5> HIDE DEF v
        <5>3. (v \o all)[p + k] = v[p + k]
          BY ONLY <2>7, <5>2
        <5> QED
          BY ONLY <5>1, <5>3 DEF v
      <4> QED
        BY <2>1, <4>2
    <3>3. ASSUME NEW k \in 1 .. Len(all) PROVE octets[p + Len(u) + k] = all[k]
      <4> DEFINE v == g \o u
      <4>1. v \in Seq(Nat) /\ Len(v) = p + Len(u) /\ Len(v) \in Nat
        BY <2>8, <3>0
      <4> HIDE DEF v
      <4>2. (v \o all)[Len(v) + k] = all[k]
        BY <2>7, <4>1
      <4> QED
        BY <2>1, <4>1, <4>2 DEF v
    <3> QED
      BY <3>1, <3>2, <3>3
  <2>10. BodySize(octets, list) = p
    BY <1>3, <1>6, <2>7, <2>8 DEF BodySize, u, all
  <2>11. BodyInFront(octets, o, 1, p)
    <3>1. \A k \in 1 .. p : octets[k] = IF k = 2 THEN memory[k] + 1 ELSE memory[k]
      BY <2>6, <2>9
    <3> QED
      BY <1>2, <1>4, <3>1 DEF BodyInFront, p, memory
  <2>12. BlockBehind(octets, list, p)
    BY <2>3, <2>4, <2>5, <2>8, <2>9 DEF BlockBehind, u, all
  <2>13. p <= Len(octets) /\ Len(octets) <= ExtMaxSize
    <3>1. Len(u) \in 1 .. 2 /\ Len(all) \in Nat /\ Len(all) <= BlockMax
      BY <1>1, <2>3, <2>5
    <3> DEFINE x == Len(u)
               y == Len(all)
               z == Len(octets)
    <3>2. /\ x \in 1 .. 2 /\ y \in Nat /\ y <= BlockMax /\ z = p + x + y
          /\ p \in Nat /\ p <= 17 /\ BlockMax \in Nat
      BY <1>1, <1>4, <2>8, <3>1
    <3> HIDE DEF x, y, z
    <3>3. p <= z /\ z <= 17 + 2 + BlockMax
      BY ONLY <3>2
    <3> QED
      BY <3>3 DEF ExtMaxSize, MaxFixedSize, z
  <2> QED
    BY <1>3, <1>6, <2>10, <2>11, <2>12, <2>13 DEF DueStands
<1> QED
  BY <1>5, <1>6

\* From its whole size on the body is read, also when something follows; and
\* whether it comes with a block.
Agrees(input, octets) == \A k \in 1 .. Len(input) : k <= Len(octets) => input[k] = octets[k]

BodyRead(input, old, o, flag, p) ==
    /\ DecodeBody(input, old) =
          IF Len(input) >= p THEN [status |-> "OK", object |-> o, consumed |-> p]
          ELSE Undecoded("TRUNCATED", old)
    /\ Len(input) >= p => HeaderDecode(input).extension_present = flag

LEMMA BodyOfEncoded ==
    ASSUME NEW octets, NEW o, WellTyped(o), o.priority \in Nat, NEW flag \in {0, 1},
           NEW p \in 10 .. 17, Len(octets) \in Nat, p <= Len(octets),
           BodyInFront(octets, o, flag, p),
           NEW input, Len(input) \in Nat, Agrees(input, octets), NEW old
    PROVE  BodyRead(input, old, o, flag, p)
<1> DEFINE zeros == [k \in 1 .. 17 |-> 0]
           l == Len(input)
<1>1. PICK major \in {EXPERIMENTAL_MAJOR, STABLE_MAJOR} :
         LET memory == EncodeAtMajor(major, o, zeros, 17).memory
         IN  /\ EncodeAtMajor(major, o, zeros, 17).status = "OK"
             /\ p = Required(major, o)
             /\ major = STABLE_MAJOR /\ o.kind = "PRESENCE" => o.body.machine_class = 0
             /\ \A k \in 1 .. p : octets[k] = IF k = 2 THEN memory[k] + flag ELSE memory[k]
  BY DEF BodyInFront
<1> DEFINE memory == EncodeAtMajor(major, o, zeros, 17).memory
<1>2. /\ Carries(memory, major, o) /\ Required(major, o) \in 10 .. 17 /\ AllFit(major, o)
  <2> DEFINE n == 17
  <2>1. zeros \in [1 .. n -> 0 .. 255] /\ n \in Nat /\ n \in 0 .. n
    OBVIOUS
  <2>2. EncodeAtMajor(major, o, zeros, n).status = "OK"
    BY <1>1
  <2> HIDE DEF zeros, n
  <2>3. /\ Carries(EncodeAtMajor(major, o, zeros, n).memory, major, o)
        /\ Required(major, o) \in 10 .. 17 /\ AllFit(major, o)
    BY ONLY <2>1, <2>2, o.priority \in Nat, EncodeCarries
  <2> QED
    BY ONLY <2>3 DEF n
<1>3. o.kind \in Kind
  <2>1. Required(major, o) # 0
    BY ONLY <1>2
  <2> QED
    BY <2>1, RequiredType
<1>4. Sent(major, o) = o
  <2>1. Sent(major, o) = IF major = STABLE_MAJOR /\ o.kind = "PRESENCE" THEN WithoutClass(o) ELSE o
    BY <1>3, SentIs
  <2>2. ASSUME major = STABLE_MAJOR, o.kind = "PRESENCE"
        PROVE  WithoutClass(o) = o
    <3>1. o.body["machine_class"] = 0
      BY <1>1, <2>2
    <3>2. /\ o = [kind |-> o.kind, priority |-> o.priority, body |-> o.body]
          /\ o.body = [name \in Members(o.kind) |-> o.body[name]]
      BY <1>3 DEF WellTyped
    <3>3. [o.body EXCEPT !["machine_class"] = 0] = o.body
      <4> DEFINE f == o.body
                 M == Members(o.kind)
      <4>1. f = [name \in M |-> f[name]] /\ f["machine_class"] = 0
        BY <3>1, <3>2
      <4> HIDE DEF f, M
      <4>2. [f EXCEPT !["machine_class"] = 0] = f
        BY ONLY <4>1
      <4> QED
        BY <4>2 DEF f
    <3> QED
      BY <3>2, <3>3 DEF WithoutClass
  <2> QED
    BY <2>1, <2>2
<1> HIDE DEF memory, zeros
<1>5. /\ l >= 1 => input[1] = memory[1]
      /\ l >= 2 => input[2] = memory[2] + flag
      /\ \A k \in 3 .. p : k <= l => input[k] = memory[k]
  <2>1. \A k \in 1 .. p : k <= l => input[k] = IF k = 2 THEN memory[k] + flag ELSE memory[k]
    <3>1. ASSUME NEW k \in 1 .. p, k <= l
          PROVE  input[k] = IF k = 2 THEN memory[k] + flag ELSE memory[k]
      <4>1. k \in 1 .. l /\ k <= Len(octets)
        BY <3>1
      <4>2. input[k] = octets[k]
        BY <4>1 DEF Agrees
      <4> QED
        BY <1>1, <4>2 DEF memory
    <3> QED
      BY <3>1
  <2>2. 1 \in 1 .. p /\ 2 \in 1 .. p /\ \A k \in 3 .. p : k \in 1 .. p /\ k # 2
    OBVIOUS
  <2> QED
    BY <2>1, <2>2
<1>6. /\ Received("decode_body", input, old) =
            IF l >= Required(major, o)
            THEN [status |-> "OK", object |-> Sent(major, o), consumed |-> Required(major, o)]
            ELSE Undecoded("TRUNCATED", old)
      /\ l >= 2 => HeaderDecode(input).extension_present = flag
  <2>1. /\ l >= 1 => input[1] = memory[1]
        /\ l >= 2 => input[2] = memory[2] + flag
        /\ \A k \in 3 .. Required(major, o) : k <= l => input[k] = memory[k]
        /\ flag = 1 => "decode_body" # "decode"
    BY SMTT(30), <1>1, <1>5
  <2> QED
    BY SMTT(30), <1>2, <2>1, DecodeFlagged
<1>7. Received("decode_body", input, old) = DecodeBody(input, old)
  BY DEF Received
<1>8. l >= p => l >= 2
  OBVIOUS
<1> QED
  BY <1>1, <1>4, <1>6, <1>7, <1>8 DEF BodyRead

\* A length that has not arrived whole is waited for.
LEMMA CutShort ==
    ASSUME NEW v \in Word, Len(UvarintEncode(v)) \in {1, 2},
           NEW input \in Seq(Octet), NEW at \in 0 .. Len(input),
           Len(input) < at + Len(UvarintEncode(v)),
           \A k \in 1 .. Len(UvarintEncode(v)) :
              at + k <= Len(input) => input[at + k] = UvarintEncode(v)[k]
    PROVE  UvarintDecode(input, at) = Refused("TRUNCATED")
<1> DEFINE u == UvarintEncode(v)
           n == Len(u)
           size == Len(input) - at
<1>1. n \in {1, 2} /\ at \in Nat /\ Len(input) \in Nat /\ size \in {0, 1} /\ size < n
  <2> HIDE DEF u
  <2>1. n \in 1 .. 2 /\ Len(input) < at + n
    BY DEF u
  <2> HIDE DEF n
  <2> QED
    BY <2>1
<1>2. ASSUME NEW i \in 1 .. MaxGroups, at + i <= Len(input)
      PROVE  ~Halts(input, at, i)
  <2>1. i = 1 /\ n = 2
    <3> HIDE DEF n
    <3> QED
      BY <1>1, <1>2 DEF MaxGroups
  <2>2. UvarintGroups(v) = 2
    BY <2>1, SizeIsLength
  <2>3. u[1] = (ShiftedOut(v, 1) % Group) + Group
    <3>1. \A k \in 1 .. UvarintGroups(v) :
             u[k] = (ShiftedOut(v, UvarintGroups(v) - k) % Group)
                        + (IF k < UvarintGroups(v) THEN Group ELSE 0)
      BY EncodedOctets
    <3>2. 1 \in 1 .. UvarintGroups(v) /\ UvarintGroups(v) - 1 = 1
      BY <2>2
    <3> HIDE DEF u
    <3> QED
      BY <2>2, <3>1, <3>2
  <2>4. More(input[at + 1])
    <3>1. 1 \in 1 .. n
      BY <2>1
    <3>2. input[at + 1] = u[1]
      BY <1>2, <2>1, <3>1
    <3>3. ShiftedOut(v, 1) % Group \in Nat
      <4>1. ShiftedOut(v, 1) = v \div Group
        BY DEF ShiftedOut
      <4>2. v \in Nat /\ Group \in Nat /\ Group > 1
        BY UvarintAssumption DEF Word
      <4>3. v \div Group \in Nat
        BY <4>2, Division
      <4>4. (v \div Group) % Group \in 0 .. Group - 1
        BY <4>3, Division
      <4> QED
        BY <4>1, <4>2, <4>4
    <3> HIDE DEF u
    <3> QED
      BY <2>3, <3>2, <3>3, UvarintAssumption DEF More
  <2>5. ~Overflows(input, at, 1)
    <3>1. Accumulated(input, at, 0) = 0 /\ 1 - 1 = 0
      BY AccumulatedSteps
    <3>2. WordMax \div Group \in Nat
      BY UvarintAssumption
    <3> QED
      BY <3>1, <3>2 DEF Overflows
  <2> QED
    BY <2>1, <2>4, <2>5 DEF Halts
<1>3. UvarintDecode(input, at) = Refused(OutOfOctets(size))
  <2>1. \A i \in 1 .. MaxGroups : ~FirstHalt(input, at, i)
    BY <1>2 DEF FirstHalt
  <2> QED
    BY <1>1, <2>1, DecodeWaysOut
<1>4. OutOfOctets(size) = "TRUNCATED"
  BY <1>1 DEF OutOfOctets, MaxGroups
<1> QED
  BY <1>3, <1>4

\* The length of the block is read from its last octet on, and the block is there
\* with the last octet of the object.
LengthRead(input, list, p) ==
    UvarintDecode(input, p) =
        IF Len(input) >= p + Len(LengthOf(list))
        THEN [status |-> "OK", value |-> Len(Elements(list)), used |-> Len(LengthOf(list))]
        ELSE Refused("TRUNCATED")

BlockThere(input, octets, list, p) ==
    Len(octets) <= Len(input) =>
       SubSeq(input, p + Len(LengthOf(list)) + 1, p + Len(LengthOf(list)) + Len(Elements(list)))
          = Elements(list)

LEMMA BlockOfEncoded ==
    ASSUME NEW octets \in Seq(Octet), NEW list, Elements(list) \in Seq(Octet), NEW p \in Nat,
           BlockBehind(octets, list, p),
           NEW input \in Seq(Octet), Agrees(input, octets), p <= Len(input)
    PROVE  LengthRead(input, list, p) /\ BlockThere(input, octets, list, p)
<1> DEFINE v == Len(Elements(list))
           u == LengthOf(list)
           all == Elements(list)
           n == Len(u)
           l == Len(input)
<1>1. /\ v \in Word /\ v \in Nat /\ u = UvarintEncode(v) /\ n \in {1, 2} /\ l \in Nat /\ n \in Nat
      /\ Len(octets) = p + n + v /\ p \in 0 .. l /\ all \in Seq(Octet)
  BY DEF BlockBehind, LengthOf
<1>2. /\ \A k \in 1 .. n : octets[p + k] = u[k]
      /\ \A k \in 1 .. v : octets[p + n + k] = all[k]
  BY DEF BlockBehind
<1>3. \A j \in 1 .. l : j <= Len(octets) => input[j] = octets[j]
  BY DEF Agrees
<1> HIDE DEF u, n, l
<1>4. \A k \in 1 .. n : p + k <= l => input[p + k] = u[k]
  <2> SUFFICES ASSUME NEW k \in 1 .. n, p + k <= l PROVE input[p + k] = u[k]
    OBVIOUS
  <2>1. p + k \in 1 .. l /\ p + k <= Len(octets)
    BY <1>1
  <2> QED
    BY <1>2, <1>3, <2>1
<1>5. CASE l >= p + n
  <2>1. p + n <= Len(input) /\ \A k \in 1 .. n : input[p + k] = u[k]
    <3>1. \A k \in 1 .. n : p + k <= l
      BY <1>1, <1>5
    <3> QED
      BY <1>4, <1>5, <3>1 DEF l
  <2>2. UvarintDecode(input, p) = [status |-> "OK", value |-> v, used |-> Len(UvarintEncode(v))]
    <3>1. p + Len(UvarintEncode(v)) <= Len(input)
      BY <1>1, <2>1 DEF n
    <3>2. \A k \in 1 .. Len(UvarintEncode(v)) : input[p + k] = UvarintEncode(v)[k]
      BY <1>1, <2>1 DEF n
    <3> HIDE DEF v
    <3> QED
      BY <1>1, <3>1, <3>2, EncodingIsDecoded
  <2> QED
    <3>1. LengthRead(input, list, p)
      BY <1>1, <1>5, <2>2 DEF LengthRead, l, n, u
    <3>2. ASSUME Len(octets) <= l
          PROVE  SubSeq(input, p + n + 1, p + n + v) = all
      <4> DEFINE a == p + n
                 w == SubSeq(input, a + 1, a + v)
      <4>1. a \in Nat /\ a + v <= l /\ \A k \in 1 .. v : octets[a + k] = all[k]
        BY <1>1, <1>2, <3>2
      <4> HIDE DEF a, all, v
      <4>2. \A k \in 1 .. v : a + k \in 1 .. l /\ a + k <= Len(octets)
        BY <1>1, <3>2, <4>1 DEF a
      <4>3. \A k \in 1 .. v : input[a + k] = all[k]
        BY <1>3, <4>1, <4>2
      <4>4. w \in Seq(Octet) /\ Len(w) = v /\ \A k \in 1 .. v : w[k] = input[a + k]
        BY ONLY input \in Seq(Octet), <1>1, <4>1, WindowIs DEF l
      <4> HIDE DEF w
      <4>5. \A k \in 1 .. v : w[k] = all[k]
        BY <4>3, <4>4
      <4>6. Len(all) = v
        BY DEF all, v
      <4>7. w = all
        BY <1>1, <4>4, <4>5, <4>6, SeqEqual
      <4> QED
        BY <4>7 DEF w, a
    <3> QED
      BY <3>1, <3>2 DEF BlockThere, l, n, u
<1>6. CASE ~(l >= p + n)
  <2>1. UvarintDecode(input, p) = Refused("TRUNCATED")
    <3>1. /\ p \in 0 .. Len(input) /\ Len(input) < p + Len(UvarintEncode(v))
          /\ Len(UvarintEncode(v)) \in {1, 2}
      BY <1>1, <1>6 DEF l, n
    <3>2. \A k \in 1 .. Len(UvarintEncode(v)) :
             p + k <= Len(input) => input[p + k] = UvarintEncode(v)[k]
      BY <1>1, <1>4 DEF l, n
    <3> HIDE DEF v
    <3> QED
      BY <1>1, <3>1, <3>2, CutShort
  <2>2. ~(Len(octets) <= l)
    BY <1>1, <1>6
  <2> QED
    BY <1>6, <2>1, <2>2 DEF LengthRead, BlockThere, l, n, u
<1> QED
  BY <1>5, <1>6

-----------------------------------------------------------------------------
\* A call on a buffer that starts with an object of the encoder, or with a part of it.
Due(octets, o, list) ==
    /\ octets \in Seq(Octet) /\ WellTyped(o) /\ o.priority \in Nat
    /\ DueStands(octets, o, list) /\ ListStands(list)

Understands(list) ==
    \A n \in DOMAIN list : list[n].critical = 1 => list[n].id \in Understood

BlockStart(octets, list) == Len(octets) - Len(Elements(list))

\* What a success leaves behind.
Taken(octets, o, list) ==
    /\ Understands(list)
    /\ object = o /\ consumed = Len(octets)
    /\ reader = ReaderOn(BlockStart(octets, list), Len(Elements(list)))

\* How the call ends: it waits for what is missing, and never for more; it refuses
\* what is not understood, and nothing else.
Answered(octets, o, list) ==
    \/ status = "TRUNCATED" /\ Len(data) < Len(octets)
    \/ status = "UNSUPPORTED_SEMANTIC" /\ Len(octets) <= Len(data) /\ ~Understands(list)
    \/ status = "OK" /\ Len(octets) <= Len(data) /\ Taken(octets, o, list)

\* In the scan the object is there whole, the extensions read are the first of the
\* list, and those the accept function was asked about are understood.
Reading(octets, o, list) ==
    /\ list # <<>> /\ Len(octets) <= Len(data) /\ object = o
    /\ base = BlockStart(octets, list) /\ block = Elements(list)
    /\ Len(scanned) <= Len(list) /\ scan.offset = Reached(list, Len(scanned))
    /\ \A n \in 1 .. Len(scanned) :
          scanned[n].id = list[n].id /\ scanned[n].critical = list[n].critical
    /\ \A n \in 1 .. Examined : list[n].critical = 1 => list[n].id \in Understood

CallStands(octets, o, list) ==
    IF pc = "idle" THEN Answered(octets, o, list) ELSE Reading(octets, o, list)

LEMMA EnterStands ==
    ASSUME NEW octets, NEW o, NEW list, Due(octets, o, list),
           NEW input \in Seq(Octet), Agrees(input, octets), Enter(input, TRUE)
    PROVE  CallStands(octets, o, list)'
<1> DEFINE p == BodySize(octets, list)
           flag == IF list = <<>> THEN 0 ELSE 1
           body == DecodeBody(input, object)
           length == UvarintDecode(input, p)
           all == Elements(list)
           v == Len(all)
           n == Len(LengthOf(list))
           l == Len(input)
<1>1. /\ octets \in Seq(Octet) /\ Len(octets) \in Nat /\ l \in Nat
      /\ p \in 10 .. 17 /\ p \in Nat /\ p <= Len(octets) /\ BodyInFront(octets, o, flag, p)
      /\ list # <<>> => BlockBehind(octets, list, p)
      /\ ListStands(list) /\ flag \in {0, 1} /\ WellTyped(o) /\ o.priority \in Nat
  <2>1. octets \in Seq(Octet) /\ ListStands(list) /\ DueStands(octets, o, list)
    BY DEF Due
  <2>2. p \in 10 .. 17 /\ p <= Len(octets) /\ BodyInFront(octets, o, flag, p)
    BY <2>1 DEF DueStands
  <2>3. list # <<>> => BlockBehind(octets, list, p)
    BY <2>1 DEF DueStands
  <2> HIDE DEF p
  <2>4. p \in Nat
    BY <2>2
  <2> QED
    BY <2>1, <2>2, <2>3, <2>4 DEF Due
<1> HIDE DEF p, flag
<1>2. BodyRead(input, object, o, flag, p)
  BY <1>1, BodyOfEncoded
<1>3. /\ data' = input /\ object' = body.object
      /\ scan' = Scan!ReaderInit /\ scanned' = <<>>
      /\ \/ body.status # "OK" /\ RefuseAtOnce(body.status)
         \/ /\ body.status = "OK" /\ HeaderDecode(input).extension_present = 0
            /\ ReturnPlain(input, body.consumed)
         \/ /\ body.status = "OK" /\ HeaderDecode(input).extension_present = 1
            /\ StartScan(input, body.consumed, UvarintDecode(input, body.consumed))
  BY DEF Enter
<1> HIDE DEF l
<1>4. ASSUME RefuseAtOnce("TRUNCATED"), l < Len(octets)
      PROVE  CallStands(octets, o, list)'
  BY <1>3, <1>4 DEF RefuseAtOnce, CallStands, Answered, l
<1>5. CASE l < p
  <2>1. body.status = "TRUNCATED"
    <3>1. ~(Len(input) >= p)
      BY <1>1, <1>5 DEF l
    <3> QED
      BY <1>2, <3>1 DEF BodyRead, Undecoded
  <2>2. l < Len(octets)
    BY <1>1, <1>5
  <2> QED
    BY <1>3, <1>4, <2>1, <2>2
<1>6. CASE ~(l < p)
  <2>1. /\ body = [status |-> "OK", object |-> o, consumed |-> p]
        /\ HeaderDecode(input).extension_present = flag
    <3>1. Len(input) >= p
      BY <1>1, <1>6 DEF l
    <3> QED
      BY <1>2, <3>1 DEF BodyRead
  <2>2. /\ body.status = "OK" /\ body.object = o /\ body.consumed = p
    BY <2>1
  <2> HIDE DEF body
  <2>3. CASE list = <<>>
    <3>1. ReturnPlain(input, p) /\ object' = o
      BY <1>3, <2>1, <2>2, <2>3 DEF flag
    <3>2. p = Len(octets) /\ all = <<>> /\ v = 0 /\ Understands(list)
      BY <1>1, <2>3 DEF p, BodySize, ListStands, Understands
    <3>3. /\ pc' = "idle" /\ status' = "OK"
          /\ reader' = ReaderOn(Len(octets), 0) /\ consumed' = Len(octets)
      BY <1>1, <3>1, <3>2 DEF ReturnPlain, Release
    <3>4. BlockStart(octets, list) = Len(octets)
      BY <1>1, <3>2 DEF BlockStart
    <3>5. Len(octets) <= Len(data')
      BY <1>1, <1>3, <1>6, <3>2 DEF l
    <3> QED
      BY <3>1, <3>2, <3>3, <3>4, <3>5 DEF CallStands, Answered, Taken
  <2>4. CASE list # <<>>
    <3>1. StartScan(input, p, length) /\ object' = o
      BY <1>3, <2>1, <2>2, <2>4 DEF flag
    <3>2. LengthRead(input, list, p) /\ BlockThere(input, octets, list, p)
      <4>1. all \in Seq(Octet) /\ BlockBehind(octets, list, p) /\ p <= Len(input)
        BY <1>1, <1>6, <2>4 DEF ListStands, l
      <4> QED
        BY <1>1, <4>1, BlockOfEncoded
    <3>3. /\ v \in 1 .. BlockMax /\ n \in Nat /\ Len(octets) = p + n + v /\ v \in Nat
      BY <1>1, <2>4 DEF BlockBehind
    <3>4. CASE l < p + n
      <4>1. length = Refused("TRUNCATED")
        <5>1. ~(Len(input) >= p + n)
          BY <1>1, <3>3, <3>4 DEF l
        <5> QED
          BY <3>2, <5>1 DEF LengthRead
      <4>2. length.status = "TRUNCATED"
        BY <4>1 DEF Refused
      <4> HIDE DEF length
      <4>3. RefuseAtOnce("TRUNCATED")
        BY <3>1, <4>2 DEF StartScan
      <4>4. l < Len(octets)
        <5> HIDE DEF n, v
        <5> QED
          BY <1>1, <3>3, <3>4
      <4> QED
        BY <1>4, <4>3, <4>4
    <3>5. CASE ~(l < p + n)
      <4>1. length = [status |-> "OK", value |-> v, used |-> n]
        <5>1. Len(input) >= p + n
          BY <1>1, <3>3, <3>5 DEF l
        <5> QED
          BY <3>2, <5>1 DEF LengthRead
      <4>2. length.status = "OK" /\ length.value = v /\ length.used = n
        BY <4>1
      <4> HIDE DEF length, n, v
      <4>3. \/ v > Len(input) - (p + n) /\ RefuseAtOnce("TRUNCATED")
            \/ /\ v <= Len(input) - (p + n) /\ pc' = "scan" /\ base' = p + n
               /\ block' = SubSeq(input, p + n + 1, p + n + v)
        <5>1. ~EmptyBlock(length) /\ ~OversizeBlock(length)
          BY <3>3, <4>2, DecodeExtAssumption DEF EmptyBlock, OversizeBlock
        <5> QED
          BY <3>1, <4>2, <5>1 DEF StartScan
      <4>4. CASE v > Len(input) - (p + n) /\ RefuseAtOnce("TRUNCATED")
        <5>1. l < Len(octets)
          BY <1>1, <3>3, <4>4 DEF l
        <5> QED
          BY <1>4, <4>4, <5>1
      <4>5. CASE /\ v <= Len(input) - (p + n) /\ pc' = "scan" /\ base' = p + n
                 /\ block' = SubSeq(input, p + n + 1, p + n + v)
        <5>1. Len(octets) <= Len(input) /\ p + n = Len(octets) - v
          BY <1>1, <3>3, <4>5 DEF l
        <5>2. block' = all
          BY <3>2, <4>5, <5>1 DEF BlockThere, n, v
        <5>3. Len(scanned') = 0 /\ scan'.offset = 0 /\ Reached(list, 0) = 0 /\ 0 <= Len(list)
          <6>1. Len(list) \in Nat
            BY <1>1 DEF ListStands
          <6> QED
            BY <1>1, <1>3, <6>1 DEF ListStands, Scan!ReaderInit
        <5>4. Examined' = 0
          BY <4>5, <5>3 DEF Examined
        <5>5. base' = BlockStart(octets, list)
          BY <4>5, <5>1 DEF BlockStart, v
        <5>6. \A k \in 1 .. 0 : FALSE
          OBVIOUS
        <5>7. Reading(octets, o, list)'
          BY <1>3, <2>4, <3>1, <5>1, <5>2, <5>3, <5>4, <5>5, <5>6 DEF Reading
        <5> QED
          BY <4>5, <5>7 DEF CallStands
      <4> QED
        BY <4>3, <4>4, <4>5
    <3> QED
      BY <3>4, <3>5
  <2> QED
    BY <2>3, <2>4
<1> QED
  BY <1>5, <1>6

\* The scan reads the next extension of the list, and fails at none.
LEMMA ScanOfList ==
    ASSUME CallInv, NEW octets, NEW o, NEW list, ListStands(list), Reading(octets, o, list),
           NEW e, Len(scanned) < Len(list), e = list[Len(scanned) + 1]
    PROVE  /\ ~Scan!AtEnd /\ Scan!Key.status = "OK" /\ Scan!IdIsNext
           /\ Scan!ValueSize.status = "OK" /\ Scan!ValueFits
           /\ Scan!Found.id = e.id /\ Scan!Found.critical = e.critical
           /\ Scan!AfterSize + Scan!ValueSize.value = Reached(list, Len(scanned) + 1)
<1> DEFINE k == Len(scanned)
           at == Reached(list, k)
           end == Reached(list, k + 1)
           all == Elements(list)
           key == UvarintDecode(all, at)
           size == UvarintDecode(all, at + key.used)
<1>1. /\ scan \in Scan!Reader /\ scan.offset = at /\ block = all /\ k \in Nat
      /\ scanned \in Seq(Scan!Extension)
      /\ scan.has_previous <=> scanned # <<>>
      /\ scanned # <<>> => scan.previous_id = scanned[k].id
      /\ all \in Seq(Octet) /\ Len(all) \in Nat
  BY DEF CallInv, CallTypes, ScanInOrder, Reading, ListStands
<1>2. /\ k + 1 \in 1 .. Len(list) /\ (k + 1) - 1 = k /\ Len(list) \in Nat
      /\ k # 0 => k \in 1 .. Len(list)
  BY <1>1 DEF ListStands
<1>3. /\ Writable(e) /\ at \in Nat /\ end \in Nat /\ at < end /\ end <= Len(all)
      /\ ReadAt(all, at, e, end)
  BY <1>2 DEF ListStands
<1>4. /\ key.status = "OK" /\ key.value = KeyOf(e)
      /\ size.status = "OK" /\ size.value = Len(e.value)
      /\ key.used \in Nat /\ size.used \in Nat
      /\ at + key.used + size.used + Len(e.value) = end
  BY <1>3 DEF ReadAt, ReadAs
<1>5. /\ e.id \in Nat /\ e.id # 0 /\ e.critical \in {0, 1} /\ Len(e.value) \in Nat
      /\ KeyOf(e) \div 2 = e.id /\ KeyOf(e) % 2 = e.critical
  <2>1. e.id \in Nat /\ e.id # 0 /\ e.critical \in {0, 1} /\ e.value \in Seq(Octet)
    BY <1>3 DEF Writable
  <2> DEFINE a == e.id
             b == e.critical
  <2>2. a \in Nat /\ b \in 0 .. 1
    BY <2>1
  <2> HIDE DEF a, b
  <2>3. (2 * a + b) \div 2 = a /\ (2 * a + b) % 2 = b
    BY <2>2
  <2> QED
    BY <2>1, <2>3 DEF KeyOf, a, b
<1> HIDE DEF k, at, end, all, size
<1>6. Scan!Key = key
  <2>1. scan.offset \in 0 .. Len(block)
    BY <1>1, <1>3
  <2> QED
    BY <1>1, <2>1, OneDecoder DEF Scan!Key, Scan!NumberAt
<1>7. Scan!AfterKey = at + key.used /\ Scan!AfterKey \in 0 .. Len(all)
  <2> HIDE DEF key
  <2>1. Scan!AfterKey = at + key.used
    BY <1>1, <1>6 DEF Scan!AfterKey
  <2> DEFINE a == key.used
             b == size.used
             c == Len(e.value)
             l == Len(all)
  <2>2. a \in Nat /\ b \in Nat /\ c \in Nat /\ at + a + b + c = end /\ end <= l /\ at \in Nat
        /\ l \in Nat
    BY <1>1, <1>3, <1>4, <1>5
  <2> HIDE DEF a, b, c, l
  <2>3. at + a \in 0 .. l
    BY ONLY <2>2
  <2> QED
    BY <2>1, <2>3 DEF a, l
<1>8. Scan!ValueSize = size
  BY <1>1, <1>7, OneDecoder DEF Scan!ValueSize, Scan!NumberAt, size
<1> HIDE DEF key
<1>9. Scan!AfterSize = at + key.used + size.used
  BY <1>7, <1>8 DEF Scan!AfterSize
<1>10. Scan!AfterSize + Len(e.value) = end /\ Scan!AfterSize \in Nat
  BY SMTT(30), <1>3, <1>4, <1>9
<1>11. ~Scan!AtEnd
  BY <1>1, <1>3 DEF Scan!AtEnd
<1>12. Scan!IdIsNext
  <2>1. Scan!IdOf(Scan!Key.value) = e.id
    BY <1>4, <1>5, <1>6 DEF Scan!IdOf
  <2>2. ASSUME scan.has_previous PROVE e.id > scan.previous_id
    <3>1. scanned # <<>> /\ k # 0
      BY <1>1, <2>2 DEF k
    <3>2. k \in 1 .. Len(list) /\ k < k + 1 /\ k \in 1 .. k
      BY <1>1, <1>2, <3>1
    <3>3. list[k].id < e.id
      BY <1>2, <3>2 DEF ListStands, k
    <3>4. scan.previous_id = list[k].id
      BY <1>1, <3>1, <3>2 DEF Reading, k
    <3>5. list[k].id \in Nat
      BY <3>2 DEF ListStands, Writable
    <3> QED
      BY <1>5, <3>3, <3>4, <3>5
  <2> QED
    BY <1>5, <2>1, <2>2 DEF Scan!IdIsNext
<1>13. Scan!ValueFits
  BY <1>1, <1>3, <1>4, <1>5, <1>8, <1>10 DEF Scan!ValueFits
<1>14. Scan!Found.id = e.id /\ Scan!Found.critical = e.critical
  BY <1>4, <1>5, <1>6 DEF Scan!Found, Scan!IdOf, Scan!CriticalOf
<1> QED
  BY <1>4, <1>6, <1>8, <1>10, <1>11, <1>12, <1>13, <1>14 DEF k, end

LEMMA ScanStands ==
    ASSUME CallInv, NEW octets, NEW o, NEW list, Due(octets, o, list),
           CallStands(octets, o, list), pc = "scan", InCall
    PROVE  CallStands(octets, o, list)'
<1> DEFINE k == Len(scanned)
           m == Len(list)
           e == list[k + 1]
<1>1. /\ ListStands(list) /\ Reading(octets, o, list) /\ m \in Nat
      /\ k \in Nat /\ k <= m /\ scanned \in Seq(Scan!Extension) /\ k = Len(scanned)
  BY DEF Due, CallStands, ListStands, Reading, CallInv, CallTypes
<1>2. /\ Examined = k
      /\ \A n \in 1 .. k : list[n].critical = 1 => list[n].id \in Understood
  BY <1>1 DEF Examined, Reading
<1>3. ScanFails \/ ScanReads \/ ScanEnds
  BY DEF InCall, Accept, Refuse
<1>4. CASE k < m
  <2>1. /\ ~Scan!AtEnd /\ Scan!Key.status = "OK" /\ Scan!IdIsNext
        /\ Scan!ValueSize.status = "OK" /\ Scan!ValueFits
        /\ Scan!Found.id = e.id /\ Scan!Found.critical = e.critical
        /\ Scan!AfterSize + Scan!ValueSize.value = Reached(list, k + 1)
    BY <1>1, <1>4, ScanOfList
  <2>2. ScanReads
    BY <1>3, <2>1 DEF ScanFails, ScanEnds, Scan!FailInKey, Scan!FailOnId, Scan!FailInSize,
                      Scan!FailOnValue, Scan!Finish
  <2> DEFINE f == Scan!Found
  <2>3. /\ UNCHANGED <<data, base, block, object>>
        /\ scanned' = Append(scanned, f) /\ extension' = f
        /\ scan'.offset = Reached(list, k + 1)
        /\ pc' = IF f.critical # 0 THEN "ask" ELSE "scan"
    BY <2>1, <2>2 DEF ScanReads, callFrame, Scan!Yield
  <2>4. Len(scanned') = k + 1 /\ scanned'[k + 1] = f /\ \A n \in 1 .. k : scanned'[n] = scanned[n]
    <3>1. Len(Append(scanned, f)) = k + 1 /\ Append(scanned, f)[k + 1] = f
      BY <1>1
    <3>2. \A n \in 1 .. k : Append(scanned, f)[n] = scanned[n]
      BY <1>1
    <3> QED
      BY <2>3, <3>1, <3>2
  <2> HIDE DEF f
  <2>5. ASSUME NEW n \in 1 .. k + 1
        PROVE  scanned'[n].id = list[n].id /\ scanned'[n].critical = list[n].critical
    <3>1. CASE n = k + 1
      BY <2>1, <2>4, <3>1 DEF f
    <3>2. CASE n \in 1 .. k
      BY <2>4, <3>2 DEF Reading, CallStands
    <3> QED
      BY <1>1, <3>1, <3>2
  <2>6. ASSUME NEW n \in 1 .. Examined', list[n].critical = 1 PROVE list[n].id \in Understood
    <3>1. CASE n \in 1 .. k
      BY <1>2, <2>6, <3>1
    <3>2. CASE n \notin 1 .. k
      <4>1. pc' # "ask"
        BY <1>1, <2>4, <3>2 DEF Examined
      <4>2. n = k + 1
        BY <1>1, <2>4, <3>2, <4>1 DEF Examined
      <4>3. e.critical # 0
        BY <2>6, <4>2
      <4> QED
        BY <2>1, <2>3, <4>1, <4>3 DEF f
    <3> QED
      BY <3>1, <3>2
  <2>7. k + 1 <= m
    BY <1>1, <1>4
  <2>8. Reading(octets, o, list)'
    BY <1>1, <2>3, <2>4, <2>5, <2>6, <2>7 DEF Reading, BlockStart
  <2> QED
    BY <2>3, <2>8 DEF CallStands
<1>5. CASE k = m
  <2>1. Scan!AtEnd
    BY <1>1, <1>5 DEF Reading, ListStands, Scan!AtEnd
  <2>2. ScanEnds
    BY <1>3, <2>1 DEF ScanFails, ScanReads, Scan!FailInKey, Scan!FailOnId, Scan!FailInSize,
                      Scan!FailOnValue, Scan!Yield
  <2>3. Understands(list)
    BY <1>1, <1>2, <1>5 DEF Understands, ListStands
  <2>4. /\ pc' = "idle" /\ status' = "OK" /\ object' = o /\ data' = data
        /\ reader' = ReaderOn(base, Len(block)) /\ consumed' = base + Len(block)
    BY <1>1, <2>2 DEF ScanEnds, callFrame, Scan!Finish, Release, Reading
  <2>5. /\ base = BlockStart(octets, list) /\ block = Elements(list)
        /\ base + Len(block) = Len(octets) /\ Len(octets) <= Len(data)
    <3>1. Len(octets) \in Nat /\ Len(Elements(list)) \in Nat
      BY DEF Due, ListStands
    <3> QED
      BY <1>1, <3>1 DEF Reading, BlockStart
  <2> QED
    BY <2>3, <2>4, <2>5 DEF CallStands, Answered, Taken
<1> QED
  BY <1>1, <1>4, <1>5

LEMMA AskStands ==
    ASSUME CallInv, NEW octets, NEW o, NEW list, Due(octets, o, list),
           CallStands(octets, o, list), pc = "ask", InCall
    PROVE  CallStands(octets, o, list)'
<1> DEFINE k == Len(scanned)
<1>1. /\ ListStands(list) /\ Reading(octets, o, list)
      /\ k \in Nat /\ k # 0 /\ k <= Len(list) /\ Len(list) \in Nat
      /\ extension = scanned[k] /\ extension.critical = 1 /\ Examined = k - 1
  BY DEF Due, CallStands, ListStands, Reading, CallInv, CallTypes, AskedAreCriticals, Examined
<1>2. k \in 1 .. k /\ k \in DOMAIN list
  BY <1>1 DEF ListStands
<1>3. list[k].critical = 1 /\ extension.id = list[k].id
  BY <1>1, <1>2 DEF Reading
<1>4. CASE Accept /\ extension.id \in Understood
  <2>1. pc' = "scan" /\ UNCHANGED <<data, base, block, object, scan, scanned>>
    BY <1>4 DEF Accept, callFrame, scanVars
  <2>2. Examined' = k
    BY <2>1 DEF Examined
  <2>3. ASSUME NEW n \in 1 .. k, list[n].critical = 1 PROVE list[n].id \in Understood
    <3>1. n \in 1 .. k - 1 \/ n = k
      BY <1>1
    <3> QED
      BY <1>1, <1>3, <1>4, <2>3, <3>1 DEF Reading
  <2>4. Reading(octets, o, list)'
    BY <1>1, <2>1, <2>2, <2>3 DEF Reading, BlockStart
  <2> QED
    BY <2>1, <2>4 DEF CallStands
<1>5. CASE Refuse /\ extension.id \notin Understood
  <2>1. pc' = "idle" /\ status' = "UNSUPPORTED_SEMANTIC" /\ data' = data
    BY <1>5 DEF Refuse, callFrame
  <2>2. ~Understands(list)
    BY <1>2, <1>3, <1>5 DEF Understands
  <2>3. Len(octets) <= Len(data)
    BY <1>1 DEF Reading
  <2> QED
    BY <2>1, <2>2, <2>3 DEF CallStands, Answered
<1> QED
  BY <1>4, <1>5 DEF InCall, ScanFails, ScanReads, ScanEnds

LEMMA InCallStands ==
    ASSUME CallInv, NEW octets, NEW o, NEW list, Due(octets, o, list),
           CallStands(octets, o, list), InCall
    PROVE  CallStands(octets, o, list)'
<1>1. pc = "scan" \/ pc = "ask"
  BY DEF InCall, ScanFails, ScanReads, ScanEnds, Accept, Refuse
<1> QED
  BY <1>1, ScanStands, AskStands

-----------------------------------------------------------------------------
\* The walk decodes as the call did: its reader is another instance.
LEMMA WalkDecoder ==
    ASSUME NEW octets, NEW at
    PROVE  Walk!UvarintDecode(octets, at) = UvarintDecode(octets, at)
<1>0. \A S : Walk!Cardinality(S) = Cardinality(S)
  BY DEF Walk!Cardinality, Cardinality
<1>1. \A value, k : Walk!ShiftedOut(value, k) = ShiftedOut(value, k)
  BY DEF Walk!ShiftedOut, ShiftedOut
<1>2. \A value : Walk!UvarintSize(value) = UvarintSize(value)
  BY <1>0, <1>1 DEF Walk!UvarintSize, UvarintSize, Walk!MaxGroups, MaxGroups
<1>3. \A acc, octet : Walk!ShiftedIn(acc, octet) = ShiftedIn(acc, octet)
  BY DEF Walk!ShiftedIn, ShiftedIn, Walk!Payload, Payload
<1>4. \A n : Walk!Accumulated(octets, at, n) = Accumulated(octets, at, n)
  BY <1>3 DEF Walk!Accumulated, Accumulated
<1>5. \A n : Walk!Overflows(octets, at, n) = Overflows(octets, at, n)
  BY <1>4 DEF Walk!Overflows, Overflows
<1>6. \A n : Walk!Halts(octets, at, n) = Halts(octets, at, n)
  BY <1>5 DEF Walk!Halts, Halts, Walk!More, More
<1>7. \A size : Walk!OutOfOctets(size) = OutOfOctets(size)
  BY DEF Walk!OutOfOctets, OutOfOctets, Walk!MaxGroups, MaxGroups
<1>8. \A error : Walk!Refused(error) = Refused(error)
  BY DEF Walk!Refused, Refused
<1> DEFINE size == Len(octets) - at
           First(S) == CHOOSE i \in S : \A j \in S : i <= j
           here == {i \in 1 .. MaxGroups : i <= size /\ Halts(octets, at, i)}
           there == {i \in 1 .. MaxGroups : i <= size /\ Walk!Halts(octets, at, i)}
           outcomeHere == [i \in here |->
               LET value == Accumulated(octets, at, i)
               IN  IF Overflows(octets, at, i) THEN Refused("RANGE")
                   ELSE IF UvarintSize(value) # i THEN Refused("NONCANONICAL")
                   ELSE [status |-> "OK", value |-> value, used |-> i]]
           outcomeThere == [i \in there |->
               LET value == Walk!Accumulated(octets, at, i)
               IN  IF Walk!Overflows(octets, at, i) THEN Walk!Refused("RANGE")
                   ELSE IF Walk!UvarintSize(value) # i THEN Walk!Refused("NONCANONICAL")
                   ELSE [status |-> "OK", value |-> value, used |-> i]]
<1>9. UvarintDecode(octets, at) =
         IF here = {} THEN Refused(OutOfOctets(size)) ELSE outcomeHere[First(here)]
  BY DEF UvarintDecode
<1>10. Walk!UvarintDecode(octets, at) =
         IF there = {} THEN Walk!Refused(Walk!OutOfOctets(size))
         ELSE outcomeThere[First(there)]
  BY DEF Walk!UvarintDecode, Walk!MaxGroups, MaxGroups
<1>11. here = there
  BY <1>6
<1> HIDE DEF here, there, First
<1>12. outcomeHere = outcomeThere
  BY <1>2, <1>4, <1>5, <1>8, <1>11
<1> HIDE DEF outcomeHere, outcomeThere
<1> QED
  BY <1>7, <1>8, <1>9, <1>10, <1>11, <1>12

\* The receiver's reader is set on the block, which lies in its buffer whole.
Lent == SubSeq(buffer, reader.base + 1, reader.base + reader.size)

LEMMA BlockIsLent ==
    ASSUME NEW octets, NEW o, NEW list, Due(octets, o, list), Taken(octets, o, list),
           buffer \in Seq(Octet), Agrees(buffer, octets), Len(octets) <= Len(buffer)
    PROVE  /\ Lent = Elements(list)
           /\ reader.base \in Nat /\ reader.size = Len(Elements(list))
           /\ reader.base + reader.size = Len(octets) /\ reader.next = Scan!ReaderInit
<1> DEFINE all == Elements(list)
           v == Len(all)
           p == BodySize(octets, list)
           n == Len(LengthOf(list))
<1>1. /\ octets \in Seq(Octet) /\ Len(octets) \in Nat /\ all \in Seq(Octet) /\ v \in Nat
      /\ p \in Nat /\ p <= Len(octets)
      /\ list # <<>> => BlockBehind(octets, list, p)
      /\ list = <<>> => all = <<>> /\ v = 0
  <2>1. octets \in Seq(Octet) /\ DueStands(octets, o, list) /\ ListStands(list)
    BY DEF Due
  <2>2. p \in 10 .. 17 /\ p <= Len(octets) /\ (list # <<>> => BlockBehind(octets, list, p))
    BY <2>1 DEF DueStands
  <2> HIDE DEF p
  <2>3. p \in Nat
    BY <2>2
  <2> QED
    BY <2>1, <2>2, <2>3 DEF ListStands
<1> HIDE DEF p
<1>2. /\ reader.base = Len(octets) - v /\ reader.size = v /\ reader.next = Scan!ReaderInit
  BY DEF Taken, ReaderOn, BlockStart
<1>3. CASE list = <<>>
  <2> DEFINE a == Len(octets)
  <2>1. a + 0 < a + 1 /\ a + 1 \in Int /\ a + 0 \in Int
    BY <1>1
  <2>2. SubSeq(buffer, a + 1, a + 0) = <<>>
    BY <2>1, SubSeqEmpty
  <2>3. reader.base = a /\ reader.size = 0
    BY <1>1, <1>2, <1>3
  <2> QED
    BY <1>1, <1>2, <1>3, <2>2, <2>3 DEF Lent
<1>4. CASE list # <<>>
  <2>1. BlockBehind(octets, list, p) /\ p <= Len(buffer)
    BY <1>1, <1>4
  <2>2. BlockThere(buffer, octets, list, p)
    BY <1>1, <2>1, BlockOfEncoded
  <2>3. n \in Nat /\ Len(octets) = p + n + v
    BY <2>1 DEF BlockBehind
  <2>4. reader.base = p + n /\ reader.base \in Nat
    BY <1>1, <1>2, <2>3
  <2> QED
    BY <1>1, <1>2, <2>2, <2>3, <2>4 DEF Lent, BlockThere
<1> QED
  BY <1>3, <1>4

\* The walk has handed out the first of the list, and their values lie in the block.
Holds(all, found, e) ==
    /\ found.id = e.id /\ found.critical = e.critical
    /\ found.value \in Nat /\ found.value_size \in Nat
    /\ found.value + found.value_size <= Len(all)
    /\ SubSeq(all, found.value + 1, found.value + found.value_size) = e.value

Walked(list) ==
    /\ gathered \in Seq(Walk!Extension) /\ Len(gathered) <= Len(list)
    /\ walker.offset = Reached(list, Len(gathered))
    /\ walker.has_previous <=> gathered # <<>>
    /\ gathered # <<>> => walker.previous_id = list[Len(gathered)].id
    /\ \A n \in 1 .. Len(gathered) : Holds(Elements(list), gathered[n], list[n])

LEMMA WalkOfList ==
    ASSUME NEW list, ListStands(list), Lent = Elements(list), Walked(list),
           NEW e, Len(gathered) < Len(list), e = list[Len(gathered) + 1]
    PROVE  /\ ~Walk!AtEnd /\ Walk!Key.status = "OK" /\ Walk!IdIsNext
           /\ Walk!ValueSize.status = "OK" /\ Walk!ValueFits
           /\ Holds(Elements(list), Walk!Found, e)
           /\ Walk!Found \in Walk!Extension
           /\ Walk!AfterSize + Walk!ValueSize.value = Reached(list, Len(gathered) + 1)
<1> DEFINE k == Len(gathered)
           at == Reached(list, k)
           end == Reached(list, k + 1)
           all == Elements(list)
           key == UvarintDecode(all, at)
           size == UvarintDecode(all, at + key.used)
<1>1. /\ walker.offset = at /\ k \in Nat /\ all \in Seq(Octet) /\ Len(all) \in Nat /\ Lent = all
      /\ gathered \in Seq(Walk!Extension)
      /\ walker.has_previous <=> gathered # <<>>
      /\ gathered # <<>> => walker.previous_id = list[k].id
  BY DEF Walked, ListStands
<1>2. /\ k + 1 \in 1 .. Len(list) /\ (k + 1) - 1 = k /\ Len(list) \in Nat
      /\ k # 0 => k \in 1 .. Len(list)
  BY <1>1 DEF ListStands
<1>3. /\ Writable(e) /\ at \in Nat /\ end \in Nat /\ at < end /\ end <= Len(all)
      /\ ReadAt(all, at, e, end)
  BY <1>2 DEF ListStands
<1>4. /\ key.status = "OK" /\ key.value = KeyOf(e)
      /\ size.status = "OK" /\ size.value = Len(e.value)
      /\ key.used \in Nat /\ size.used \in Nat
      /\ at + key.used + size.used + Len(e.value) = end
      /\ SubSeq(all, at + key.used + size.used + 1, end) = e.value
  BY <1>3 DEF ReadAt, ReadAs
<1>5. /\ e.id \in Nat /\ e.id # 0 /\ e.critical \in {0, 1} /\ Len(e.value) \in Nat
      /\ KeyOf(e) \div 2 = e.id /\ KeyOf(e) % 2 = e.critical
  <2>1. e.id \in Nat /\ e.id # 0 /\ e.critical \in {0, 1} /\ e.value \in Seq(Octet)
    BY <1>3 DEF Writable
  <2> DEFINE a == e.id
             b == e.critical
  <2>2. a \in Nat /\ b \in 0 .. 1
    BY <2>1
  <2> HIDE DEF a, b
  <2>3. (2 * a + b) \div 2 = a /\ (2 * a + b) % 2 = b
    BY <2>2
  <2> QED
    BY <2>1, <2>3 DEF KeyOf, a, b
<1> HIDE DEF k, at, end, all, size
<1>6. Walk!Key = key
  <2>1. walker.offset \in 0 .. Len(Lent)
    BY <1>1, <1>3
  <2> QED
    BY <1>1, <2>1, WalkDecoder DEF Walk!Key, Walk!NumberAt, Lent
<1>7. Walk!AfterKey = at + key.used /\ Walk!AfterKey \in 0 .. Len(all)
  <2> HIDE DEF key
  <2>1. Walk!AfterKey = at + key.used
    BY <1>1, <1>6 DEF Walk!AfterKey
  <2> DEFINE a == key.used
             b == size.used
             c == Len(e.value)
             l == Len(all)
  <2>2. a \in Nat /\ b \in Nat /\ c \in Nat /\ at + a + b + c = end /\ end <= l /\ at \in Nat
        /\ l \in Nat
    BY <1>1, <1>3, <1>4, <1>5
  <2> HIDE DEF a, b, c, l
  <2>3. at + a \in 0 .. l
    BY ONLY <2>2
  <2> QED
    BY <2>1, <2>3 DEF a, l
<1>8. Walk!ValueSize = size
  BY <1>1, <1>7, WalkDecoder DEF Walk!ValueSize, Walk!NumberAt, Lent, size
<1> HIDE DEF key
<1>9. Walk!AfterSize = at + key.used + size.used
  BY <1>7, <1>8 DEF Walk!AfterSize
<1> DEFINE s == Walk!AfterSize
           c == Len(e.value)
<1>10. s + c = end /\ s \in Nat /\ c \in Nat
  <2> DEFINE u == key.used
             v == size.used
  <2>1. /\ at \in Nat /\ u \in Nat /\ v \in Nat /\ c \in Nat
        /\ at + u + v + c = end /\ s = at + u + v
    BY <1>3, <1>4, <1>5, <1>9
  <2> HIDE DEF u, v, s, c
  <2> QED
    BY ONLY <2>1
<1>11. ~Walk!AtEnd
  <2>1. walker.offset # Len(Lent)
    BY <1>1, <1>3
  <2> QED
    BY <2>1 DEF Walk!AtEnd, Lent
<1>12. Walk!IdIsNext
  <2>1. Walk!IdOf(Walk!Key.value) = e.id
    BY <1>4, <1>5, <1>6 DEF Walk!IdOf
  <2>2. ASSUME walker.has_previous PROVE e.id > walker.previous_id
    <3>1. gathered # <<>> /\ k # 0
      BY <1>1, <2>2 DEF k
    <3>2. k \in 1 .. Len(list) /\ k < k + 1
      BY <1>1, <1>2, <3>1
    <3>3. list[k].id < e.id
      BY <1>2, <3>2 DEF ListStands, k
    <3>4. walker.previous_id = list[k].id
      BY <1>1, <3>1
    <3>5. list[k].id \in Nat
      BY <3>2 DEF ListStands, Writable
    <3> QED
      BY <1>5, <3>3, <3>4, <3>5
  <2> QED
    BY <1>5, <2>1, <2>2 DEF Walk!IdIsNext
<1>13. Walk!ValueFits
  <2>1. Len(e.value) <= Len(all) - s
    BY <1>1, <1>3, <1>10 DEF c
  <2> QED
    BY <1>1, <1>4, <1>8, <2>1 DEF Walk!ValueFits, Lent, s
<1>14. Walk!Found = [id |-> e.id, critical |-> e.critical, value |-> s, value_size |-> c]
  BY <1>4, <1>5, <1>6, <1>8 DEF Walk!Found, Walk!IdOf, Walk!CriticalOf
<1> HIDE DEF s, c
<1>15. Holds(all, Walk!Found, e)
  <2>1. SubSeq(all, s + 1, s + c) = e.value
    BY <1>4, <1>9, <1>10 DEF s
  <2>2. s + c <= Len(all)
    BY <1>3, <1>10
  <2> QED
    BY <1>10, <1>14, <2>1, <2>2 DEF Holds
<1>16. Walk!Found \in Walk!Extension
  BY <1>5, <1>10, <1>14 DEF Walk!Extension
<1>17. Walk!AfterSize + Walk!ValueSize.value = end
  BY <1>4, <1>8, <1>10 DEF s, c
<1> QED
  BY <1>4, <1>6, <1>8, <1>11, <1>12, <1>13, <1>15, <1>16, <1>17 DEF k, end, all

\* A round of the walk hands out the next of the list, and the walk ends behind the last.
LEMMA WalkYields ==
    ASSUME NEW list, ListStands(list), Lent = Elements(list), Walked(list), Walk!Yield
    PROVE  Walked(list)'
<1> DEFINE k == Len(gathered)
           m == Len(list)
           e == list[k + 1]
           f == Walk!Found
<1>1. /\ gathered \in Seq(Walk!Extension) /\ k \in Nat /\ k <= m /\ m \in Nat
      /\ walker.offset = Reached(list, k)
  BY DEF Walked, ListStands
<1>2. k < m
  <2>1. k # m
    BY <1>1 DEF Walk!Yield, Walk!AtEnd, ListStands, Lent
  <2> QED
    BY <1>1, <2>1
<1>3. /\ Holds(Elements(list), f, e) /\ f \in Walk!Extension
      /\ Walk!AfterSize + Walk!ValueSize.value = Reached(list, k + 1)
  BY <1>2, WalkOfList
<1>4. /\ gathered' = Append(gathered, f) /\ walker'.offset = Reached(list, k + 1)
      /\ walker'.has_previous = TRUE /\ walker'.previous_id = f.id
  BY <1>3 DEF Walk!Yield
<1> HIDE DEF f
<1>5. /\ Append(gathered, f) \in Seq(Walk!Extension) /\ Len(Append(gathered, f)) = k + 1
      /\ Append(gathered, f)[k + 1] = f
      /\ \A n \in 1 .. k : Append(gathered, f)[n] = gathered[n]
  BY <1>1, <1>3
<1>6. ASSUME NEW n \in 1 .. k + 1 PROVE Holds(Elements(list), gathered'[n], list[n])
  <2>1. CASE n = k + 1
    BY <1>3, <1>4, <1>5, <2>1
  <2>2. CASE n \in 1 .. k
    BY <1>4, <1>5, <2>2 DEF Walked
  <2> QED
    BY <1>1, <2>1, <2>2
<1>7. k + 1 <= m
  BY <1>1, <1>2
<1>8. gathered' \in Seq(Walk!Extension) /\ Len(gathered') = k + 1
  BY <1>4, <1>5
<1> HIDE DEF k, m
<1>9. /\ gathered' \in Seq(Walk!Extension)' /\ Len(gathered') <= Len(list)
      /\ walker'.offset = Reached(list, Len(gathered'))
      /\ walker'.has_previous = TRUE /\ gathered' # <<>>
      /\ walker'.previous_id = list[Len(gathered')].id
  <2>1. f.id = e.id
    BY <1>3 DEF Holds
  <2>2. gathered' # <<>>
    BY <1>1, <1>8
  <2> QED
    BY <1>4, <1>7, <1>8, <2>1, <2>2 DEF m, Walk!Extension
<1> QED
  BY <1>6, <1>8, <1>9 DEF Walked

LEMMA WalkFinishes ==
    ASSUME NEW list, ListStands(list), Lent = Elements(list), Walked(list), Walk!Finish
    PROVE  Len(gathered) = Len(list) /\ UNCHANGED <<walker, gathered>>
<1>1. ~(Len(gathered) < Len(list))
  <2> SUFFICES ASSUME Len(gathered) < Len(list) PROVE FALSE
    OBVIOUS
  <2>1. ~Walk!AtEnd
    BY WalkOfList
  <2> QED
    BY <2>1 DEF Walk!Finish
<1>2. Len(gathered) \in Nat /\ Len(list) \in Nat /\ Len(gathered) <= Len(list)
  BY DEF Walked, ListStands
<1>3. Len(gathered) = Len(list)
  BY <1>1, <1>2
<1>4. UNCHANGED <<walker, gathered>>
  BY DEF Walk!Finish
<1> QED
  BY <1>3, <1>4

\* At the end of the walk the values are used from the buffer: they are the list.
LEMMA BorrowedIs ==
    ASSUME NEW octets, NEW o, NEW list, Due(octets, o, list), Taken(octets, o, list),
           buffer \in Seq(Octet), Agrees(buffer, octets), Len(octets) <= Len(buffer),
           Walked(list), Len(gathered) = Len(list)
    PROVE  [n \in DOMAIN gathered |-> Borrowed(gathered[n])] = list
<1> DEFINE b == reader.base
           r == reader.size
           l == Len(buffer)
<1>1. Lent = Elements(list) /\ b \in Nat /\ r = Len(Elements(list)) /\ b + r = Len(octets)
  BY BlockIsLent
<1>2. /\ ListStands(list) /\ octets \in Seq(Octet)
      /\ Len(list) \in Nat /\ list = [n \in 1 .. Len(list) |-> list[n]]
      /\ DOMAIN gathered = 1 .. Len(list)
  BY DEF Due, ListStands, Walked
<1>3. r \in Nat /\ l \in Nat /\ b + r <= l
  BY <1>1, <1>2 DEF ListStands
<1>4. ASSUME NEW n \in 1 .. Len(list) PROVE Borrowed(gathered[n]) = list[n]
  <2> DEFINE f == gathered[n]
             e == list[n]
             v == f.value
             s == f.value_size
  <2>1. Writable(e) /\ Holds(Elements(list), f, e)
    BY <1>2 DEF ListStands, Walked
  <2>2. /\ v \in Nat /\ s \in Nat /\ v + s <= r /\ f.id = e.id /\ f.critical = e.critical
        /\ SubSeq(Lent, v + 1, v + s) = e.value
    BY <1>1, <2>1 DEF Holds
  <2> HIDE DEF b, r, v, s, f
  <2>3. SubSeq(SubSeq(buffer, b + 1, b + r), v + 1, v + s) = SubSeq(buffer, b + v + 1, b + v + s)
    BY ONLY buffer \in Seq(Octet), <1>1, <1>3, <2>2, WindowOfWindow DEF l
  <2>4. SubSeq(buffer, b + v + 1, b + v + s) = e.value
    BY <2>2, <2>3 DEF Lent, b, r
  <2>5. Borrowed(f) = [id |-> e.id, critical |-> e.critical, value |-> e.value]
    BY <2>2, <2>4 DEF Borrowed, b, v, s
  <2> QED
    BY <2>1, <2>5 DEF Writable, f
<1>5. [n \in DOMAIN gathered |-> Borrowed(gathered[n])] = [n \in 1 .. Len(list) |-> list[n]]
  BY <1>2, <1>4
<1> QED
  BY <1>2, <1>5, Zenon

-----------------------------------------------------------------------------
\* Where an entry lies in the octets of its stream.
Lies(stream, n) ==
    /\ Before(stream, n) \in Nat /\ Len(stream[n].octets) \in Nat
    /\ Before(stream, n + 1) = Before(stream, n) + Len(stream[n].octets)
    /\ Before(stream, n + 1) <= Len(OctetsOf(stream))
    /\ \A k \in 1 .. Len(stream[n].octets) :
          OctetsOf(stream)[Before(stream, n) + k] = stream[n].octets[k]

StreamLies(stream) ==
    /\ Len(stream) \in Nat /\ OctetsOf(stream) \in Seq(Octet)
    /\ Before(stream, 1) = 0 /\ Before(stream, Len(stream) + 1) = Len(OctetsOf(stream))
    /\ \A n \in 1 .. Len(stream) : Lies(stream, n)

LEMMA StreamInOctets ==
    ASSUME NEW stream \in Streams
    PROVE  StreamLies(stream)
<1> DEFINE N == Len(stream)
           e == [n \in 1 .. N |-> stream[n].octets]
<1>1. N \in Nat /\ DOMAIN stream = 1 .. N /\ \A n \in 1 .. N : stream[n].octets \in Seq(Octet)
  BY StreamsAssumption
<1>2. e \in [1 .. N -> Seq(Octet)] /\ OctetsOf(stream) = FlattenSeq(e)
  BY <1>1 DEF OctetsOf
<1>3. \A i \in 0 .. N : Before(stream, i + 1) = Len(FlatTo(e, i))
  <2> SUFFICES ASSUME NEW i \in 0 .. N PROVE Before(stream, i + 1) = Len(FlatTo(e, i))
    OBVIOUS
  <2>1. (i + 1) - 1 = i /\ \A m \in 1 .. i : m \in 1 .. N
    BY <1>1
  <2>2. [m \in 1 .. (i + 1) - 1 |-> stream[m].octets] = [m \in 1 .. i |-> e[m]]
    BY <2>1
  <2> QED
    BY <2>2 DEF Before, FlatTo
<1>4. \A n \in 1 .. N : e[n] = stream[n].octets
  OBVIOUS
<1> HIDE DEF N, e
<1>5. FlatTo(e, 0) = <<>> /\ FlatTo(e, N) = FlattenSeq(e) /\ FlattenSeq(e) \in Seq(Octet)
  <2>1. 0 \in 0 .. N /\ N \in 0 .. N
    BY <1>1
  <2>2. FlatTo(e, 0) = <<>> /\ FlatTo(e, N) = FlattenSeq(e) /\ FlatTo(e, N) \in Seq(Octet)
    BY ONLY <1>1, <1>2, <2>1, FlatToSteps
  <2> QED
    BY <2>2
<1>6. Before(stream, 1) = 0 /\ Before(stream, N + 1) = Len(OctetsOf(stream))
  <2>1. 0 \in 0 .. N /\ N \in 0 .. N /\ 0 + 1 = 1
    BY <1>1
  <2>2. Before(stream, 1) = Len(FlatTo(e, 0)) /\ Before(stream, N + 1) = Len(FlatTo(e, N))
    BY <1>3, <2>1
  <2> QED
    BY <1>2, <1>5, <2>2
<1>7. ASSUME NEW n \in 1 .. N PROVE Lies(stream, n)
  <2>1. LiesIn(e, n)
    BY ONLY <1>1, <1>2, <1>7, FlatPart
  <2>2. n - 1 \in 0 .. N /\ n \in 0 .. N /\ (n - 1) + 1 = n
    BY <1>1
  <2>3. Before(stream, n) = Len(FlatTo(e, n - 1)) /\ Before(stream, n + 1) = Len(FlatTo(e, n))
    BY <1>3, <2>2
  <2>4. e[n] = stream[n].octets
    BY <1>4
  <2> QED
    BY <1>2, <2>1, <2>3, <2>4 DEF LiesIn, Lies
<1> QED
  BY <1>1, <1>2, <1>5, <1>6, <1>7 DEF StreamLies, N

-----------------------------------------------------------------------------
\* A call on a buffer without a readable object in front.  In the scan, the octets
\* where the extensions read so far start are those of a block, up to the offset.
IdAt(octets, at) == UvarintDecode(octets, at).value \div 2

Marks(starts) ==
    /\ starts \in SUBSET (0 .. scan.offset) /\ 0 \in starts /\ scan.offset \in starts
    /\ \A at \in starts \ {scan.offset} :
          /\ StartsAt(block, starts, at)
          /\ scan.has_previous /\ IdAt(block, at) <= scan.previous_id

BlockIn(input) ==
    LET body   == DecodeBody(input, NoObject)
        length == UvarintDecode(input, body.consumed)
        from   == body.consumed + length.used
    IN  SubSeq(input, from + 1, from + length.value)

Promised(input) ==
    LET body   == DecodeBody(input, NoObject)
        length == UvarintDecode(input, body.consumed)
    IN  /\ body.status = "OK"
        /\ length.status = "OK" /\ length.value \in 1 .. BlockMax
        /\ length.value <= Len(input) - (body.consumed + length.used)

Hopeless ==
    /\ ~Readable(data)
    /\ IF pc = "idle" THEN status # "OK"
       ELSE Promised(data) /\ block = BlockIn(data) /\ \E starts : Marks(starts)

LEMMA BodyAnswers ==
    ASSUME NEW input, NEW old, NEW older
    PROVE  /\ DecodeBody(input, old).status = DecodeBody(input, older).status
           /\ DecodeBody(input, old).consumed = DecodeBody(input, older).consumed
  BY DEF DecodeBody, Undecoded

LEMMA HopelessEnters ==
    ASSUME NEW input \in Seq(Octet), ~Readable(input), Enter(input, TRUE)
    PROVE  Hopeless'
<1> DEFINE body == DecodeBody(input, object)
           here == DecodeBody(input, NoObject)
           p == here.consumed
           length == UvarintDecode(input, p)
           start == p + length.used
<1>1. /\ data' = input /\ scan' = Scan!ReaderInit
      /\ \/ body.status # "OK" /\ RefuseAtOnce(body.status)
         \/ /\ body.status = "OK" /\ HeaderDecode(input).extension_present = 0
            /\ ReturnPlain(input, body.consumed)
         \/ /\ body.status = "OK" /\ HeaderDecode(input).extension_present = 1
            /\ StartScan(input, body.consumed, UvarintDecode(input, body.consumed))
  BY DEF Enter
<1>2. body.status = here.status /\ body.consumed = p
  BY BodyAnswers
<1>3. p \in 0 .. Len(input)
  BY BodyType
<1>4. length.value \in Nat /\ BlockMax \in Nat
  <2>1. length.value \in Word /\ Word \subseteq Nat
    BY <1>3, UvarintDecodeType, UvarintAssumption DEF Word
  <2> QED
    BY <2>1, DecodeExtAssumption
<1> HIDE DEF body, here, p, length
<1>5. CASE body.status # "OK" /\ RefuseAtOnce(body.status)
  <2>1. pc' = "idle" /\ status' # "OK"
    BY <1>5 DEF RefuseAtOnce
  <2> QED
    BY <1>1, <2>1 DEF Hopeless
<1>6. ~(body.status = "OK" /\ HeaderDecode(input).extension_present = 0)
  BY <1>2 DEF Readable, here
<1>7. CASE /\ body.status = "OK" /\ HeaderDecode(input).extension_present = 1
           /\ StartScan(input, p, length)
  <2>1. CASE pc' = "idle" /\ status' # "OK"
    BY <1>1, <2>1 DEF Hopeless
  <2>2. CASE ~(pc' = "idle" /\ status' # "OK")
    <3>1. /\ length.status = "OK" /\ ~EmptyBlock(length) /\ ~OversizeBlock(length)
          /\ length.value <= Len(input) - start
          /\ pc' = "scan" /\ block' = SubSeq(input, start + 1, start + length.value)
      BY <1>7, <2>2 DEF StartScan, RefuseAtOnce
    <3>2. length.value \in 1 .. BlockMax
      BY <1>4, <3>1 DEF EmptyBlock, OversizeBlock
    <3>3. Promised(input) /\ block' = BlockIn(input)
      BY <1>2, <1>7, <3>1, <3>2 DEF Promised, BlockIn, here, p, length
    <3>4. Marks({0})'
      <4>1. scan'.offset = 0 /\ {0} \in SUBSET (0 .. 0)
        BY <1>1 DEF Scan!ReaderInit
      <4> QED
        BY <4>1 DEF Marks
    <3> QED
      BY <1>1, <3>1, <3>3, <3>4 DEF Hopeless
  <2> QED
    BY <2>1, <2>2
<1>8. UvarintDecode(input, body.consumed) = length
  BY <1>2 DEF length
<1> QED
  BY <1>1, <1>2, <1>5, <1>6, <1>7, <1>8

LEMMA MarksGrow ==
    ASSUME CallInv, pc = "scan", NEW starts, Marks(starts), Scan!Yield
    PROVE  \E marked : Marks(marked)'
<1> DEFINE at == scan.offset
           key == UvarintDecode(block, at)
           size == UvarintDecode(block, at + key.used)
           end == Scan!AfterSize + Scan!ValueSize.value
           grown == starts \cup {end}
<1>1. /\ block \in Seq(Octet) /\ scan \in Scan!Reader /\ at \in 0 .. Len(block) /\ at \in Nat
      /\ Len(block) \in Nat
  BY DEF CallInv, CallTypes, ScanInOrder, Scan!Reader
<1>2. Scan!Key = key /\ Scan!AfterKey = at + key.used
  BY <1>1, OneDecoder DEF Scan!Key, Scan!NumberAt, Scan!AfterKey
<1>3. /\ key.status = "OK" /\ Scan!ValueSize.status = "OK"
      /\ key.value \div 2 # 0
      /\ scan.has_previous => key.value \div 2 > scan.previous_id
      /\ scan' = [offset |-> end, previous_id |-> key.value \div 2, has_previous |-> TRUE]
      /\ block' = block
  BY <1>2 DEF Scan!Yield, Scan!IdIsNext, Scan!IdOf, Scan!Found
<1>4. Scan!AfterKey \in 0 .. Len(block) /\ Scan!AfterSize \in Scan!AfterKey .. Len(block)
      /\ Scan!ValueSize.value \in Nat
  BY <1>1, ScanCall
<1>5. Scan!ValueSize = size
  BY <1>2, <1>4, OneDecoder DEF Scan!ValueSize, Scan!NumberAt
<1>6. key.used \in Nat /\ key.used >= 1 /\ key.value \in Nat
  <2>1. key.value \in Word /\ key.used \in 0 .. MaxGroups /\ key.used >= 1
    BY <1>1, <1>3, UvarintDecodeType
  <2> HIDE DEF key
  <2> QED
    BY <2>1, UvarintAssumption DEF Word, MaxGroups
<1>7. end = at + key.used + size.used + size.value
  BY <1>2, <1>5 DEF Scan!AfterSize
<1>8. end \in Nat /\ at < end
  <2> HIDE DEF key, at
  <2>1. Scan!AfterKey \in Nat /\ at < Scan!AfterKey
    BY <1>1, <1>2, <1>6
  <2> HIDE DEF end
  <2>2. end = Scan!AfterSize + Scan!ValueSize.value /\ Scan!AfterKey <= Scan!AfterSize
        /\ Scan!AfterSize \in Nat
    BY <1>4, <2>1 DEF end
  <2> QED
    BY <1>1, <1>4, <2>1, <2>2
<1> DEFINE id == key.value \div 2
<1>9. id \in Nat /\ scan.previous_id \in Nat
  BY <1>1, <1>6 DEF Scan!Reader
<1>10. /\ starts \in SUBSET (0 .. at) /\ 0 \in starts /\ at \in starts
       /\ \A from \in starts \ {at} :
             /\ StartsAt(block, starts, from)
             /\ scan.has_previous /\ IdAt(block, from) <= scan.previous_id
  BY DEF Marks
<1> HIDE DEF at, end, id
<1>11. \A from \in starts : from \in Nat /\ from <= at /\ from < end
  BY <1>1, <1>8, <1>10
<1>12. grown \in SUBSET (0 .. end) /\ 0 \in grown /\ end \in grown
  <2>1. \A from \in starts : from \in 0 .. end
    BY <1>8, <1>11
  <2>2. end \in 0 .. end
    BY <1>8
  <2> QED
    BY <1>10, <2>1, <2>2
<1>13. ASSUME NEW from \in starts \ {at}
       PROVE  IdAt(block, from) \in Nat /\ IdAt(block, from) < id
  <2>1. IdAt(block, from) <= scan.previous_id /\ scan.previous_id < id
    BY <1>3, <1>9, <1>10 DEF id
  <2>2. IdAt(block, from) \in Nat
    <3>1. from \in 0 .. Len(block)
      BY <1>1, <1>11
    <3>2. UvarintDecode(block, from).value \in Nat
      BY <1>1, <3>1, UvarintDecodeType, UvarintAssumption DEF Word
    <3> QED
      BY <3>2 DEF IdAt
  <2> QED
    BY <1>9, <2>1, <2>2
<1>14. ASSUME NEW from \in grown \ {end}
       PROVE  StartsAt(block, grown, from) /\ IdAt(block, from) <= id
  <2>1. from \in starts
    BY <1>14
  <2>2. CASE from # at
    <3>1. StartsAt(block, starts, from) /\ from < end /\ from \in Nat
      BY <1>10, <1>11, <2>1, <2>2
    <3>2. \A other \in grown : other < from => other \in starts
      BY <1>8, <3>1
    <3>3. StartsAt(block, grown, from)
      BY <3>1, <3>2 DEF StartsAt
    <3>4. IdAt(block, from) <= id
      BY <1>9, <1>13, <2>1, <2>2
    <3> QED
      BY <3>3, <3>4
  <2>3. CASE from = at
    <3>1. \A other \in grown : other < at => other \in starts \ {at}
      BY <1>1, <1>8
    <3>2. \A other \in grown : other < at => UvarintDecode(block, other).value \div 2 < key.value \div 2
      BY <1>13, <3>1 DEF IdAt, id
    <3>3. at + key.used + size.used + size.value \in grown
      BY <1>7
    <3>4. StartsAt(block, grown, at)
      BY <1>3, <1>5, <3>2, <3>3 DEF StartsAt
    <3>5. IdAt(block, at) = id
      BY DEF IdAt, id
    <3> QED
      BY <1>9, <2>3, <3>4, <3>5
  <2> QED
    BY <2>2, <2>3
<1>15. scan'.offset = end /\ scan'.has_previous /\ scan'.previous_id = id
  BY <1>3 DEF id
<1> HIDE DEF grown
<1>16. ASSUME NEW marked, marked = grown PROVE Marks(marked)'
  <2>1. /\ marked \in SUBSET (0 .. scan'.offset) /\ 0 \in marked /\ scan'.offset \in marked
        /\ \A from \in marked \ {scan'.offset} :
              /\ StartsAt(block', marked, from)
              /\ scan'.has_previous /\ IdAt(block', from) <= scan'.previous_id
    BY <1>3, <1>12, <1>14, <1>15, <1>16
  <2> QED
    BY ONLY <2>1 DEF Marks
<1> QED
  BY <1>16

LEMMA HopelessInCall ==
    ASSUME CallInv, Hopeless, InCall
    PROVE  Hopeless'
<1>1. pc # "idle" /\ data' = data /\ block' = block
  BY DEF InCall, ScanFails, ScanReads, ScanEnds, Accept, Refuse, callFrame
<1>2. Promised(data) /\ block = BlockIn(data) /\ ~Readable(data)
  BY <1>1 DEF Hopeless
<1>3. PICK starts : Marks(starts)
  BY <1>1 DEF Hopeless
<1>4. CASE ScanFails
  <2>1. pc' = "idle" /\ status' # "OK"
    BY <1>4 DEF ScanFails, Scan!FailInKey, Scan!FailOnId, Scan!FailInSize, Scan!FailOnValue,
                Scan!Fail
  <2> QED
    BY <1>1, <1>2, <2>1 DEF Hopeless
<1>5. CASE ScanReads
  <2>1. pc = "scan" /\ Scan!Yield /\ pc' # "idle"
    BY <1>5 DEF ScanReads
  <2>2. \E marked : Marks(marked)'
    BY <1>3, <2>1, MarksGrow
  <2> QED
    BY <1>1, <1>2, <2>1, <2>2 DEF Hopeless
<1>6. CASE ScanEnds
  <2>1. scan.offset = Len(block)
    BY <1>6 DEF ScanEnds, Scan!Finish, Scan!AtEnd
  <2>2. IsBlock(block)
    BY <1>3, <2>1 DEF Marks, IsBlock
  <2>3. Readable(data)
    BY <1>2, <2>2 DEF Readable, Promised, BlockIn
  <2> QED
    BY <1>2, <2>3
<1>7. CASE Accept
  <2>1. pc' = "scan" /\ UNCHANGED scan
    BY <1>7 DEF Accept, scanVars
  <2>2. Marks(starts)'
    BY <1>1, <1>3, <2>1 DEF Marks
  <2> QED
    BY <1>1, <1>2, <2>1, <2>2 DEF Hopeless
<1>8. CASE Refuse
  <2>1. pc' = "idle" /\ status' # "OK"
    BY <1>8 DEF Refuse
  <2> QED
    BY <1>1, <1>2, <2>1 DEF Hopeless
<1> QED
  BY <1>4, <1>5, <1>6, <1>7, <1>8 DEF InCall

-----------------------------------------------------------------------------
\* What has been delivered are the first of what was sent, and the buffer holds what
\* has arrived of the octets behind them.
Start == Before(sent, Len(delivered) + 1)
DueEntry == sent[Len(delivered) + 1]

BufferStands ==
    /\ sent \in Streams /\ Len(delivered) \in 0 .. Len(sent)
    /\ delivered = [n \in 1 .. Len(delivered) |-> sent[n].content]
    /\ arrived \in Start .. Len(AllOctets)
    /\ buffer = SubSeq(AllOctets, Start + 1, arrived)

BufferIs ==
    /\ StreamLies(sent) /\ AllOctets \in Seq(Octet) /\ buffer \in Seq(Octet)
    /\ Start \in Nat /\ arrived \in Nat /\ arrived <= Len(AllOctets)
    /\ Len(buffer) \in Nat /\ Start + Len(buffer) = arrived
    /\ \A k \in 1 .. Len(buffer) : buffer[k] = AllOctets[Start + k]
    /\ Len(delivered) \in Nat /\ Len(sent) \in Nat

LEMMA BufferHolds ==
    ASSUME BufferStands
    PROVE  BufferIs
<1> DEFINE d == Len(delivered)
           N == Len(sent)
           all == AllOctets
           l == Len(all)
           n == arrived - Start
<1>1. /\ StreamLies(sent) /\ N \in Nat /\ all \in Seq(Octet) /\ l \in Nat
  BY StreamInOctets DEF BufferStands, StreamLies, AllOctets
<1>2. d \in Nat /\ d <= N
  BY <1>1 DEF BufferStands
<1>3. Start \in Nat
  <2>1. CASE d = N
    BY <1>1, <2>1 DEF Start, StreamLies, AllOctets
  <2>2. CASE d # N
    <3>1. d + 1 \in 1 .. N
      BY <1>1, <1>2, <2>2
    <3>2. Lies(sent, d + 1)
      BY <1>1, <3>1 DEF StreamLies
    <3> QED
      BY <3>2 DEF Lies, Start
  <2> QED
    BY <2>1, <2>2
<1>4. arrived \in Start .. l
  BY DEF BufferStands
<1> HIDE DEF d, N, all, l
<1> DEFINE s == Start
<1>5. s \in Nat /\ arrived \in s .. l
  BY <1>3, <1>4
<1> HIDE DEF s
<1>6. arrived \in Nat /\ arrived <= l /\ arrived - s \in Nat /\ s + (arrived - s) = arrived
  BY <1>1, <1>5
<1> DEFINE m == arrived - s
<1> HIDE DEF m
<1>7. m \in Nat /\ s + m = arrived /\ s + m <= Len(all)
  BY <1>6 DEF m, l
<1>8. /\ SubSeq(all, s + 1, s + m) \in Seq(Octet) /\ Len(SubSeq(all, s + 1, s + m)) = m
      /\ \A k \in 1 .. m : SubSeq(all, s + 1, s + m)[k] = all[s + k]
  BY ONLY <1>1, <1>5, <1>7, WindowIs
<1>9. buffer = SubSeq(all, s + 1, s + m)
  BY <1>7 DEF BufferStands, all, s
<1>10. /\ buffer \in Seq(Octet) /\ Len(buffer) = m
       /\ \A k \in 1 .. m : buffer[k] = all[s + k]
  BY <1>8, <1>9
<1> QED
  BY <1>1, <1>2, <1>5, <1>6, <1>7, <1>10 DEF BufferIs, s, all, d, N, l

\* The buffer starts with the entry that is due, or with what has arrived of it.
DueIs(octets, content) ==
    /\ octets \in Seq(Octet) /\ Agrees(buffer, octets)
    /\ content = [object |-> content.object, list |-> content.list]
    /\ Before(sent, Len(delivered) + 2) = Start + Len(octets)
    /\ IF WellFormed(content) THEN Due(octets, content.object, content.list)
       ELSE buffer # <<>> => ~Readable(buffer)

LEMMA BufferStartsWithDue ==
    ASSUME BufferStands, Len(delivered) < Len(sent)
    PROVE  DueIs(DueEntry.octets, DueEntry.content)
<1> DEFINE d == Len(delivered)
           n == d + 1
           octets == DueEntry.octets
           content == DueEntry.content
<1>1. BufferIs
  BY BufferHolds
<1>2. n \in 1 .. Len(sent) /\ n \in DOMAIN sent /\ d + 2 = n + 1
  <2>1. n \in 1 .. Len(sent) /\ d + 2 = n + 1
    BY <1>1 DEF BufferIs
  <2>2. DOMAIN sent = 1 .. Len(sent)
    BY StreamsAssumption DEF BufferStands
  <2> QED
    BY <2>1, <2>2
<1>3. /\ octets \in Seq(Octet) /\ content = [object |-> content.object, list |-> content.list]
      /\ IF WellFormed(content) THEN Encoded(octets, content.object, content.list)
         ELSE \A end \in Start + 1 .. Len(AllOctets) : ~Readable(SubSeq(AllOctets, Start + 1, end))
  BY <1>2, StreamsAssumption DEF BufferStands, Start, AllOctets, DueEntry
<1>4. /\ Before(sent, n + 1) = Start + Len(octets) /\ Len(octets) \in Nat
      /\ Before(sent, n + 1) <= Len(AllOctets)
      /\ \A k \in 1 .. Len(octets) : AllOctets[Start + k] = octets[k]
  BY <1>1, <1>2 DEF BufferIs, StreamLies, Lies, Start, AllOctets, DueEntry
<1>5. Agrees(buffer, octets)
  <2>1. ASSUME NEW k \in 1 .. Len(buffer), k <= Len(octets) PROVE buffer[k] = octets[k]
    <3>1. k \in 1 .. Len(octets)
      BY <1>1, <1>4, <2>1 DEF BufferIs
    <3> QED
      BY <1>1, <1>4, <3>1 DEF BufferIs
  <2> QED
    BY <2>1 DEF Agrees
<1> HIDE DEF octets, content
<1>6. CASE WellFormed(content)
  <2>1. Encoded(octets, content.object, content.list)
    BY <1>3, <1>6
  <2>2. DueStands(octets, content.object, content.list)
    BY <1>3, <2>1, EncodedStands
  <2>3. ListStands(content.list)
    BY <2>1, ListReads DEF Encoded
  <2>4. Due(octets, content.object, content.list)
    BY <1>3, <2>1, <2>2, <2>3 DEF Due, Encoded
  <2> QED
    BY <1>2, <1>3, <1>4, <1>5, <1>6, <2>4 DEF DueIs, octets, content
<1>7. CASE ~WellFormed(content)
  <2>1. ASSUME buffer # <<>> PROVE ~Readable(buffer)
    <3>1. Len(buffer) # 0
      BY <1>1, <2>1 DEF BufferIs
    <3>2. arrived \in Start + 1 .. Len(AllOctets)
      BY <1>1, <3>1 DEF BufferIs
    <3> QED
      BY <1>3, <1>7, <3>2 DEF BufferStands
  <2> QED
    BY <1>2, <1>3, <1>4, <1>5, <1>7, <2>1 DEF DueIs, octets, content
<1> QED
  BY <1>6, <1>7

LEMMA BufferIsOfDue ==
    ASSUME BufferStands, buffer # <<>>
    PROVE  Len(delivered) < Len(sent)
<1>1. BufferIs
  BY BufferHolds
<1>2. Len(buffer) # 0
  BY <1>1 DEF BufferIs
<1>3. SUFFICES ASSUME Len(delivered) = Len(sent) PROVE FALSE
  BY <1>1 DEF BufferIs, BufferStands
<1>4. Start = Len(AllOctets)
  BY <1>1, <1>3 DEF BufferIs, StreamLies, Start, AllOctets
<1> QED
  BY <1>1, <1>2, <1>4 DEF BufferIs

-----------------------------------------------------------------------------
\* What stands of the call and of the walk at each stage of the receiver.
CallIs(octets, content) ==
    /\ Len(data) <= Len(buffer)
    /\ IF WellFormed(content) THEN CallStands(octets, content.object, content.list) ELSE Hopeless

WalkIs(octets, content) ==
    /\ WellFormed(content) /\ Taken(octets, content.object, content.list)
    /\ Len(octets) <= Len(buffer) /\ Walked(content.list)

StageStands ==
    /\ stage \in {"receive", "call", "walk", "use", "closed"}
    /\ pc # "idle" => stage = "call"
    /\ stage \in {"call", "walk", "use"} => Len(delivered) < Len(sent)
    /\ stage = "call" => CallIs(DueEntry.octets, DueEntry.content)
    /\ stage \in {"walk", "use"} => WalkIs(DueEntry.octets, DueEntry.content)
    /\ stage = "use" => Len(gathered) = Len(DueEntry.content.list)

StreamInv == CallInv /\ BufferStands /\ StageStands

\* What the steps between the calls leave alone.
LEMMA CallStays ==
    ASSUME UNCHANGED callVars
    PROVE  /\ CallInv => CallInv'
           /\ Hopeless => Hopeless'
           /\ \A octets, o, list : CallStands(octets, o, list) => CallStands(octets, o, list)'
           /\ \A octets, o, list : Taken(octets, o, list) => Taken(octets, o, list)'
<1>1. /\ pc' = pc /\ data' = data /\ callback' = callback /\ base' = base /\ block' = block
      /\ scan' = scan /\ extension' = extension /\ has_extension' = has_extension
      /\ scanned' = scanned /\ status' = status /\ object' = object /\ reader' = reader
      /\ consumed' = consumed /\ asked' = asked /\ released' = released
  BY DEF callVars, scanVars, outputs
<1>2. CallInv => CallInv'
  BY <1>1 DEF CallInv, CallTypes, ScanInOrder, AskedAreCriticals, Examined, OutputsAreOfLastSuccess
<1>3. Hopeless => Hopeless'
  BY <1>1 DEF Hopeless, Marks
<1>4. ASSUME NEW octets, NEW o, NEW list, Taken(octets, o, list)
      PROVE  Taken(octets, o, list)'
  BY <1>1, <1>4 DEF Taken
<1>5. ASSUME NEW octets, NEW o, NEW list, CallStands(octets, o, list)
      PROVE  CallStands(octets, o, list)'
  <2>1. Reading(octets, o, list) => Reading(octets, o, list)'
    BY <1>1 DEF Reading, Examined
  <2>2. Answered(octets, o, list) => Answered(octets, o, list)'
    BY <1>1, <1>4 DEF Answered
  <2> QED
    BY <1>1, <1>5, <2>1, <2>2 DEF CallStands
<1> QED
  BY <1>2, <1>3, <1>4, <1>5

LEMMA BufferStays ==
    ASSUME BufferStands, UNCHANGED <<sent, arrived, buffer, delivered>>
    PROVE  BufferStands'
  BY DEF BufferStands, Start, AllOctets

\* An octet that arrives changes nothing of what has been borrowed.
LEMMA ArriveKeeps ==
    ASSUME StreamInv, Arrive
    PROVE  StreamInv'
<1> DEFINE s == Start
           all == AllOctets
           m == Len(buffer)
           x == all[arrived + 1]
<1>1. BufferIs
  BY BufferHolds DEF StreamInv
<1>2. /\ arrived < Len(all) /\ arrived' = arrived + 1 /\ buffer' = Append(buffer, x)
      /\ UNCHANGED callVars
      /\ sent' = sent /\ stage' = stage /\ delivered' = delivered
      /\ walker' = walker /\ gathered' = gathered /\ pc' = pc /\ data' = data
  BY DEF Arrive, walkVars, callVars
<1>3. /\ s \in Nat /\ m \in Nat /\ s + m = arrived /\ all \in Seq(Octet) /\ Len(all) \in Nat
      /\ buffer \in Seq(Octet) /\ \A k \in 1 .. m : buffer[k] = all[s + k]
  BY <1>1 DEF BufferIs
<1> HIDE DEF s, all
<1>4. x \in Octet /\ s + (m + 1) <= Len(all) /\ m + 1 \in Nat /\ x = all[s + (m + 1)]
  <2>1. arrived + 1 \in 1 .. Len(all) /\ arrived + 1 = s + (m + 1)
    BY <1>2, <1>3
  <2> QED
    BY <1>2, <1>3, <2>1
<1>5. /\ SubSeq(all, s + 1, s + (m + 1)) \in Seq(Octet)
      /\ Len(SubSeq(all, s + 1, s + (m + 1))) = m + 1
      /\ \A k \in 1 .. m + 1 : SubSeq(all, s + 1, s + (m + 1))[k] = all[s + k]
  <2> DEFINE n == m + 1
  <2>1. n \in Nat /\ s + n <= Len(all)
    BY <1>4
  <2> HIDE DEF n
  <2>2. /\ SubSeq(all, s + 1, s + n) \in Seq(Octet) /\ Len(SubSeq(all, s + 1, s + n)) = n
        /\ \A k \in 1 .. n : SubSeq(all, s + 1, s + n)[k] = all[s + k]
    BY ONLY <1>3, <2>1, WindowIs
  <2> QED
    BY <2>2 DEF n
<1> DEFINE longer == Append(buffer, x)
           w == SubSeq(all, s + 1, s + (m + 1))
<1>6. longer \in Seq(Octet) /\ Len(longer) = m + 1
  BY <1>3, <1>4
<1>7. \A k \in 1 .. m + 1 : longer[k] = all[s + k]
  <2>1. longer[m + 1] = x /\ \A k \in 1 .. m : longer[k] = buffer[k]
    BY <1>3
  <2> HIDE DEF longer, m
  <2>2. \A k \in 1 .. m + 1 : k \in 1 .. m \/ k = m + 1
    BY <1>3
  <2> QED
    BY <1>3, <1>4, <2>1, <2>2
<1> HIDE DEF w, longer, x, m
<1>8. longer = w
  BY <1>5, <1>6, <1>7, SeqEqual DEF w
<1>9. BufferStands'
  <2>1. /\ Start' = Start /\ AllOctets' = AllOctets
    BY <1>2 DEF Start, AllOctets
  <2>2. arrived' \in Start .. Len(AllOctets)
    BY <1>2, <1>3 DEF s, all
  <2>3. s + (m + 1) = arrived'
    BY <1>2, <1>3
  <2>4. buffer' = SubSeq(AllOctets, Start + 1, arrived')
    BY <1>2, <1>8, <2>3 DEF longer, w, s, all
  <2> QED
    BY <1>2, <2>1, <2>2, <2>4 DEF BufferStands, StreamInv
<1>10. Len(buffer) <= Len(buffer')
  BY <1>2, <1>3, <1>6 DEF longer, m
<1>11. StageStands'
  <2> DEFINE octets == DueEntry.octets
             content == DueEntry.content
             o == content.object
             list == content.list
  <2>1. octets' = octets /\ content' = content
    BY <1>2 DEF DueEntry
  <2>2. DueEntry' = DueEntry
    BY <1>2 DEF DueEntry
  <2>3. ASSUME stage = "call" PROVE CallIs(DueEntry.octets, DueEntry.content)'
    <3>1. CallIs(octets, content) /\ Len(data) <= Len(buffer')
      <4>1. CallIs(octets, content)
        BY <2>3 DEF StreamInv, StageStands
      <4>2. Len(data) \in Nat /\ Len(buffer') \in Nat
        BY <1>2, <1>3, <1>6 DEF StreamInv, CallInv, CallTypes, longer, m
      <4> QED
        BY <1>3, <1>10, <4>1, <4>2 DEF CallIs, m
    <3> HIDE DEF octets, content
    <3>2. IF WellFormed(content) THEN CallStands(octets, content.object, content.list)'
          ELSE Hopeless'
      BY <1>2, <2>1, <3>1, CallStays DEF CallIs
    <3> QED
      BY <1>2, <2>1, <2>2, <3>1, <3>2 DEF CallIs, octets, content
  <2>4. ASSUME stage \in {"walk", "use"} PROVE WalkIs(DueEntry.octets, DueEntry.content)'
    <3>1. WalkIs(octets, content)
      BY <2>4 DEF StreamInv, StageStands
    <3> HIDE DEF octets, content
    <3>2. Taken(octets, content.object, content.list)' /\ Walked(content.list)'
      BY <1>2, <2>1, <3>1, CallStays DEF WalkIs, Walked, Walk!Extension
    <3> QED
      BY <1>2, <1>10, <2>1, <2>2, <3>1, <3>2 DEF WalkIs, octets, content
  <2> QED
    BY <1>2, <2>2, <2>3, <2>4 DEF StreamInv, StageStands
<1> QED
  BY <1>2, <1>9, <1>11, CallStays DEF StreamInv

LEMMA TryDecodeKeeps ==
    ASSUME StreamInv, TryDecode
    PROVE  StreamInv'
<1>1. /\ CallInv /\ BufferStands /\ StageStands /\ buffer \in Seq(Octet) /\ buffer # <<>>
      /\ Enter(buffer, TRUE) /\ stage' = "call" /\ data' = buffer
      /\ UNCHANGED <<sent, arrived, buffer, delivered>>
  BY BufferHolds DEF StreamInv, TryDecode, BufferIs, Enter
<1>2. CallInv' /\ BufferStands'
  BY <1>1, EnterInv, BufferStays
<1>3. Len(delivered) < Len(sent)
  BY <1>1, BufferIsOfDue
<1>4. PICK octets, content : octets = DueEntry.octets /\ content = DueEntry.content
  OBVIOUS
<1>5. DueIs(octets, content)
  BY <1>1, <1>3, <1>4, BufferStartsWithDue
<1>6. IF WellFormed(content) THEN CallStands(octets, content.object, content.list)' ELSE Hopeless'
  BY <1>1, <1>5, EnterStands, HopelessEnters DEF DueIs
<1>7. Len(data') <= Len(buffer')
  <2>1. Len(buffer) \in Nat
    BY <1>1
  <2> QED
    BY <1>1, <2>1
<1>8. CallIs(octets, content)'
  BY <1>6, <1>7 DEF CallIs
<1>9. octets = (DueEntry.octets)' /\ content = (DueEntry.content)'
  BY <1>1, <1>4 DEF DueEntry
<1>10. CallIs(DueEntry.octets, DueEntry.content)'
  BY <1>8, <1>9
<1> QED
  BY <1>1, <1>2, <1>3, <1>10 DEF StreamInv, StageStands

LEMMA InCallKeeps ==
    ASSUME StreamInv, InCall
    PROVE  StreamInv'
<1>1. /\ CallInv /\ BufferStands /\ StageStands /\ pc # "idle"
      /\ UNCHANGED <<data, sent, arrived, buffer, stage, delivered>>
  BY DEF StreamInv, InCall, ScanFails, ScanReads, ScanEnds, Accept, Refuse, callFrame, streamVars
<1>2. CallInv' /\ BufferStands'
  BY <1>1, ProceedInv, BufferStays DEF InCall, Proceed
<1>3. stage = "call" /\ Len(delivered) < Len(sent)
  BY <1>1 DEF StageStands
<1>4. PICK octets, content : octets = DueEntry.octets /\ content = DueEntry.content
  OBVIOUS
<1>5. CallIs(octets, content) /\ DueIs(octets, content)
  BY <1>1, <1>3, <1>4, BufferStartsWithDue DEF StageStands
<1>6. IF WellFormed(content) THEN CallStands(octets, content.object, content.list)' ELSE Hopeless'
  BY <1>1, <1>5, InCallStands, HopelessInCall DEF DueIs, CallIs
<1>7. CallIs(octets, content)'
  BY <1>1, <1>5, <1>6 DEF CallIs
<1>8. octets = (DueEntry.octets)' /\ content = (DueEntry.content)'
  BY <1>1, <1>4 DEF DueEntry
<1>9. CallIs(DueEntry.octets, DueEntry.content)'
  BY <1>7, <1>8
<1> QED
  BY <1>1, <1>2, <1>3, <1>9 DEF StreamInv, StageStands

\* A call that succeeded was on an object of the encoder, and the object was there whole.
LEMMA ReturnedOK ==
    ASSUME StreamInv, Returns, status = "OK", NEW octets, NEW content,
           octets = DueEntry.octets, content = DueEntry.content
    PROVE  /\ WellFormed(content) /\ Taken(octets, content.object, content.list)
           /\ Len(octets) <= Len(buffer) /\ ListStands(content.list)
<1>1. CallIs(octets, content) /\ DueIs(octets, content) /\ BufferIs
  BY BufferHolds, BufferStartsWithDue DEF StreamInv, StageStands, Returns
<1>2. WellFormed(content)
  BY <1>1 DEF CallIs, Hopeless, Returns
<1>3. Answered(octets, content.object, content.list)
  BY <1>1, <1>2 DEF CallIs, CallStands, Returns
<1>4. Taken(octets, content.object, content.list) /\ Len(octets) <= Len(data)
  BY <1>3 DEF Answered
<1>5. Len(octets) \in Nat /\ Len(data) \in Nat /\ Len(buffer) \in Nat
  <2>1. octets \in Seq(Octet)
    BY <1>1 DEF DueIs
  <2>2. data \in Seq(Octet)
    BY DEF StreamInv, CallInv, CallTypes
  <2>3. buffer \in Seq(Octet)
    BY <1>1 DEF BufferIs
  <2> QED
    BY ONLY <2>1, <2>2, <2>3
<1>6. Len(octets) <= Len(buffer)
  BY <1>1, <1>4, <1>5 DEF CallIs
<1> QED
  BY <1>1, <1>2, <1>4, <1>6 DEF DueIs, Due

LEMMA StartWalkKeeps ==
    ASSUME StreamInv, StartWalk
    PROVE  StreamInv'
<1>1. /\ CallInv /\ BufferStands /\ StageStands /\ Returns /\ status = "OK"
      /\ stage' = "walk" /\ walker' = reader.next /\ gathered' = <<>>
      /\ UNCHANGED callVars /\ UNCHANGED <<sent, arrived, buffer, delivered>>
  BY DEF StreamInv, StartWalk
<1>2. CallInv' /\ BufferStands'
  BY <1>1, CallStays, BufferStays
<1>3. pc' = "idle" /\ Len(delivered) < Len(sent)
  BY <1>1 DEF Returns, StageStands, callVars
<1>4. PICK octets, content : octets = DueEntry.octets /\ content = DueEntry.content
  OBVIOUS
<1>5. /\ WellFormed(content) /\ Taken(octets, content.object, content.list)
      /\ Len(octets) <= Len(buffer) /\ ListStands(content.list)
  BY <1>1, <1>4, ReturnedOK
<1>6. Taken(octets, content.object, content.list)'
  BY <1>1, <1>5, CallStays
<1>7. Walked(content.list)'
  <2>1. reader.next.offset = 0 /\ reader.next.has_previous = FALSE
    BY <1>5 DEF Taken, ReaderOn, Scan!ReaderInit
  <2>2. /\ Len(content.list) \in Nat /\ Reached(content.list, 0) = 0
    BY <1>5 DEF ListStands
  <2>3. gathered' \in Seq(Walk!Extension)' /\ gathered' = <<>> /\ Len(gathered') = 0 /\ \A n \in 1 .. 0 : FALSE
    BY <1>1
  <2> QED
    BY <1>1, <2>1, <2>2, <2>3 DEF Walked
<1>8. WalkIs(octets, content)'
  BY <1>1, <1>5, <1>6, <1>7 DEF WalkIs
<1>9. octets = (DueEntry.octets)' /\ content = (DueEntry.content)'
  BY <1>1, <1>4 DEF DueEntry
<1>10. WalkIs(DueEntry.octets, DueEntry.content)'
  BY <1>8, <1>9
<1> QED
  BY <1>1, <1>2, <1>3, <1>10 DEF StreamInv, StageStands

LEMMA WaitKeeps ==
    ASSUME StreamInv, Wait \/ GiveUp
    PROVE  StreamInv'
<1>1. /\ CallInv /\ BufferStands /\ pc = "idle" /\ stage' \in {"receive", "closed"}
      /\ UNCHANGED callVars /\ UNCHANGED <<sent, arrived, buffer, delivered>>
  BY DEF StreamInv, Wait, GiveUp, Returns
<1>2. CallInv' /\ BufferStands'
  BY <1>1, CallStays, BufferStays
<1>3. pc' = "idle"
  BY <1>1 DEF callVars
<1> QED
  BY <1>1, <1>2, <1>3 DEF StreamInv, StageStands

LEMMA WalkKeeps ==
    ASSUME StreamInv, WalkOne \/ WalkEnds
    PROVE  StreamInv'
<1>1. /\ CallInv /\ BufferStands /\ StageStands /\ stage = "walk"
      /\ UNCHANGED callVars /\ UNCHANGED <<sent, arrived, buffer, delivered>>
  BY DEF StreamInv, WalkOne, WalkEnds
<1>2. CallInv' /\ BufferStands'
  BY <1>1, CallStays, BufferStays
<1>3. pc' = "idle" /\ Len(delivered) < Len(sent)
  BY <1>1 DEF StageStands, callVars
<1>4. PICK octets, content : octets = DueEntry.octets /\ content = DueEntry.content
  OBVIOUS
<1>5. WalkIs(octets, content) /\ DueIs(octets, content) /\ BufferIs
  BY <1>1, <1>3, <1>4, BufferHolds, BufferStartsWithDue DEF StageStands
<1>6. /\ ListStands(content.list) /\ Lent = Elements(content.list) /\ Walked(content.list)
  BY <1>5, BlockIsLent DEF WalkIs, DueIs, Due, BufferIs
<1>7. Taken(octets, content.object, content.list)'
  BY <1>1, <1>5, CallStays DEF WalkIs
<1>8. octets = (DueEntry.octets)' /\ content = (DueEntry.content)'
  BY <1>1, <1>4 DEF DueEntry
<1>9. CASE WalkOne
  <2>1. stage' = "walk" /\ Walked(content.list)'
    BY <1>6, <1>9, WalkYields DEF WalkOne
  <2>2. WalkIs(octets, content)'
    BY <1>1, <1>5, <1>7, <2>1 DEF WalkIs
  <2>3. WalkIs(DueEntry.octets, DueEntry.content)'
    BY <1>8, <2>2
  <2> QED
    BY <1>1, <1>2, <1>3, <2>1, <2>3 DEF StreamInv, StageStands
<1>10. CASE WalkEnds
  <2>1. stage' = "use" /\ Len(gathered) = Len(content.list) /\ UNCHANGED <<walker, gathered>>
    BY <1>6, <1>10, WalkFinishes DEF WalkEnds
  <2>2. Walked(content.list)'
    BY <1>6, <2>1 DEF Walked, Walk!Extension
  <2>3. WalkIs(octets, content)' /\ Len(gathered') = Len(content.list)
    BY <1>1, <1>5, <1>7, <2>1, <2>2 DEF WalkIs
  <2>4. WalkIs(DueEntry.octets, DueEntry.content)' /\ Len(gathered') = Len((DueEntry.content.list)')
    BY <1>8, <2>3
  <2> QED
    BY <1>1, <1>2, <1>3, <2>1, <2>4 DEF StreamInv, StageStands
<1> QED
  BY <1>9, <1>10

\* What is handed to the user is what was sent, and the buffer moves on to the next.
LEMMA DeliverHands ==
    ASSUME StreamInv, Deliver
    PROVE  /\ Len(delivered) < Len(sent) /\ WellFormed(DueEntry.content)
           /\ Understands(DueEntry.content.list)
           /\ delivered' = Append(delivered, DueEntry.content)
           /\ consumed = Len(DueEntry.octets) /\ consumed \in Nat /\ consumed <= Len(buffer)
<1>1. /\ CallInv /\ BufferStands /\ StageStands /\ stage = "use" /\ Len(delivered) < Len(sent)
      /\ delivered' = Append(delivered,
            [object |-> object, list |-> [n \in DOMAIN gathered |-> Borrowed(gathered[n])]])
  BY DEF StreamInv, Deliver, StageStands
<1>2. PICK octets, content : octets = DueEntry.octets /\ content = DueEntry.content
  OBVIOUS
<1>3. WalkIs(octets, content) /\ DueIs(octets, content) /\ BufferIs
      /\ Len(gathered) = Len(content.list)
  BY <1>1, <1>2, BufferHolds, BufferStartsWithDue DEF StageStands
<1>4. /\ WellFormed(content) /\ Taken(octets, content.object, content.list)
      /\ Due(octets, content.object, content.list)
      /\ buffer \in Seq(Octet) /\ Agrees(buffer, octets) /\ Len(octets) <= Len(buffer)
      /\ octets \in Seq(Octet) /\ Walked(content.list)
      /\ content = [object |-> content.object, list |-> content.list]
  BY <1>3 DEF WalkIs, DueIs, BufferIs
<1>5. [n \in DOMAIN gathered |-> Borrowed(gathered[n])] = content.list
  BY <1>3, <1>4, BorrowedIs
<1>6. /\ object = content.object /\ consumed = Len(octets) /\ Understands(content.list)
  BY <1>4 DEF Taken
<1>7. delivered' = Append(delivered, content)
  BY ONLY <1>1, <1>4, <1>5, <1>6, Zenon
<1> QED
  BY <1>1, <1>2, <1>4, <1>6, <1>7

LEMMA DeliverKeeps ==
    ASSUME StreamInv, Deliver
    PROVE  StreamInv'
<1> DEFINE d == Len(delivered)
           all == AllOctets
           s == Start
           m == Len(buffer)
           rest == m - consumed
<1>1. /\ CallInv /\ BufferStands /\ StageStands /\ stage = "use" /\ stage' = "receive"
      /\ buffer' = SubSeq(buffer, consumed + 1, m)
      /\ UNCHANGED callVars /\ UNCHANGED <<sent, arrived>>
  BY DEF StreamInv, Deliver
<1>2. CallInv' /\ pc' = "idle"
  BY <1>1, CallStays DEF StageStands, callVars
<1>3. /\ d < Len(sent) /\ delivered' = Append(delivered, DueEntry.content)
      /\ consumed = Len(DueEntry.octets) /\ consumed \in Nat /\ consumed <= m
  BY DeliverHands
<1>4. BufferIs /\ DueIs(DueEntry.octets, DueEntry.content)
  BY <1>1, <1>3, BufferHolds, BufferStartsWithDue
<1>5. /\ s \in Nat /\ m \in Nat /\ s + m = arrived /\ all \in Seq(Octet)
      /\ arrived <= Len(all) /\ d \in Nat /\ Len(sent) \in Nat /\ Len(all) \in Nat
  BY <1>4 DEF BufferIs
<1>6. delivered = [n \in 1 .. d |-> sent[n].content]
      /\ buffer = SubSeq(all, s + 1, arrived)
  BY <1>1 DEF BufferStands
<1>7. Before(sent, d + 2) = s + consumed
  BY <1>3, <1>4 DEF DueIs
<1> DEFINE longer == [n \in 1 .. d + 1 |-> sent[n].content]
<1>8. Append(delivered, DueEntry.content) = longer /\ Len(Append(delivered, DueEntry.content)) = d + 1
  <2> DEFINE f == [n \in 1 .. d |-> sent[n].content]
             x == DueEntry.content
             S == {sent[n].content : n \in 1 .. d + 1}
  <2>1. f \in [1 .. d -> S] /\ x \in S /\ x = sent[d + 1].content
    BY <1>5 DEF DueEntry
  <2>2. longer \in [1 .. d + 1 -> S] /\ longer[d + 1] = x /\ \A n \in 1 .. d : longer[n] = f[n]
    BY <1>5, <2>1
  <2>3. delivered = f
    BY <1>6
  <2> HIDE DEF f, x, S, longer, d
  <2>4. f \in Seq(S) /\ Len(f) = d
    BY ONLY <1>5, <2>1, FunctionIsSequence
  <2> DEFINE n == d + 1
  <2>5. n \in Nat /\ n = d + 1
    BY <1>5
  <2> HIDE DEF n
  <2>6. longer \in Seq(S) /\ Len(longer) = n
    BY ONLY <2>2, <2>5, FunctionIsSequence
  <2>7. Append(f, x) \in Seq(S) /\ Len(Append(f, x)) = d + 1
        /\ Append(f, x)[d + 1] = x /\ \A k \in 1 .. d : Append(f, x)[k] = f[k]
    BY <2>1, <2>4
  <2>8. \A k \in 1 .. n : Append(f, x)[k] = longer[k]
    BY <1>5, <2>2, <2>5, <2>7
  <2>9. Append(f, x) = longer
    BY <2>5, <2>6, <2>7, <2>8, SeqEqual
  <2> QED
    BY <2>3, <2>7, <2>9 DEF x
<1> HIDE DEF longer
<1>9. delivered' = longer /\ Len(delivered') = d + 1
  BY <1>3, <1>8
<1>10. Start' = s + consumed
  <2>1. (d + 1) + 1 = d + 2
    BY <1>5
  <2> HIDE DEF d, s
  <2> QED
    BY <1>1, <1>7, <1>9, <2>1 DEF Start
<1>11. AllOctets' = all
  BY <1>1 DEF AllOctets
<1> HIDE DEF s, all, m
<1>12. buffer' = SubSeq(all, s + consumed + 1, arrived)
  <2>1. rest \in Nat /\ consumed + rest = m /\ s + consumed + rest = arrived /\ consumed + rest <= m
        /\ s + m <= Len(all)
    BY <1>3, <1>5
  <2> HIDE DEF rest
  <2>2. SubSeq(SubSeq(all, s + 1, s + m), consumed + 1, consumed + rest)
          = SubSeq(all, s + consumed + 1, s + consumed + rest)
    <3> DEFINE c == consumed
    <3>1. all \in Seq(Octet) /\ s \in Nat /\ m \in Nat /\ s + m <= Len(all)
          /\ c \in Nat /\ rest \in Nat /\ c + rest <= m
      BY <1>3, <1>5, <2>1
    <3> HIDE DEF c
    <3>2. SubSeq(SubSeq(all, s + 1, s + m), c + 1, c + rest) = SubSeq(all, s + c + 1, s + c + rest)
      BY ONLY <3>1, WindowOfWindow
    <3> QED
      BY <3>2 DEF c
  <2> QED
    BY <1>1, <1>5, <1>6, <2>1, <2>2
<1>13. BufferStands'
  <2>1. s + consumed <= arrived /\ d + 1 <= Len(sent) /\ s + consumed \in Nat /\ arrived \in Nat
    BY <1>3, <1>5
  <2>2. Len(delivered') \in 0 .. Len(sent') /\ sent' \in Streams
    <3>1. Len(sent') = Len(sent)
      BY <1>1
    <3>2. d + 1 \in 0 .. Len(sent)
      BY <1>5, <2>1
    <3> HIDE DEF d
    <3> QED
      BY <1>1, <1>9, <3>1, <3>2 DEF BufferStands
  <2>3. arrived' \in Start' .. Len(AllOctets')
    BY <1>1, <1>5, <1>10, <1>11, <2>1
  <2>4. buffer' = SubSeq(AllOctets', Start' + 1, arrived')
    BY <1>1, <1>10, <1>11, <1>12
  <2>5. delivered' = [n \in 1 .. Len(delivered') |-> sent'[n].content]
    <3>1. longer = [n \in 1 .. d + 1 |-> sent'[n].content]
      BY <1>1 DEF longer
    <3> HIDE DEF d
    <3> QED
      BY <1>9, <3>1
  <2> QED
    BY <2>2, <2>3, <2>4, <2>5 DEF BufferStands
<1> QED
  BY <1>1, <1>2, <1>13 DEF StreamInv, StageStands

LEMMA StreamStarts == StreamInit => StreamInv
<1> SUFFICES ASSUME StreamInit PROVE StreamInv
  OBVIOUS
<1>1. /\ Init /\ sent \in Streams /\ arrived = 0 /\ buffer = <<>> /\ stage = "receive"
      /\ delivered = <<>> /\ pc = "idle"
  BY DEF StreamInit, Init
<1>2. CallInv
  BY <1>1, DecodeInit DEF DecodeInv
<1>3. StreamLies(sent) /\ Len(delivered) = 0
  BY <1>1, StreamInOctets
<1>4. Start = 0 /\ AllOctets \in Seq(Octet) /\ Len(AllOctets) \in Nat
  <2>1. AllOctets \in Seq(Octet)
    BY <1>3 DEF StreamLies, AllOctets
  <2> QED
    BY <1>3, <2>1 DEF StreamLies, Start
<1>5. SubSeq(AllOctets, Start + 1, arrived) = <<>>
  <2>1. 0 + 1 \in Int /\ 0 \in Int /\ 0 < 0 + 1
    OBVIOUS
  <2>2. SubSeq(AllOctets, 0 + 1, 0) = <<>>
    BY ONLY <2>1, SubSeqEmpty
  <2> QED
    BY <1>1, <1>4, <2>2
<1>6. BufferStands
  <2>1. 0 \in 0 .. Len(sent) /\ 0 \in 0 .. Len(AllOctets)
    BY <1>3, <1>4 DEF StreamLies
  <2>2. delivered = [n \in 1 .. 0 |-> sent[n].content]
    BY <1>1
  <2> QED
    BY <1>1, <1>3, <1>4, <1>5, <2>1, <2>2 DEF BufferStands
<1> QED
  BY <1>1, <1>2, <1>6 DEF StreamInv, StageStands

LEMMA StreamSteps == StreamInv /\ [StreamNext]_wireVars => StreamInv'
<1> SUFFICES ASSUME StreamInv, [StreamNext]_wireVars PROVE StreamInv'
  OBVIOUS
<1>1. CASE StreamNext
  BY <1>1, ArriveKeeps, TryDecodeKeeps, InCallKeeps, StartWalkKeeps, WaitKeeps, WalkKeeps,
     DeliverKeeps DEF StreamNext, Receiver
<1>2. CASE UNCHANGED wireVars
  <2>1. /\ UNCHANGED callVars
        /\ UNCHANGED <<sent, arrived, buffer, stage, delivered, walker, gathered>>
    BY <1>2 DEF wireVars, streamVars, walkVars
  <2>2. CallInv' /\ BufferStands'
    BY <2>1, CallStays, BufferStays DEF StreamInv
  <2>3. PICK octets, content : octets = DueEntry.octets /\ content = DueEntry.content
    OBVIOUS
  <2>4. octets = (DueEntry.octets)' /\ content = (DueEntry.content)'
    BY <2>1, <2>3 DEF DueEntry
  <2>5. CallIs(octets, content) => CallIs(octets, content)'
    BY <2>1, CallStays DEF CallIs, callVars
  <2>6. WalkIs(octets, content) => WalkIs(octets, content)'
    BY <2>1, CallStays DEF WalkIs, Walked, Walk!Extension
  <2>7. /\ CallIs(DueEntry.octets, DueEntry.content) => CallIs(DueEntry.octets, DueEntry.content)'
        /\ WalkIs(DueEntry.octets, DueEntry.content) => WalkIs(DueEntry.octets, DueEntry.content)'
    BY <2>3, <2>4, <2>5, <2>6
  <2>8. pc' = pc /\ Len((DueEntry.content.list)') = Len(DueEntry.content.list)
    BY <2>1, <2>3, <2>4 DEF callVars
  <2>9. StageStands'
    BY <2>1, <2>7, <2>8 DEF StreamInv, StageStands
  <2> QED
    BY <2>2, <2>9 DEF StreamInv
<1> QED
  BY <1>1, <1>2

-----------------------------------------------------------------------------
\* Every step of the receiver is one of the queue of objects, or changes nothing of it.
Contents == [n \in DOMAIN sent |-> sent[n].content]

LEMMA QueueIs ==
    ASSUME StreamInv
    PROVE  /\ Len(Contents) = Len(sent) /\ Len(delivered) \in Nat
           /\ Len(delivered) < Len(sent) => Contents[Len(delivered) + 1] = DueEntry.content
<1>1. Len(sent) \in Nat /\ DOMAIN sent = 1 .. Len(sent) /\ Len(delivered) \in Nat
  BY StreamsAssumption, BufferHolds DEF StreamInv, BufferStands, BufferIs
<1>2. Len(Contents) = Len(sent)
  <2> DEFINE N == Len(sent)
             S == {sent[n].content : n \in 1 .. N}
  <2>1. Contents \in [1 .. N -> S] /\ N \in Nat
    BY <1>1 DEF Contents
  <2> HIDE DEF N, S
  <2>2. Len(Contents) = N
    BY ONLY <2>1, FunctionIsSequence
  <2> QED
    BY <2>2 DEF N
<1>3. ASSUME Len(delivered) < Len(sent) PROVE Contents[Len(delivered) + 1] = DueEntry.content
  <2>1. Len(delivered) + 1 \in DOMAIN sent
    BY <1>1, <1>3
  <2> QED
    BY <2>1 DEF Contents, DueEntry
<1> QED
  BY <1>1, <1>2, <1>3

LEMMA DeliverIsDeliver ==
    ASSUME StreamInv, Deliver
    PROVE  Fifo!Deliver
<1>1. /\ Len(delivered) < Len(sent) /\ WellFormed(DueEntry.content)
      /\ Understands(DueEntry.content.list)
      /\ delivered' = Append(delivered, DueEntry.content)
  BY DeliverHands
<1>2. stage = "use" /\ stage' = "receive" /\ sent' = sent
  BY DEF Deliver
<1>3. Len(Contents) = Len(sent) /\ Contents[Len(delivered) + 1] = DueEntry.content
  BY <1>1, QueueIs
<1>4. Acceptable(DueEntry.content)
  BY <1>1 DEF Acceptable, Understands
<1>5. Fifo!Pending /\ Fifo!Due = DueEntry.content
  BY <1>1, <1>3 DEF Fifo!Pending, Fifo!Due, Contents
<1>6. UNCHANGED <<Contents, stage = "closed">>
  BY <1>2 DEF Contents
<1> QED
  BY <1>1, <1>2, <1>4, <1>5, <1>6 DEF Fifo!Deliver, Contents

\* The receiver gives up where it may not act on what is due: a buffer of
\* MCL_WIRE_TIER0_EXT_MAX_SIZE is never full of an object that is still cut short.
LEMMA GiveUpIsClose ==
    ASSUME StreamInv, GiveUp
    PROVE  Fifo!Close
<1>1. /\ stage = "call" /\ pc = "idle" /\ status # "OK" /\ stage' = "closed"
      /\ status = "TRUNCATED" => Len(data) = ExtMaxSize
      /\ sent' = sent /\ delivered' = delivered
  BY DEF GiveUp, Returns
<1>2. Len(delivered) < Len(sent)
  BY <1>1 DEF StreamInv, StageStands
<1>3. PICK octets, content : octets = DueEntry.octets /\ content = DueEntry.content
  OBVIOUS
<1>4. CallIs(octets, content) /\ DueIs(octets, content)
  BY <1>1, <1>2, <1>3, BufferStartsWithDue DEF StreamInv, StageStands
<1>5. ~Acceptable(content)
  <2>1. SUFFICES ASSUME WellFormed(content) PROVE ~Understands(content.list)
    BY DEF Acceptable, Understands
  <2>2. /\ Answered(octets, content.object, content.list)
        /\ octets \in Seq(Octet) /\ Len(octets) <= ExtMaxSize
    BY <1>1, <1>4, <2>1 DEF CallIs, CallStands, DueIs, Due, DueStands
  <2>3. ~(status = "TRUNCATED" /\ Len(data) < Len(octets))
    <3>1. Len(octets) \in Nat /\ Len(data) \in Nat
      BY <2>2 DEF StreamInv, CallInv, CallTypes
    <3>2. ExtMaxSize \in Nat
      BY DecodeExtAssumption DEF ExtMaxSize, MaxFixedSize
    <3> QED
      BY <1>1, <2>2, <3>1, <3>2
  <2> QED
    BY <1>1, <2>2, <2>3 DEF Answered
<1>6. Len(Contents) = Len(sent) /\ Contents[Len(delivered) + 1] = content
  BY <1>2, <1>3, QueueIs
<1>7. Fifo!Pending /\ Fifo!Due = content
  BY <1>2, <1>6 DEF Fifo!Pending, Fifo!Due, Contents
<1>8. UNCHANGED <<Contents, delivered>>
  BY <1>1 DEF Contents
<1> QED
  BY <1>1, <1>5, <1>7, <1>8 DEF Fifo!Close, Contents

LEMMA StreamRefines == StreamInv /\ [StreamNext]_wireVars => [Fifo!Next]_Fifo!vars
<1> SUFFICES ASSUME StreamInv, [StreamNext]_wireVars PROVE Fifo!Next \/ UNCHANGED Fifo!vars
  OBVIOUS
<1>1. CASE Deliver
  BY <1>1, DeliverIsDeliver DEF Fifo!Next
<1>2. CASE GiveUp
  BY <1>2, GiveUpIsClose DEF Fifo!Next
<1>3. ASSUME ~Deliver, ~GiveUp PROVE UNCHANGED Fifo!vars
  <2>1. UNCHANGED <<sent, delivered>>
    BY <1>3 DEF StreamNext, Arrive, Receiver, TryDecode, InCall, StartWalk, Wait, WalkOne, WalkEnds,
                wireVars, streamVars
  <2>2. (stage = "closed") <=> (stage' = "closed")
    BY <1>3 DEF StreamNext, Arrive, Receiver, TryDecode, InCall, StartWalk, Wait, WalkOne, WalkEnds,
                Returns, wireVars, streamVars
  <2> QED
    BY <2>1, <2>2 DEF Fifo!vars
<1> QED
  BY <1>1, <1>2, <1>3

\* What stands at every stage of the receiver: what it has handed out, what the buffer
\* holds, how far the call and the walk have come in the object that is due.
THEOREM StreamInvariant == StreamSpec => []StreamInv
  BY StreamStarts, StreamSteps, PTL DEF StreamSpec

\* An object of the encoder, in any stream and with anything behind it, is TRUNCATED
\* exactly until its last octet has arrived, and consumed is its length
\* (extension.c:315, 332, 371).
THEOREM StreamSelfDelimits == StreamSpec => []ObjectsAreSelfDelimiting
<1>1. StreamInv => ObjectsAreSelfDelimiting
  <2> SUFFICES ASSUME StreamInv, Returns, Len(delivered) < Len(sent),
                      NEW octets, NEW content,
                      octets = DueEntry.octets, content = DueEntry.content, WellFormed(content)
               PROVE  /\ status = "TRUNCATED" <=> Len(data) < Len(octets)
                      /\ status = "OK" => consumed = Len(octets)
    BY DEF ObjectsAreSelfDelimiting, DueEntry
  <2>1. CallIs(octets, content) /\ DueIs(octets, content)
    BY BufferStartsWithDue DEF StreamInv, StageStands, Returns
  <2>2. Answered(octets, content.object, content.list) /\ octets \in Seq(Octet)
    BY <2>1 DEF CallIs, CallStands, DueIs, Returns
  <2>3. Len(octets) \in Nat /\ Len(data) \in Nat
    BY <2>2 DEF StreamInv, CallInv, CallTypes
  <2> QED
    BY <2>2, <2>3 DEF Answered, Taken
<1> QED
  BY <1>1, StreamInvariant, PTL

\* The walk does not fail on a block the call took: "The block is fully
\* validated before this returns: every TLV is well formed, ids strictly increase,
\* lengths fit" (include/mcl/extension.h:196-197).
WalkGoesOn ==
    stage = "walk" =>
        \/ Walk!AtEnd
        \/ /\ Walk!Key.status = "OK" /\ Walk!IdIsNext
           /\ Walk!ValueSize.status = "OK" /\ Walk!ValueFits

THEOREM StreamWalkGoesOn == StreamSpec => []WalkGoesOn
<1>1. StreamInv => WalkGoesOn
  <2> SUFFICES ASSUME StreamInv, stage = "walk", ~Walk!AtEnd
               PROVE  /\ Walk!Key.status = "OK" /\ Walk!IdIsNext
                      /\ Walk!ValueSize.status = "OK" /\ Walk!ValueFits
    BY DEF WalkGoesOn
  <2>1. PICK octets, content : octets = DueEntry.octets /\ content = DueEntry.content
    OBVIOUS
  <2>2. WalkIs(octets, content) /\ DueIs(octets, content) /\ BufferIs
    BY <2>1, BufferHolds, BufferStartsWithDue DEF StreamInv, StageStands
  <2> DEFINE list == content.list
  <2>3. /\ ListStands(list) /\ Lent = Elements(list) /\ Walked(list)
    BY <2>2, BlockIsLent DEF WalkIs, DueIs, Due, BufferIs
  <2> HIDE DEF list
  <2>4. /\ Len(gathered) \in Nat /\ Len(list) \in Nat /\ Len(gathered) <= Len(list)
        /\ walker.offset = Reached(list, Len(gathered))
    BY <2>3 DEF Walked, ListStands
  <2>5. Len(gathered) # Len(list)
    BY <2>3, <2>4 DEF Walk!AtEnd, ListStands, Lent
  <2>6. Len(gathered) < Len(list)
    BY <2>4, <2>5
  <2> QED
    BY <2>3, <2>6, WalkOfList
<1> QED
  BY <1>1, StreamInvariant, PTL

\* In the receiver as in any caller, the reader and consumed are those of the last
\* success together (extension.c:339-341, 369-371).
THEOREM StreamOutputsOfLastSuccess == StreamSpec => []OutputsAreOfLastSuccess
<1>1. StreamInv => OutputsAreOfLastSuccess
  BY DEF StreamInv, CallInv
<1> QED
  BY <1>1, StreamInvariant, PTL

\* The objects come out whole, once and in order, with the extensions they were sent
\* with, and the receiver gives up only at one it may not act on: the safety of
\* ObjectFifo (extension.h:81-84, 115-119, 192-195).
THEOREM StreamImplementsFifo == StreamSpec => Fifo!Safety
<1>1. StreamInit => Fifo!Init
  BY DEF StreamInit, Fifo!Init
<1> QED
  BY <1>1, StreamInvariant, StreamRefines, PTL DEF StreamSpec, Fifo!Safety

=============================================================================
