------------------------ MODULE UvarintStreamProofs ------------------------
(***************************************************************************)
(* Proofs about the receiver without framing, for every payload group,     *)
(* word width and number of octets that arrive: what is decoded is exactly *)
(* what encoders write, the receiver is not kept waiting beyond five       *)
(* octets, and an answer is final.                                         *)
(***************************************************************************)
EXTENDS UvarintStream, CodecLemmas

\* The inductive invariant: the verdict is that of decoding what has arrived.
StreamInv == /\ received \in Seq(Octet)
             /\ verdict = UvarintDecode(received, 0)

\* Decoding from scratch at every octet keeps the verdict up to date.
THEOREM StreamInvariant == Spec => []StreamInv
<1>1. Init => StreamInv
  <2> SUFFICES ASSUME Init PROVE StreamInv
    OBVIOUS
  <2>1. received = <<>> /\ verdict = UvarintDecode(<<>>, 0)
    BY DEF Init
  <2> QED
    BY <2>1 DEF StreamInv
<1>2. StreamInv /\ [Next]_vars => StreamInv'
  <2> SUFFICES ASSUME StreamInv, [Next]_vars PROVE StreamInv'
    OBVIOUS
  <2>1. ASSUME NEW octet \in Octet, Receive(octet) PROVE StreamInv'
    BY <2>1 DEF StreamInv, Receive
  <2>2. CASE UNCHANGED vars
    BY <2>2 DEF StreamInv, vars
  <2> QED
    BY <2>1, <2>2 DEF Next
<1> QED
  BY <1>1, <1>2, PTL DEF Spec

\* The decoder answers with one of its four statuses and a word.
THEOREM StreamTypes == Spec => []TypeOK
<1>1. StreamInv => TypeOK
  <2> SUFFICES ASSUME StreamInv PROVE TypeOK
    OBVIOUS
  <2>1. received \in Seq(Octet) /\ 0 \in 0 .. Len(received)
    BY DEF StreamInv
  <2> QED
    BY <2>1, UvarintDecodeType DEF StreamInv, TypeOK
<1> QED
  BY <1>1, StreamInvariant, PTL

\* A sender can not keep the receiver waiting past the fifth octet.
THEOREM StreamFiveOctetsDecide == Spec => []FiveOctetsDecide
<1>1. StreamInv => FiveOctetsDecide
  <2> SUFFICES ASSUME StreamInv, Len(received) >= MaxGroups
               PROVE  verdict.status # "TRUNCATED"
    BY DEF FiveOctetsDecide
  <2>1. Len(received) \in Nat /\ verdict = UvarintDecode(received, 0)
    BY DEF StreamInv
  <2>2. ASSUME NEW i \in 1 .. MaxGroups, verdict = Answer(received, 0, i)
        PROVE  verdict.status # "TRUNCATED"
    BY <2>2 DEF Answer, Refused
  <2>3. ASSUME verdict = Refused(OutOfOctets(Len(received) - 0))
        PROVE  verdict.status # "TRUNCATED"
    BY <2>1, <2>3 DEF Refused, OutOfOctets, MaxGroups
  <2> QED
    BY <2>1, <2>2, <2>3, DecodeWaysOut
<1> QED
  BY <1>1, StreamInvariant, PTL

\* What was accepted or refused stays so when more octets arrive.
THEOREM StreamAnswerIsFinal == Spec => AnswerIsFinal
<1> DEFINE Final == verdict.status # "TRUNCATED" => verdict' = verdict
<1>1. StreamInv /\ [Next]_vars => [Final]_vars
  <2> SUFFICES ASSUME StreamInv, NEW octet \in Octet, Receive(octet),
                      verdict.status # "TRUNCATED"
               PROVE  verdict' = verdict
    BY DEF Next, vars
  <2> DEFINE n == Len(received)
  <2>1. /\ received \in Seq(Octet) /\ n \in Nat
        /\ verdict = UvarintDecode(received, 0) /\ verdict' = UvarintDecode(received', 0)
        /\ received' = Append(received, octet)
    BY DEF StreamInv, Receive
  <2>2. /\ received' \in Seq(Octet) /\ Len(received') = n + 1
        /\ \A k \in 1 .. n : received'[k] = received[k]
    BY <2>1
  <2> HIDE DEF n
  <2>3. ASSUME NEW m \in 0 .. MaxGroups, m <= n
        PROVE  /\ \A k \in 0 .. m : Accumulated(received, 0, k) = Accumulated(received', 0, k)
               /\ \A k \in 1 .. m : Overflows(received, 0, k) <=> Overflows(received', 0, k)
               /\ \A k \in 1 .. m : Halts(received, 0, k) <=> Halts(received', 0, k)
    <3>1. \A k \in 1 .. m : received[0 + k] = received'[0 + k]
      BY <2>1, <2>2, <2>3 DEF MaxGroups
    <3> QED
      BY <3>1, SameOctets
  <2>4. CASE \E i \in 1 .. MaxGroups :
                 FirstHalt(received, 0, i) /\ verdict = Answer(received, 0, i)
    <3>1. PICK i \in 1 .. MaxGroups :
                 FirstHalt(received, 0, i) /\ verdict = Answer(received, 0, i)
      BY <2>4
    <3>2. i \in 1 .. 5 /\ i <= n
      BY <3>1 DEF FirstHalt, MaxGroups, n
    <3>3. /\ Accumulated(received, 0, i) = Accumulated(received', 0, i)
          /\ Overflows(received, 0, i) <=> Overflows(received', 0, i)
          /\ \A k \in 1 .. i : Halts(received, 0, k) <=> Halts(received', 0, k)
      BY <2>3, <3>2 DEF MaxGroups
    <3>4. FirstHalt(received', 0, i)
      <4>1. 0 + i <= Len(received')
        BY <2>1, <2>2, <3>2
      <4>2. i \in 1 .. i /\ \A k \in 1 .. i - 1 : k \in 1 .. i
        BY <3>2
      <4> QED
        BY <3>1, <3>3, <4>1, <4>2 DEF FirstHalt
    <3>5. verdict' = Answer(received', 0, i)
      BY <2>1, <2>2, <3>4, DecodeHalts
    <3>6. Answer(received', 0, i) = Answer(received, 0, i)
      BY <3>3 DEF Answer
    <3> QED
      BY <3>1, <3>5, <3>6
  <2>5. CASE /\ \A i \in 1 .. MaxGroups : 0 + i <= Len(received) => ~Halts(received, 0, i)
             /\ verdict = Refused(OutOfOctets(Len(received) - 0))
    <3>1. n >= 5 /\ verdict = Refused("RANGE")
      BY <2>1, <2>5 DEF Refused, OutOfOctets, MaxGroups, n
    <3>2. \A i \in 1 .. MaxGroups : ~Halts(received', 0, i)
      <4>1. \A i \in 1 .. MaxGroups : ~Halts(received, 0, i)
        BY <2>1, <2>5, <3>1 DEF MaxGroups, n
      <4> QED
        BY <2>1, <2>3, <3>1, <4>1 DEF MaxGroups
    <3>3. verdict' = Refused(OutOfOctets(Len(received') - 0))
      <4>1. Len(received') \in Nat
        BY <2>1, <2>2
      <4>2. \A i \in 1 .. MaxGroups : ~FirstHalt(received', 0, i)
        BY <3>2 DEF FirstHalt
      <4>3. UvarintDecode(received', 0) = Refused(OutOfOctets(Len(received') - 0))
        BY <4>1, <4>2, DecodeWaysOut
      <4> QED
        BY <2>1, <4>3
    <3>4. OutOfOctets(Len(received') - 0) = "RANGE"
      BY <2>1, <2>2, <3>1 DEF OutOfOctets, MaxGroups
    <3> QED
      BY <3>1, <3>3, <3>4
  <2> QED
    BY <2>1, <2>4, <2>5, DecodeWaysOut
<1> QED
  BY <1>1, StreamInvariant, PTL DEF Spec, AnswerIsFinal

-----------------------------------------------------------------------------
\* The reference number of a sequence that was decoded is the word returned:
\* nothing was lost to the width of the word.
LEMMA DenotedIsAccumulated ==
    ASSUME NEW octets \in Seq(Octet), Len(octets) \in 1 .. MaxGroups,
           \A k \in 1 .. Len(octets) :
               /\ Accumulated(octets, 0, k - 1) \in Nat
               /\ Accumulated(octets, 0, k) =
                     Accumulated(octets, 0, k - 1) * Group + (octets[k] % Group)
    PROVE  Denoted(octets) = Accumulated(octets, 0, Len(octets))
<1> DEFINE n == Len(octets)
           Horner(f) == [k \in 0 .. n |->
                            IF k = 0 THEN 0 ELSE f[k - 1] * Group + Payload(octets[k])]
           upTo == CHOOSE f : f = Horner(f)
           a == [k \in 0 .. n |-> Accumulated(octets, 0, k)]
<1>1. n \in 1 .. 5 /\ Accumulated(octets, 0, 0) = 0
  BY AccumulatedSteps DEF MaxGroups
<1>2. a = Horner(a)
  <2>1. ASSUME NEW k \in 0 .. n PROVE a[k] = Horner(a)[k]
    <3>1. CASE k = 0
      BY <1>1, <3>1
    <3>2. CASE k # 0
      <4>1. k \in 1 .. n /\ k - 1 \in 0 .. n
        BY <1>1, <3>2
      <4> QED
        BY <3>2, <4>1 DEF Payload
    <3> QED
      BY <3>1, <3>2
  <2> QED
    BY <2>1
<1>3. upTo = Horner(upTo)
  <2> HIDE DEF Horner, a
  <2> QED
    BY <1>2
<1>4. Denoted(octets) = upTo[n]
  BY DEF Denoted
<1> HIDE DEF upTo
<1>5. /\ upTo[0] = 0
      /\ \A k \in 1 .. n : upTo[k] = upTo[k - 1] * Group + Payload(octets[k])
  <2>1. \A k \in 0 .. n : upTo[k] = IF k = 0 THEN 0 ELSE upTo[k - 1] * Group + Payload(octets[k])
    BY <1>3
  <2> QED
    BY <1>1, <2>1
<1> DEFINE S == {k \in 0 .. n : upTo[k] = Accumulated(octets, 0, k)}
<1>6. 0 \in S
  BY <1>1, <1>5
<1>7. ASSUME NEW k \in 1 .. n, k - 1 \in S PROVE k \in S
  <2>1. upTo[k] = Accumulated(octets, 0, k - 1) * Group + Payload(octets[k])
    BY <1>5, <1>7
  <2>2. upTo[k] = Accumulated(octets, 0, k)
    BY <2>1 DEF Payload
  <2> QED
    BY <1>1, <2>2
<1>8. n \in 0 .. MaxGroups
  BY <1>1 DEF MaxGroups
<1> HIDE DEF S
<1>9. 0 .. n \subseteq S
  BY <1>6, <1>7, <1>8, UpToFive
<1>10. n \in S
  BY <1>1, <1>9
<1> QED
  BY <1>4, <1>10 DEF S

\* What the loop gathers from the first octets it gathers from them alone.
LEMMA PrefixAccumulates ==
    ASSUME NEW data \in Seq(Octet), NEW n \in 0 .. MaxGroups, n <= Len(data)
    PROVE  \A k \in 0 .. n : Accumulated(SubSeq(data, 1, n), 0, k) = Accumulated(data, 0, k)
<1> DEFINE p == SubSeq(data, 1, n)
<1>1. \A k \in 1 .. n : p[0 + k] = data[0 + k]
  BY DEF MaxGroups
<1> HIDE DEF p
<1>2. /\ \A k \in 0 .. n : Accumulated(p, 0, k) = Accumulated(data, 0, k)
      /\ \A k \in 1 .. n : Overflows(p, 0, k) <=> Overflows(data, 0, k)
      /\ \A k \in 1 .. n : Halts(p, 0, k) <=> Halts(data, 0, k)
  BY <1>1, SameOctets
<1> QED
  BY <1>2 DEF p

\* Decoding succeeds on exactly the buffers that begin with an encoding, and
\* returns the number that encoding denotes.
THEOREM StreamDecodesEncodings == Spec => []DecodesExactlyTheEncodings
<1>1. StreamInv => DecodesExactlyTheEncodings
  <2> SUFFICES ASSUME StreamInv PROVE DecodesExactlyTheEncodings
    OBVIOUS
  <2> DEFINE Prefix(n) == SubSeq(received, 1, n)
             Encoded(n) == /\ Denoted(Prefix(n)) \in Word
                           /\ Prefix(n) = UvarintEncode(Denoted(Prefix(n)))
             v == verdict.value
             u == verdict.used
  <2>1. /\ received \in Seq(Octet) /\ Len(received) \in Nat
        /\ verdict = UvarintDecode(received, 0)
    BY DEF StreamInv
  <2>2. \A n \in 1 .. Len(received) :
           /\ Prefix(n) \in Seq(Octet) /\ Len(Prefix(n)) = n
           /\ \A k \in 1 .. n : Prefix(n)[k] = received[k]
    BY <2>1
  <2>3. ASSUME verdict.status = "OK"
        PROVE  u \in 1 .. Len(received) /\ Encoded(u) /\ v = Denoted(Prefix(u))
    <3>1. /\ u \in 1 .. MaxGroups /\ 0 + u <= Len(received)
          /\ v = Accumulated(received, 0, u) /\ v \in Word
          /\ \A k \in 1 .. u :
               /\ Accumulated(received, 0, k - 1) \in Nat
               /\ Accumulated(received, 0, k) =
                     Accumulated(received, 0, k - 1) * Group + (received[0 + k] % Group)
      BY <2>1, <2>3, DecodedRounds
    <3>2. u = Len(UvarintEncode(v)) /\ \A k \in 1 .. u : UvarintEncode(v)[k] = received[0 + k]
      BY <2>1, <2>3, DecodedIsEncoding
    <3> HIDE DEF u, v
    <3>3. u \in 1 .. 5 /\ u \in 1 .. Len(received)
      BY <2>1, <3>1 DEF MaxGroups
    <3>4. Prefix(u) = UvarintEncode(v)
      <4>1. UvarintEncode(v) \in Seq(Octet)
        BY <3>1, EncodedOctets
      <4>2. Prefix(u) \in Seq(Octet) /\ Len(Prefix(u)) = u
            /\ \A k \in 1 .. u : Prefix(u)[k] = UvarintEncode(v)[k]
        BY <2>2, <3>2, <3>3
      <4> HIDE DEF Prefix
      <4> QED
        BY <3>2, <4>1, <4>2, SeqEqual
    <3>5. Denoted(Prefix(u)) = v
      <4>1. \A k \in 0 .. u : Accumulated(Prefix(u), 0, k) = Accumulated(received, 0, k)
        <5>1. u \in 0 .. MaxGroups /\ u <= Len(received)
          BY <2>1, <3>3 DEF MaxGroups
        <5> QED
          BY <2>1, <5>1, PrefixAccumulates
      <4>2. ASSUME NEW k \in 1 .. u
            PROVE  /\ Accumulated(Prefix(u), 0, k - 1) \in Nat
                   /\ Accumulated(Prefix(u), 0, k) =
                        Accumulated(Prefix(u), 0, k - 1) * Group + (Prefix(u)[k] % Group)
        <5> HIDE DEF Prefix
        <5>1. k \in 0 .. u /\ k - 1 \in 0 .. u /\ Prefix(u)[k] = received[0 + k]
          <6>1. u \in 1 .. 5
            BY <3>3
          <6>2. k \in Nat /\ k \in 0 .. u /\ k - 1 \in 0 .. u /\ 0 + k = k
            BY <6>1
          <6>3. Prefix(u)[k] = received[k]
            BY <2>2, <3>3
          <6> QED
            BY <6>2, <6>3
        <5> DEFINE A(j) == Accumulated(received, 0, j)
                   B(j) == Accumulated(Prefix(u), 0, j)
        <5>2. A(k - 1) \in Nat /\ A(k) = A(k - 1) * Group + (received[0 + k] % Group)
          BY <3>1
        <5>3. B(k - 1) = A(k - 1) /\ B(k) = A(k)
          BY <4>1, <5>1
        <5> HIDE DEF A, B
        <5>4. B(k - 1) \in Nat /\ B(k) = B(k - 1) * Group + (Prefix(u)[k] % Group)
          BY <5>1, <5>2, <5>3
        <5> QED
          BY <5>4 DEF B
      <4>3. Prefix(u) \in Seq(Octet) /\ Len(Prefix(u)) = u
        BY <2>2, <3>3
      <4> HIDE DEF Prefix
      <4>4. Denoted(Prefix(u)) = Accumulated(Prefix(u), 0, u)
        BY <3>1, <4>2, <4>3, DenotedIsAccumulated
      <4> QED
        BY <3>1, <3>3, <4>1, <4>4
    <3> QED
      BY <3>1, <3>3, <3>4, <3>5
  <2>4. ASSUME verdict.status # "OK", NEW n \in 1 .. Len(received), Encoded(n)
        PROVE  FALSE
    <3> DEFINE w == Denoted(Prefix(n))
    <3>1. w \in Word /\ Prefix(n) = UvarintEncode(w)
      BY <2>4
    <3>2. /\ Len(Prefix(n)) = n /\ n \in Nat /\ n <= Len(received)
          /\ \A k \in 1 .. n : Prefix(n)[k] = received[0 + k]
      BY <2>1, <2>2
    <3> HIDE DEF w, Prefix
    <3>3. UvarintDecode(received, 0).status = "OK"
      <4>1. /\ 0 + Len(UvarintEncode(w)) <= Len(received)
            /\ \A k \in 1 .. Len(UvarintEncode(w)) : received[0 + k] = UvarintEncode(w)[k]
        BY <3>1, <3>2
      <4> QED
        BY <2>1, <3>1, <4>1, EncodingIsDecoded
    <3> QED
      BY <2>1, <2>4, <3>3
  <2> QED
    BY <2>3, <2>4 DEF DecodesExactlyTheEncodings
<1> QED
  BY <1>1, StreamInvariant, PTL
=============================================================================
