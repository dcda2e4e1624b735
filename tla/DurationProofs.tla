--------------------------- MODULE DurationProofs ---------------------------
(***************************************************************************)
(* Proofs about the duration codes: the decoder is strictly increasing,    *)
(* the encoder picks the largest code at or below any duration it accepts, *)
(* and however often an object is sent on, its receivers together hold it  *)
(* no longer than its first sender asked for.                              *)
(***************************************************************************)
EXTENDS DurationHops, TLAPS

Steps == {1, 2, 4, 8, 16, 32, 64, 128, 256, 512, 1024, 2048, 4096, 8192, 16384}

\* Every band's codes lie one of these steps apart.
LEMMA StepIsPositive == \A e \in Band : Step[e] \in Steps
BY SMT DEF Band, Step, Steps

\* Each band's step is twice that of the band below.
LEMMA StepDoubles == \A e \in 1 .. 14 : Step[e + 1] = 2 * Step[e]
BY SMT DEF Step

\* Steps never shrink from one band to a higher one.
LEMMA StepGrows == \A e, f \in Band : e < f => 2 * Step[e] <= Step[f]
BY SMT DEF Band, Step

\* A quotient by a band's step, times the step, is the multiple at or below.
LEMMA Quotient ==
    ASSUME NEW d \in Steps, NEW s \in Nat, 16 * d <= s, s <= 31 * d
    PROVE  /\ s \div d \in 16 .. 31
           /\ d * (s \div d) <= s
           /\ s < d * (s \div d) + d
BY SMTT(60) DEF Steps

\* Where in its band a code lies.
LEMMA BandOfCode ==
    ASSUME NEW c \in Code
    PROVE  /\ Exponent(c) \in 0 .. 15
           /\ Mantissa(c) \in 0 .. 15
           /\ c = 16 * Exponent(c) + Mantissa(c)
           /\ Exponent(c) # 0 => Exponent(c) \in Band
BY SMT DEF Code, Band, Exponent, Mantissa

\* The two halves of an octet put together from them.
LEMMA PartsOfCode ==
    ASSUME NEW e \in 0 .. 15, NEW m \in 0 .. 15
    PROVE  Exponent(16 * e + m) = e /\ Mantissa(16 * e + m) = m
BY SMT DEF Exponent, Mantissa

-----------------------------------------------------------------------------
\* A code of band e names a duration within that band.
LEMMA SecondsInBand ==
    ASSUME NEW c \in Code
    PROVE  /\ DurationSeconds(c) \in Nat
           /\ Exponent(c) = 0 => DurationSeconds(c) = c
           /\ Exponent(c) # 0 => /\ BandBottom(Exponent(c)) <= DurationSeconds(c)
                                 /\ DurationSeconds(c) <= BandTop(Exponent(c))
<1> DEFINE e == Exponent(c)
           m == Mantissa(c)
<1>1. e \in 0 .. 15 /\ m \in 0 .. 15 /\ c = 16 * e + m /\ (e # 0 => e \in Band)
  BY BandOfCode
<1>2. CASE e = 0
  BY <1>1, <1>2, SMT DEF DurationSeconds
<1>3. CASE e # 0
  <2>1. Step[e] \in Steps
    BY <1>1, <1>3, StepIsPositive
  <2>2. DurationSeconds(c) = (16 + m) * Step[e]
    BY <1>3 DEF DurationSeconds
  <2>3. \A d \in Steps : /\ (16 + m) * d \in Nat
                         /\ 16 * d <= (16 + m) * d /\ (16 + m) * d <= 31 * d
    BY <1>1, SMT DEF Steps
  <2> QED BY <1>3, <2>1, <2>2, <2>3 DEF BandBottom, BandTop
<1> QED BY <1>2, <1>3

\* mcl_wire_duration_seconds is strictly increasing: no two codes name the same
\* duration, and a larger code always names a longer one.
THEOREM SecondsIncrease ==
    \A c, d \in Code : c < d => DurationSeconds(c) < DurationSeconds(d)
<1> SUFFICES ASSUME NEW c \in Code, NEW d \in Code, c < d
             PROVE  DurationSeconds(c) < DurationSeconds(d)
  OBVIOUS
<1>1. /\ Exponent(c) \in 0 .. 15 /\ Mantissa(c) \in 0 .. 15
      /\ c = 16 * Exponent(c) + Mantissa(c) /\ (Exponent(c) # 0 => Exponent(c) \in Band)
  BY BandOfCode
<1>2. /\ Exponent(d) \in 0 .. 15 /\ Mantissa(d) \in 0 .. 15
      /\ d = 16 * Exponent(d) + Mantissa(d) /\ (Exponent(d) # 0 => Exponent(d) \in Band)
  BY BandOfCode
<1>3. CASE Exponent(c) = Exponent(d)
  <2>1. Mantissa(c) < Mantissa(d)
    BY <1>1, <1>2, <1>3, SMT
  <2>2. CASE Exponent(c) = 0
    BY <1>3, <2>1, <2>2 DEF DurationSeconds
  <2>3. CASE Exponent(c) # 0
    <3>1. Step[Exponent(c)] \in Steps
      BY <1>1, <2>3, StepIsPositive
    <3>2. \A k \in Steps : (16 + Mantissa(c)) * k < (16 + Mantissa(d)) * k
      BY <1>1, <1>2, <2>1, SMT DEF Steps
    <3> QED BY <1>3, <2>3, <3>1, <3>2 DEF DurationSeconds
  <2> QED BY <2>2, <2>3
<1>4. CASE Exponent(c) # Exponent(d)
  <2>1. Exponent(c) < Exponent(d) /\ Exponent(d) \in Band
    BY <1>1, <1>2, <1>4, SMT
  <2>2. BandBottom(Exponent(d)) <= DurationSeconds(d)
    BY <2>1, SecondsInBand DEF Band
  <2>3. Step[Exponent(d)] \in Steps
    BY <2>1, StepIsPositive
  <2>4. CASE Exponent(c) = 0
    <3>1. DurationSeconds(c) = c /\ c < 16
      BY <1>1, <2>4, SecondsInBand, SMT
    <3>2. DurationSeconds(d) \in Nat
      BY SecondsInBand
    <3> QED BY <2>2, <2>3, <3>1, <3>2, SMT DEF BandBottom, Steps, Code
  <2>5. CASE Exponent(c) # 0
    <3>1. Step[Exponent(c)] \in Steps /\ 2 * Step[Exponent(c)] <= Step[Exponent(d)]
      BY <1>1, <2>1, <2>5, StepIsPositive, StepGrows
    <3>2. DurationSeconds(c) <= 31 * Step[Exponent(c)]
      BY <2>5, SecondsInBand DEF BandTop
    <3>3. DurationSeconds(c) \in Nat /\ DurationSeconds(d) \in Nat
      BY SecondsInBand
    <3> QED BY <2>2, <2>3, <3>1, <3>2, <3>3, SMT DEF BandBottom, Steps
  <2> QED BY <2>4, <2>5
<1> QED BY <1>3, <1>4

-----------------------------------------------------------------------------
\* The encoder's loop stops for every duration it is reached with, so the
\* return behind the loop is indeed unreachable.
LEMMA LoopStops ==
    ASSUME NEW s \in Nat, 16 <= s, s <= DURATION_MAX_SECONDS
    PROVE  /\ FirstBand(s) \in Band
           /\ StopsIn(FirstBand(s), s)
           /\ \A f \in Band : f < FirstBand(s) => ~StopsIn(f, s)
<1> DEFINE First(e) == StopsIn(e, s) /\ \A f \in Band : f < e => ~StopsIn(f, s)
<1>1. \E e \in Band : First(e)
  BY SMTT(60) DEF Band, StopsIn, BandBottom, BandTop, Step, DURATION_MAX_SECONDS
<1> QED BY <1>1 DEF FirstBand

\* What the encoder writes decodes to at most the duration, and the next code
\* to more than it.
LEMMA EncodeBrackets ==
    ASSUME NEW s \in Nat, s <= DURATION_MAX_SECONDS
    PROVE  LET c == DurationEncode(s)
           IN  /\ c \in Code
               /\ DurationSeconds(c) <= s
               /\ s < 32 => DurationSeconds(c) = s
               /\ s >= 32 => 16 * (s - DurationSeconds(c)) < s
               /\ c # 255 => s < DurationSeconds(c + 1)
<1> DEFINE c == DurationEncode(s)
<1>1. CASE s < 16
  <2>1. c = s
    BY <1>1 DEF DurationEncode
  <2>2. DurationSeconds(s) = s
    BY <1>1, SMT DEF DurationSeconds, Exponent, Mantissa
  <2>3. DurationSeconds(s + 1) = s + 1
    BY <1>1, SMT DEF DurationSeconds, Exponent, Mantissa, Step
  <2> QED BY <1>1, <2>1, <2>2, <2>3, SMT DEF Code
<1>2. CASE s >= 16
  <2> DEFINE e == FirstBand(s)
             d == Step[e]
  <2>1. s \in Nat /\ 16 <= s /\ s <= DURATION_MAX_SECONDS
    BY <1>2, SMT
  <2>2. e \in Band /\ StopsIn(e, s) /\ \A f \in Band : f < e => ~StopsIn(f, s)
    BY <2>1, LoopStops
  <2>3. d \in Steps
    BY <2>2, StepIsPositive
  <2>4. c = CodeInBand(e, s)
    BY <1>2, SMT DEF DurationEncode
  <2>5. CASE InGapBelow(e, s)
    <3>1. e # 1
      BY <2>1, <2>5, SMT DEF InGapBelow, BandBottom, Step
    <3> DEFINE b == e - 1
    <3>2. b \in Band /\ b \in 1 .. 14 /\ b < e
      BY <2>2, <3>1, SMT DEF Band
    <3>3. Step[b] \in Steps /\ d = 2 * Step[b]
      <4>1. Step[b + 1] = 2 * Step[b]
        BY <3>2, StepDoubles
      <4>2. b + 1 = e
        BY <2>2, SMT DEF Band
      <4> QED BY <3>2, <4>1, <4>2, StepIsPositive
    <3>4. c = 16 * b + 15 /\ c \in Code /\ c # 255
      BY <2>4, <2>5, <3>2, SMT DEF CodeInBand, Code
    <3>5. DurationSeconds(c) = 31 * Step[b]
      <4>1. Exponent(c) = b /\ Mantissa(c) = 15
        BY <3>2, <3>4, SMT DEF Exponent, Mantissa
      <4> QED BY <3>2, <4>1, SMT DEF DurationSeconds
    <3>6. DurationSeconds(c + 1) = 16 * d
      <4>1. Exponent(c + 1) = e /\ Mantissa(c + 1) = 0 /\ e # 0
        BY <2>2, <3>2, <3>4, SMT DEF Exponent, Mantissa, Band
      <4> QED BY <4>1, SMT DEF DurationSeconds
    <3>7. 31 * Step[b] < s
      <4>1. ~StopsIn(b, s)
        BY <2>2, <3>2
      <4> QED BY <2>1, <3>3, <4>1, SMT DEF StopsIn, BandTop, Steps
    <3>8. s < 32 * Step[b]
      BY <2>5, <3>3, SMT DEF InGapBelow, BandBottom, Steps
    <3>9. s >= 32 => 16 * (s - DurationSeconds(c)) < s
      BY <2>1, <3>3, <3>5, <3>7, <3>8, SMT DEF Steps
    <3>10. s >= 32
      BY <2>1, <3>3, <3>7, <3>8, SMT DEF Steps
    <3>11. /\ DurationSeconds(c) <= s
           /\ s < DurationSeconds(c + 1)
      BY <2>1, <3>3, <3>5, <3>6, <3>7, <3>8, SMT DEF Steps
    <3> QED BY <2>1, <3>4, <3>9, <3>10, <3>11, SMT
  <2>6. CASE ~InGapBelow(e, s)
    <3>1. 16 * d <= s /\ s <= 31 * d
      BY <2>1, <2>2, <2>3, <2>6, SMT DEF InGapBelow, StopsIn, BandBottom, BandTop, Steps
    <3> DEFINE q == s \div d
    <3>2. q \in 16 .. 31 /\ d * q <= s /\ s < d * q + d
      BY <2>1, <2>3, <3>1, Quotient
    <3>3. c = 16 * e + (q - 16)
      <4>1. c = e * 16 + ((q - 16) % 16)
        BY <2>4, <2>6 DEF CodeInBand
      <4>2. (q - 16) % 16 = q - 16
        BY <3>2, SMT
      <4> QED BY <4>1, <4>2, <2>2, <3>2, SMT DEF Band
    <3> HIDE DEF q
    <3>4. c \in Code
      BY <2>2, <3>2, <3>3, SMT DEF Band, Code
    <3>5. DurationSeconds(c) = q * d
      <4>1. Exponent(c) = e /\ 16 + Mantissa(c) = q /\ e # 0
        <5> DEFINE m == q - 16
        <5>1. m \in 0 .. 15 /\ e \in 0 .. 15 /\ c = 16 * e + m /\ 16 + m = q
          BY <2>2, <3>2, <3>3, SMT DEF Band
        <5> HIDE DEF m
        <5>2. Exponent(c) = e /\ Mantissa(c) = m
          BY <5>1, PartsOfCode
        <5> QED BY <2>2, <5>1, <5>2, SMT DEF Band
      <4> QED BY <4>1 DEF DurationSeconds
    <3>6. q * d = d * q /\ d * q \in Nat
      BY <2>3, <3>2, SMT DEF Steps
    <3>7. DurationSeconds(c) <= s /\ s - DurationSeconds(c) < d
      BY <2>1, <2>3, <3>2, <3>5, <3>6, SMT DEF Steps
    <3>8. 16 * (s - DurationSeconds(c)) < s \/ s - DurationSeconds(c) = 0
      BY <2>1, <2>3, <3>1, <3>5, <3>6, <3>7, SMT DEF Steps
    <3>9. s < 32 => d = 1
      BY <2>1, <2>3, <3>1, SMT DEF Steps
    <3>10. c # 255 => s < DurationSeconds(c + 1)
      <4> SUFFICES ASSUME c # 255
                   PROVE  s < DurationSeconds(c + 1)
        OBVIOUS
      <4>1. CASE q # 31
        <5>1. Exponent(c + 1) = e /\ Mantissa(c + 1) = q - 15 /\ e # 0
          <6> DEFINE m == q - 15
          <6>1. m \in 0 .. 15 /\ e \in 0 .. 15 /\ e # 0 /\ c + 1 = 16 * e + m
            BY <2>2, <3>2, <3>3, <4>1, SMT DEF Band
          <6> HIDE DEF m
          <6>2. Exponent(c + 1) = e /\ Mantissa(c + 1) = m
            BY <6>1, PartsOfCode
          <6> QED BY <6>1, <6>2 DEF m
        <5>2. DurationSeconds(c + 1) = (16 + (q - 15)) * d
          BY <5>1 DEF DurationSeconds
        <5>3. (16 + (q - 15)) * d = d * q + d
          BY <2>3, <3>2, SMT DEF Steps
        <5> QED BY <3>2, <5>2, <5>3
      <4>2. CASE q = 31
        <5>1. e \in 1 .. 14
          BY <2>2, <3>3, <4>2, SMT DEF Band
        <5>2. Exponent(c + 1) = e + 1 /\ Mantissa(c + 1) = 0 /\ e + 1 # 0
          BY <3>3, <4>2, <5>1, SMT DEF Exponent, Mantissa
        <5>3. DurationSeconds(c + 1) = 16 * Step[e + 1]
          BY <5>2, SMT DEF DurationSeconds
        <5>4. Step[e + 1] = 2 * d
          BY <5>1, StepDoubles
        <5> QED BY <2>1, <2>3, <3>2, <4>2, <5>3, <5>4, SMT DEF Steps
      <4> QED BY <4>1, <4>2
    <3>11. DurationSeconds(c) \in Nat
      BY <3>4, SecondsInBand
    <3> QED BY <2>1, <3>4, <3>7, <3>8, <3>9, <3>10, <3>11, SMT
  <2> QED BY <2>5, <2>6
<1> QED BY <1>1, <1>2, SMT

\* The encoder picks the largest code at or below every duration it accepts.
THEOREM EncodeIsLargest ==
    ASSUME NEW s \in Nat, s <= DURATION_MAX_SECONDS, NEW c \in Code,
           DurationSeconds(c) <= s
    PROVE  DurationSeconds(c) <= DurationSeconds(DurationEncode(s))
<1>1. PICK best \in Code : /\ best = DurationEncode(s)
                           /\ best # 255 => s < DurationSeconds(best + 1)
  BY EncodeBrackets
<1> SUFFICES DurationSeconds(c) <= DurationSeconds(best)
  BY <1>1
<1>2. CASE c <= best
  <2>1. DurationSeconds(c) \in Nat /\ DurationSeconds(best) \in Nat
    BY <1>1, SecondsInBand
  <2>2. CASE c = best
    BY <2>1, <2>2, SMT
  <2>3. CASE c # best
    <3>1. c < best
      BY <1>1, <1>2, <2>3, SMT DEF Code
    <3> QED BY <1>1, <2>1, <3>1, SecondsIncrease, SMT
  <2> QED BY <2>2, <2>3
<1>3. CASE ~(c <= best)
  <2>1. best # 255 /\ best + 1 \in Code /\ (c = best + 1 \/ best + 1 < c)
    BY <1>1, <1>3, SMT DEF Code
  <2>2. DurationSeconds(c) \in Nat /\ DurationSeconds(best + 1) \in Nat
    BY <2>1, SecondsInBand
  <2>3. DurationSeconds(best + 1) <= DurationSeconds(c)
    <3>1. CASE c = best + 1
      BY <2>2, <3>1, SMT
    <3>2. CASE best + 1 < c
      BY <2>1, <2>2, <3>2, SecondsIncrease, SMT
    <3> QED BY <2>1, <3>1, <3>2
  <2> QED BY <1>1, <2>1, <2>2, <2>3, SMT
<1> QED BY <1>2, <1>3

\* A representable duration gets its own code back.
THEOREM EncodeInvertsSeconds ==
    ASSUME NEW c \in Code, DurationSeconds(c) <= DURATION_MAX_SECONDS
    PROVE  DurationEncode(DurationSeconds(c)) = c
<1>1. DurationSeconds(c) \in Nat
  BY SecondsInBand
<1>2. PICK best \in Code : /\ best = DurationEncode(DurationSeconds(c))
                           /\ DurationSeconds(best) <= DurationSeconds(c)
  BY <1>1, EncodeBrackets
<1>3. DurationSeconds(c) <= DurationSeconds(best)
  BY <1>1, <1>2, EncodeIsLargest, SMT
<1>4. DurationSeconds(best) \in Nat
  BY SecondsInBand
<1>5. ~(best < c) /\ ~(c < best)
  BY <1>1, <1>2, <1>3, <1>4, SecondsIncrease, SMT
<1> QED BY <1>2, <1>5, SMT DEF Code

-----------------------------------------------------------------------------
\* No clock runs before the object is sent.
NotStarted == phase = "unsent" => elapsed = 0 /\ onTheWay = 0 /\ age = 0

\* The inductive invariant: each receiver's code is the best one for what was
\* asked, and what it has left fits into what the first sender asked for.
HopsInv ==
    /\ TypeOK /\ NotStarted
    /\ OutlivesByTransitOnly /\ LargestAtOrBelow /\ LossIsSmall

\* What the encoder answers for a duration it accepts, as the invariant needs it.
LEMMA EncodedWell ==
    ASSUME NEW s \in Nat, s <= DURATION_MAX_SECONDS,
           NEW c, c = DurationEncode(s)
    PROVE  /\ c \in Code
           /\ DurationSeconds(c) \in Nat
           /\ DurationSeconds(c) <= s
           /\ \A k \in Code : DurationSeconds(k) <= s => DurationSeconds(k) <= DurationSeconds(c)
           /\ s < 32 => DurationSeconds(c) = s
           /\ s >= 32 => 16 * (s - DurationSeconds(c)) < s
<1>1. /\ c \in Code /\ DurationSeconds(c) <= s
      /\ s < 32 => DurationSeconds(c) = s
      /\ s >= 32 => 16 * (s - DurationSeconds(c)) < s
  BY EncodeBrackets
<1>2. DurationSeconds(c) \in Nat
  BY <1>1, SecondsInBand
<1>3. \A k \in Code : DurationSeconds(k) <= s => DurationSeconds(k) <= DurationSeconds(c)
  BY EncodeIsLargest
<1> QED BY <1>1, <1>2, <1>3

\* Nothing has been sent at first.
LEMMA InitHops == Init => HopsInv
<1> SUFFICES ASSUME Init PROVE HopsInv
  OBVIOUS
<1>1. 0 \in Code /\ DurationSeconds(0) \in Nat
  BY SecondsInBand, SMT DEF Code
<1> QED
  BY <1>1, DurationHopsAssumption, SMT
     DEF Init, HopsInv, UnderWay, TypeOK, NotStarted, OutlivesByTransitOnly, LargestAtOrBelow, LossIsSmall

\* Every step keeps the invariant.
LEMMA NextHops == HopsInv /\ [Next]_vars => HopsInv'
<1> SUFFICES ASSUME HopsInv, [Next]_vars PROVE HopsInv'
  OBVIOUS
<1> USE DurationHopsAssumption
<1>1. ASSUME NEW seconds \in Lifetimes, Publish(seconds) PROVE HopsInv'
  <2>1. seconds \in Nat
    OBVIOUS
  <2>2. CASE DurationRefused(seconds)
    BY <1>1, <2>1, <2>2, SMT
       DEF HopsInv, UnderWay, TypeOK, NotStarted, OutlivesByTransitOnly, LargestAtOrBelow,
           LossIsSmall, Publish
  <2>3. CASE ~DurationRefused(seconds)
    <3>1. seconds <= DURATION_MAX_SECONDS
      BY <2>1, <2>3, SMT DEF DurationRefused, DURATION_MAX_SECONDS
    <3>2. /\ phase' = "sent" /\ lifetime' = seconds /\ asked' = seconds
          /\ code' = DurationEncode(seconds)
          /\ elapsed' = elapsed /\ onTheWay' = onTheWay /\ age' = age /\ hops' = hops
      BY <1>1, <2>3 DEF Publish
    <3>3. elapsed = 0 /\ onTheWay = 0 /\ age = 0 /\ hops \in 0 .. MaxHops
      BY <1>1 DEF HopsInv, TypeOK, NotStarted, Publish
    <3>4. /\ code' \in Code /\ DurationSeconds(code') \in Nat
          /\ DurationSeconds(code') <= seconds
          /\ \A k \in Code : DurationSeconds(k) <= seconds
                                => DurationSeconds(k) <= DurationSeconds(code')
          /\ seconds < 32 => DurationSeconds(code') = seconds
          /\ seconds >= 32 => 16 * (seconds - DurationSeconds(code')) < seconds
      BY <2>1, <3>1, <3>2, EncodedWell
    <3>5. TypeOK'
      BY <2>1, <3>1, <3>2, <3>3, <3>4, SMT DEF UnderWay, TypeOK
    <3>6. OutlivesByTransitOnly'
      BY <2>1, <3>2, <3>3, <3>4, SMT DEF UnderWay, OutlivesByTransitOnly, Remaining
    <3>7. LargestAtOrBelow' /\ LossIsSmall'
      BY <3>2, <3>4 DEF UnderWay, LargestAtOrBelow, LossIsSmall
    <3>8. NotStarted'
      BY <3>2 DEF NotStarted
    <3> QED BY <3>5, <3>6, <3>7, <3>8 DEF HopsInv
  <2> QED BY <2>2, <2>3
<1>2. ASSUME NEW seconds \in Transits, Arrive(seconds) PROVE HopsInv'
  <2>1. seconds \in Nat
    OBVIOUS
  <2>2. /\ phase = "sent" /\ phase' = "current"
        /\ lifetime' = lifetime /\ asked' = asked /\ code' = code /\ age' = age /\ hops' = hops
        /\ elapsed' = elapsed + seconds /\ onTheWay' = onTheWay + seconds
    BY <1>2 DEF Arrive
  <2>3. DurationSeconds(code) \in Nat
    BY SecondsInBand DEF HopsInv, TypeOK
  <2>4. TypeOK'
    BY <2>1, <2>2, <2>3, SMT DEF HopsInv, UnderWay, TypeOK
  <2>5. OutlivesByTransitOnly'
    BY <2>1, <2>2, <2>3, SMT DEF HopsInv, UnderWay, TypeOK, OutlivesByTransitOnly, Remaining
  <2>6. LargestAtOrBelow' /\ LossIsSmall'
    BY <2>2 DEF HopsInv, UnderWay, LargestAtOrBelow, LossIsSmall
  <2>7. NotStarted'
    BY <2>2 DEF NotStarted
  <2> QED BY <2>4, <2>5, <2>6, <2>7 DEF HopsInv
<1>3. ASSUME NEW seconds \in Pauses, Pause(seconds) PROVE HopsInv'
  <2>1. seconds \in Nat
    OBVIOUS
  <2>2. /\ phase' = phase /\ lifetime' = lifetime /\ asked' = asked
        /\ onTheWay' = onTheWay /\ code' = code /\ hops' = hops
        /\ elapsed' = elapsed + seconds /\ age' = age + seconds
        /\ age = 0 /\ seconds <= Remaining
    BY <1>3 DEF Pause
  <2>3. DurationSeconds(code) \in Nat
    BY SecondsInBand DEF HopsInv, TypeOK
  <2>4. TypeOK'
    BY <2>1, <2>2, <2>3, SMT DEF HopsInv, UnderWay, TypeOK, Remaining
  <2>5. OutlivesByTransitOnly'
    BY <2>1, <2>2, <2>3, SMT DEF HopsInv, UnderWay, TypeOK, OutlivesByTransitOnly, Remaining
  <2>6. LargestAtOrBelow' /\ LossIsSmall'
    BY <2>2 DEF HopsInv, UnderWay, LargestAtOrBelow, LossIsSmall
  <2>7. NotStarted'
    BY <1>3, <2>2 DEF Pause, NotStarted
  <2> QED BY <2>4, <2>5, <2>6, <2>7 DEF HopsInv
<1>4. CASE Expire
  BY <1>4 DEF HopsInv, UnderWay, TypeOK, NotStarted, OutlivesByTransitOnly, LargestAtOrBelow, LossIsSmall,
              Expire, Remaining
<1>5. CASE Forward
  <2>1. /\ phase = "current" /\ phase' = "sent"
        /\ lifetime' = lifetime /\ elapsed' = elapsed /\ onTheWay' = onTheWay
        /\ asked' = Remaining /\ code' = DurationEncode(Remaining) /\ age' = 0
        /\ hops < MaxHops /\ hops' = hops + 1
    BY <1>5 DEF Forward
  <2>2. /\ DurationSeconds(code) \in Nat /\ age \in 0 .. DurationSeconds(code)
        /\ DurationSeconds(code) <= asked /\ asked <= DURATION_MAX_SECONDS
        /\ asked \in Nat /\ elapsed \in Nat /\ onTheWay \in Nat /\ lifetime \in Nat
        /\ hops \in 0 .. MaxHops
        /\ elapsed + Remaining <= lifetime + onTheWay
    BY <2>1, SecondsInBand
       DEF HopsInv, UnderWay, TypeOK, OutlivesByTransitOnly, LargestAtOrBelow
  <2>3. Remaining \in Nat /\ Remaining <= DURATION_MAX_SECONDS
    BY <2>2, SMT DEF Remaining, DURATION_MAX_SECONDS
  <2> DEFINE r == Remaining
  <2>4. r \in Nat /\ r <= DURATION_MAX_SECONDS /\ asked' = r /\ elapsed + r <= lifetime + onTheWay
    BY <2>1, <2>2, <2>3
  <2>5. code' = DurationEncode(r)
    BY <2>1
  <2> HIDE DEF r
  <2>6. /\ code' \in Code /\ DurationSeconds(code') \in Nat
        /\ DurationSeconds(code') <= r
        /\ \A k \in Code : DurationSeconds(k) <= r
                              => DurationSeconds(k) <= DurationSeconds(code')
        /\ r < 32 => DurationSeconds(code') = r
        /\ r >= 32 => 16 * (r - DurationSeconds(code')) < r
    BY <2>4, <2>5, EncodedWell
  <2>7. TypeOK'
    BY <2>1, <2>2, <2>4, <2>6, SMT DEF UnderWay, TypeOK
  <2>8. OutlivesByTransitOnly'
    <3>1. Remaining' = DurationSeconds(code')
      BY <2>1, <2>6, SMT DEF Remaining
    <3>2. elapsed' + DurationSeconds(code') <= lifetime' + onTheWay'
      BY <2>1, <2>2, <2>4, <2>6, SMT
    <3> QED BY <3>1, <3>2 DEF UnderWay, OutlivesByTransitOnly
  <2>9. LargestAtOrBelow' /\ LossIsSmall'
    BY <2>4, <2>6 DEF UnderWay, LargestAtOrBelow, LossIsSmall
  <2>10. NotStarted'
    BY <2>1 DEF NotStarted
  <2> QED BY <2>7, <2>8, <2>9, <2>10 DEF HopsInv
<1>6. CASE UNCHANGED vars
  BY <1>6 DEF HopsInv, UnderWay, TypeOK, NotStarted, OutlivesByTransitOnly, LargestAtOrBelow, LossIsSmall,
              Remaining, vars
<1> QED BY <1>1, <1>2, <1>3, <1>4, <1>5, <1>6 DEF Next

\* The invariant holds throughout.
THEOREM HopsInvariant == Spec => []HopsInv
BY InitHops, NextHops, PTL DEF Spec

\* The types; what is sent on again never has to be refused.
THEOREM HopsTypes == Spec => []TypeOK
<1>1. HopsInv => TypeOK
  BY DEF HopsInv
<1> QED BY <1>1, HopsInvariant, PTL

\* The time an object is current at all of its receivers together is at most the
\* lifetime its first sender asked for, so it outlives that by the time it spent on
\* the way and no more, for all lifetimes, pauses, transits and numbers of hops.
THEOREM HopsAddOnlyTransit == Spec => []OutlivesByTransitOnly
<1>1. HopsInv => OutlivesByTransitOnly
  BY DEF HopsInv
<1> QED BY <1>1, HopsInvariant, PTL

\* Every code on the way is the largest at or below what was asked.
THEOREM HopsLargest == Spec => []LargestAtOrBelow
<1>1. HopsInv => LargestAtOrBelow
  BY DEF HopsInv
<1> QED BY <1>1, HopsInvariant, PTL

\* No encoding on the way loses a sixteenth of what was asked.
THEOREM HopsLoseLittle == Spec => []LossIsSmall
<1>1. HopsInv => LossIsSmall
  BY DEF HopsInv
<1> QED BY <1>1, HopsInvariant, PTL

\* Sending an object on at once leaves its code alone.
THEOREM HopsUnchangedAtOnce == Spec => ForwardedAtOnceIsUnchanged
<1>1. HopsInv /\ [Next]_vars => [Forward /\ age = 0 => code' = code]_vars
  <2> SUFFICES ASSUME HopsInv, Forward, age = 0 PROVE code' = code
    OBVIOUS
  <2>1. code \in Code /\ DurationSeconds(code) \in Nat
    BY SecondsInBand DEF HopsInv, TypeOK
  <2>2. phase = "current" /\ code' = DurationEncode(Remaining)
    BY DEF Forward
  <2>3. /\ asked \in Nat /\ asked <= DURATION_MAX_SECONDS
        /\ DurationSeconds(code) <= asked
    BY <2>2 DEF HopsInv, UnderWay, TypeOK, LargestAtOrBelow
  <2>4. Remaining = DurationSeconds(code)
    BY <2>1, SMT DEF Remaining
  <2>5. DurationSeconds(code) <= DURATION_MAX_SECONDS
    BY <2>1, <2>3, SMT DEF DURATION_MAX_SECONDS
  <2> QED BY <2>1, <2>2, <2>4, <2>5, EncodeInvertsSeconds
<1> QED BY <1>1, HopsInvariant, PTL DEF Spec, ForwardedAtOnceIsUnchanged
=============================================================================
