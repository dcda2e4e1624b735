----------------------------- MODULE CodecLemmas -----------------------------
(***************************************************************************)
(* Facts the proofs about the codecs share: about natural numbers and      *)
(* FlattenSeq, which the libraries do not state in a form the provers can  *)
(* use, about the operators of Tier0, and about the variable-length        *)
(* integer, for every payload group and word width: that its decoder       *)
(* accepts the encodings of words and nothing else.  A set of numbers      *)
(* takes the place of the predicate of an induction.                       *)
(***************************************************************************)
EXTENDS Envelope, SequenceTheorems, FiniteSetTheorems, WellFoundedInduction, TLAPS

\* A set of natural numbers that is not empty has a least element.
LEMMA LeastNumber ==
    ASSUME NEW T \in SUBSET Nat, T # {}
    PROVE  \E m \in T : \A k \in T : m <= k
<1>1. IsWellFoundedOn(OpToRel(<, Nat), Nat)
  BY NatLessThanWellFounded
<1>2. PICK m \in T : \A k \in T : <<k, m>> \notin OpToRel(<, Nat)
  BY <1>1, WFMin
<1>3. \A k \in T : ~(k < m)
  BY <1>2 DEF OpToRel
<1> QED
  BY <1>3

\* Induction, over a set instead of a predicate.
LEMMA AllNumbers ==
    ASSUME NEW S, 0 \in S, \A n \in Nat : n \in S => n + 1 \in S
    PROVE  Nat \subseteq S
<1> DEFINE T == Nat \ S
<1> SUFFICES ASSUME T # {} PROVE FALSE
  OBVIOUS
<1>1. PICK m \in T : \A k \in T : m <= k
  BY LeastNumber
<1>2. m # 0 /\ m - 1 \in Nat /\ m - 1 \notin T
  BY <1>1
<1> QED
  BY <1>1, <1>2

\* An appended sequence, position by position.
LEMMA AppendIsFunction ==
    ASSUME NEW S, NEW s \in Seq(S), NEW x \in S
    PROVE  Append(s, x) = [i \in 1 .. Len(s) + 1 |-> IF i <= Len(s) THEN s[i] ELSE x]
<1> DEFINE f == [i \in 1 .. Len(s) + 1 |-> IF i <= Len(s) THEN s[i] ELSE x]
<1>1. Len(s) \in Nat /\ \A i \in 1 .. Len(s) : s[i] \in S
  OBVIOUS
<1>2. f \in Seq(S) /\ Len(f) = Len(s) + 1
  BY <1>1
<1>3. \A i \in 1 .. Len(s) + 1 : f[i] = Append(s, x)[i]
  BY <1>1, AppendProperties
<1>4. Append(s, x) \in Seq(S) /\ Len(Append(s, x)) = Len(s) + 1
  BY AppendProperties
<1> HIDE DEF f
<1>5. Append(s, x) = f
  BY <1>2, <1>3, <1>4, SeqEqual
<1> QED
  BY <1>5 DEF f

\* A function on 1 .. n is a sequence.
LEMMA FunctionIsSequence ==
    ASSUME NEW S, NEW n \in Nat, NEW f \in [1 .. n -> S]
    PROVE  f \in Seq(S) /\ Len(f) = n
<1> DEFINE g == [i \in 1 .. n |-> f[i]]
<1>1. \A i \in 1 .. n : f[i] \in S
  OBVIOUS
<1>2. g \in Seq(S) /\ Len(g) = n
  BY <1>1
<1>3. f = g
  OBVIOUS
<1> QED
  BY <1>2, <1>3

\* The recursion of FlattenSeq, as a property of the function it defines.
Flattens(f, seqs, n) ==
    f = [i \in 1 .. n |-> IF i = 1 THEN seqs[i] ELSE f[i - 1] \o seqs[i]]

\* There is such a function for every length.
LEMMA FlattensExists ==
    ASSUME NEW seqs, NEW n \in Nat
    PROVE  \E f : Flattens(f, seqs, n)
<1> DEFINE S == {m \in Nat : \E f : Flattens(f, seqs, m)}
<1>1. 0 \in S
  <2>1. Flattens([i \in 1 .. 0 |-> <<>>], seqs, 0)
    BY DEF Flattens
  <2> QED
    BY <2>1
<1>2. ASSUME NEW m \in Nat, m \in S PROVE m + 1 \in S
  <2>1. PICK f : Flattens(f, seqs, m)
    BY <1>2
  <2> DEFINE g == [i \in 1 .. m + 1 |-> IF i = 1 THEN seqs[i] ELSE f[i - 1] \o seqs[i]]
  <2>2. \A i \in 1 .. m : g[i] = f[i]
    <3> SUFFICES ASSUME NEW i \in 1 .. m PROVE g[i] = f[i]
      OBVIOUS
    <3>1. f[i] = IF i = 1 THEN seqs[i] ELSE f[i - 1] \o seqs[i]
      <4> DEFINE Value(j) == IF j = 1 THEN seqs[j] ELSE f[j - 1] \o seqs[j]
      <4>1. f = [j \in 1 .. m |-> Value(j)]
        BY <2>1 DEF Flattens
      <4> HIDE DEF Value
      <4>2. f[i] = Value(i)
        BY <4>1
      <4> QED
        BY <4>2 DEF Value
    <3>2. i \in 1 .. m + 1
      OBVIOUS
    <3> QED
      BY <3>1, <3>2
  <2>3. \A i \in 1 .. m + 1 : g[i] = IF i = 1 THEN seqs[i] ELSE g[i - 1] \o seqs[i]
    <3> SUFFICES ASSUME NEW i \in 1 .. m + 1
                 PROVE  g[i] = IF i = 1 THEN seqs[i] ELSE g[i - 1] \o seqs[i]
      OBVIOUS
    <3>1. i # 1 => i - 1 \in 1 .. m
      OBVIOUS
    <3> QED
      BY <2>2, <3>1
  <2>4. Flattens(g, seqs, m + 1)
    BY <2>3 DEF Flattens
  <2> QED
    BY <2>4
<1> HIDE DEF S
<1>3. n \in S
  BY <1>1, <1>2, AllNumbers
<1> QED
  BY <1>3 DEF S

\* What FlattenSeq returns is the last value of such a function.
LEMMA FlattenIsLast ==
    ASSUME NEW seqs, Len(seqs) \in Nat \ {0}
    PROVE  \E f : Flattens(f, seqs, Len(seqs)) /\ FlattenSeq(seqs) = f[Len(seqs)]
<1> DEFINE f == CHOOSE f : Flattens(f, seqs, Len(seqs))
<1>1. Flattens(f, seqs, Len(seqs))
  BY FlattensExists
<1>2. FlattenSeq(seqs) = f[Len(seqs)]
  BY DEF FlattenSeq, Flattens
<1> QED
  BY <1>1, <1>2

\* Its values are sequences over the same set.
LEMMA FlattensType ==
    ASSUME NEW S, NEW n \in Nat, NEW seqs, \A i \in 1 .. n : seqs[i] \in Seq(S),
           NEW f, Flattens(f, seqs, n)
    PROVE  \A i \in 1 .. n : f[i] \in Seq(S)
<1> DEFINE T == {i \in Nat : i \in 1 .. n => f[i] \in Seq(S)}
<1>1. 0 \in T
  OBVIOUS
<1>2. ASSUME NEW i \in Nat, i \in T PROVE i + 1 \in T
  <2> SUFFICES ASSUME i + 1 \in 1 .. n PROVE f[i + 1] \in Seq(S)
    OBVIOUS
  <2>1. CASE i = 0
    BY <2>1 DEF Flattens
  <2>2. CASE i # 0
    <3>1. i \in 1 .. n /\ f[i] \in Seq(S) /\ (i + 1) - 1 = i /\ i + 1 # 1
      BY <1>2, <2>2
    <3>2. f[i + 1] = f[i] \o seqs[i + 1]
      BY <3>1 DEF Flattens
    <3> QED
      BY <3>1, <3>2
  <2> QED
    BY <2>1, <2>2
<1> HIDE DEF T
<1>3. Nat \subseteq T
  BY <1>1, <1>2, AllNumbers
<1> QED
  BY <1>3 DEF T

\* They depend on the sequences before them only.
LEMMA FlattensUnique ==
    ASSUME NEW n \in Nat, NEW m \in Nat, n <= m, NEW seqs, NEW more,
           \A i \in 1 .. n : seqs[i] = more[i],
           NEW f, Flattens(f, seqs, n), NEW g, Flattens(g, more, m)
    PROVE  \A i \in 1 .. n : f[i] = g[i]
<1> DEFINE T == {i \in Nat : i \in 1 .. n => f[i] = g[i]}
<1>1. 0 \in T
  OBVIOUS
<1>2. ASSUME NEW i \in Nat, i \in T PROVE i + 1 \in T
  <2> SUFFICES ASSUME i + 1 \in 1 .. n PROVE f[i + 1] = g[i + 1]
    OBVIOUS
  <2>0. i + 1 \in 1 .. m
    OBVIOUS
  <2>1. CASE i = 0
    BY <2>0, <2>1 DEF Flattens
  <2>2. CASE i # 0
    <3>1. i \in 1 .. n /\ f[i] = g[i] /\ (i + 1) - 1 = i /\ i + 1 # 1
      BY <1>2, <2>2
    <3>2. f[i + 1] = f[i] \o seqs[i + 1] /\ g[i + 1] = g[i] \o more[i + 1]
      BY ZenonT(60), <2>0, <3>1 DEF Flattens
    <3> QED
      BY <3>1, <3>2
  <2> QED
    BY <2>1, <2>2
<1> HIDE DEF T
<1>3. Nat \subseteq T
  BY <1>1, <1>2, AllNumbers
<1> QED
  BY <1>3 DEF T

\* Flattening one sequence of octets after another gives a sequence of octets.
LEMMA FlattenType ==
    ASSUME NEW S, NEW seqs \in Seq(Seq(S))
    PROVE  FlattenSeq(seqs) \in Seq(S)
<1>1. CASE Len(seqs) = 0
  <2>1. seqs = <<>>
    BY <1>1
  <2> QED
    BY <1>1, <2>1 DEF FlattenSeq
<1>2. CASE Len(seqs) # 0
  <2> DEFINE n == Len(seqs)
  <2>1. n \in Nat \ {0} /\ \A i \in 1 .. n : seqs[i] \in Seq(S)
    BY <1>2
  <2>2. PICK f : Flattens(f, seqs, n) /\ FlattenSeq(seqs) = f[n]
    BY <2>1, FlattenIsLast
  <2> HIDE DEF n
  <2>3. f[n] \in Seq(S)
    BY <2>1, <2>2, FlattensType
  <2> QED
    BY <2>2, <2>3
<1> QED
  BY <1>1, <1>2

\* One sequence more goes to the end.
LEMMA FlattenAppend ==
    ASSUME NEW S, NEW seqs \in Seq(Seq(S)), NEW e \in Seq(S)
    PROVE  FlattenSeq(Append(seqs, e)) = FlattenSeq(seqs) \o e
<1> DEFINE more == Append(seqs, e)
           n == Len(seqs)
<1>1. /\ n \in Nat /\ Len(more) = n + 1 /\ more[n + 1] = e
      /\ \A i \in 1 .. n : seqs[i] = more[i]
  OBVIOUS
<1> HIDE DEF more
<1>2. Len(more) \in Nat \ {0}
  BY <1>1
<1>3. PICK g : Flattens(g, more, Len(more)) /\ FlattenSeq(more) = g[Len(more)]
  BY <1>2, FlattenIsLast
<1>4. CASE n = 0
  <2>1. seqs = <<>> /\ FlattenSeq(seqs) = <<>>
    BY <1>4 DEF FlattenSeq
  <2>2. g[1] = e /\ FlattenSeq(more) = g[1]
    BY <1>1, <1>3, <1>4 DEF Flattens
  <2>3. <<>> \o e = e
    OBVIOUS
  <2> QED
    BY <2>1, <2>2, <2>3 DEF more
<1>5. CASE n # 0
  <2>1. PICK f : Flattens(f, seqs, n) /\ FlattenSeq(seqs) = f[n]
    BY <1>1, <1>5, FlattenIsLast
  <2>2. n \in 1 .. n /\ n + 1 \in 1 .. n + 1 /\ n + 1 # 1 /\ (n + 1) - 1 = n /\ n + 1 \in Nat
    BY <1>1, <1>5
  <2> HIDE DEF n
  <2>3. f[n] = g[n]
    <3>1. Flattens(g, more, n + 1) /\ n <= n + 1 /\ n \in Nat
      BY <1>1, <1>3
    <3>2. \A i \in 1 .. n : f[i] = g[i]
      BY <1>1, <2>1, <2>2, <3>1, FlattensUnique
    <3> QED
      BY <2>2, <3>2
  <2>4. g[n + 1] = g[n] \o e
    BY <1>1, <1>3, <2>2 DEF Flattens
  <2> QED
    BY <1>1, <1>3, <2>1, <2>3, <2>4 DEF more
<1> QED
  BY <1>4, <1>5

\* The same, for sequences given position by position.
OneMore(e, n, x) == [i \in 1 .. n + 1 |-> IF i <= n THEN e[i] ELSE x]

LEMMA FlattenOneMore ==
    ASSUME NEW S, NEW n \in Nat, NEW e \in [1 .. n -> Seq(S)], NEW x \in Seq(S)
    PROVE  FlattenSeq(OneMore(e, n, x)) = FlattenSeq(e) \o x
<1>1. e \in Seq(Seq(S)) /\ Len(e) = n
  BY FunctionIsSequence
<1>2. OneMore(e, n, x) = Append(e, x)
  <2> DEFINE T == Seq(S)
  <2>1. e \in Seq(T) /\ x \in T
    BY <1>1
  <2> HIDE DEF T
  <2>2. Append(e, x) = [i \in 1 .. Len(e) + 1 |-> IF i <= Len(e) THEN e[i] ELSE x]
    BY <2>1, AppendIsFunction
  <2> QED
    BY <1>1, <2>2 DEF OneMore
<1> QED
  BY <1>1, <1>2, FlattenAppend

\* What the first i sequences flatten to.
FlatTo(e, i) == FlattenSeq([j \in 1 .. i |-> e[j]])

LEMMA FlatToSteps ==
    ASSUME NEW S, NEW n \in Nat, NEW e \in [1 .. n -> Seq(S)], NEW i \in 0 .. n
    PROVE  /\ FlatTo(e, 0) = <<>> /\ FlatTo(e, i) \in Seq(S)
           /\ i < n => FlatTo(e, i + 1) = FlatTo(e, i) \o e[i + 1]
           /\ FlatTo(e, n) = FlattenSeq(e)
<1> DEFINE T == Seq(S)
           part == [j \in 1 .. i |-> e[j]]
<1>1. part \in [1 .. i -> T] /\ i \in Nat
  OBVIOUS
<1>2. part \in Seq(T) /\ Len(part) = i
  <2> HIDE DEF part, T
  <2> QED
    BY <1>1, FunctionIsSequence
<1>3. FlatTo(e, i) \in Seq(S)
  <2>1. FlattenSeq(part) \in Seq(S)
    <3> HIDE DEF part
    <3> QED
      BY <1>2, FlattenType
  <2> QED
    BY <2>1 DEF FlatTo
<1>4. FlatTo(e, 0) = <<>>
  <2> DEFINE none == [j \in 1 .. 0 |-> e[j]]
  <2>1. none \in [1 .. 0 -> T] /\ 0 \in Nat
    OBVIOUS
  <2>2. none \in Seq(T) /\ Len(none) = 0
    <3> HIDE DEF none, T
    <3> QED
      BY <2>1, FunctionIsSequence
  <2>3. none = <<>>
    BY <2>2
  <2> HIDE DEF none
  <2>4. FlattenSeq(none) = <<>>
    BY <2>2, <2>3 DEF FlattenSeq
  <2> QED
    BY <2>4 DEF FlatTo, none
<1>5. ASSUME i < n PROVE FlatTo(e, i + 1) = FlatTo(e, i) \o e[i + 1]
  <2>1. i + 1 \in 1 .. n /\ e[i + 1] \in Seq(S) /\ 1 .. i + 1 \subseteq 1 .. n
    BY <1>5
  <2>2. OneMore(part, i, e[i + 1]) = [j \in 1 .. i + 1 |-> e[j]]
    <3>1. \A j \in 1 .. i + 1 : (IF j <= i THEN part[j] ELSE e[i + 1]) = e[j]
      OBVIOUS
    <3> HIDE DEF part
    <3> QED
      BY <3>1 DEF OneMore
  <2>3. FlattenSeq(OneMore(part, i, e[i + 1])) = FlattenSeq(part) \o e[i + 1]
    <3> HIDE DEF part
    <3> QED
      BY <1>1, <2>1, FlattenOneMore
  <2> HIDE DEF part
  <2> QED
    BY <2>2, <2>3 DEF FlatTo, part
<1>6. FlatTo(e, n) = FlattenSeq(e)
  <2>1. [j \in 1 .. n |-> e[j]] = e
    OBVIOUS
  <2> QED
    BY <2>1 DEF FlatTo
<1> QED
  BY <1>3, <1>4, <1>5, <1>6

\* The later ones go behind it.
LEMMA FlatToGrows ==
    ASSUME NEW S, NEW n \in Nat, NEW e \in [1 .. n -> Seq(S)], NEW i \in 0 .. n,
           NEW m \in 0 .. n, i <= m
    PROVE  /\ Len(FlatTo(e, i)) <= Len(FlatTo(e, m))
           /\ \A k \in 1 .. Len(FlatTo(e, i)) : FlatTo(e, m)[k] = FlatTo(e, i)[k]
<1> DEFINE Behind(l) == /\ Len(FlatTo(e, i)) <= Len(FlatTo(e, l))
                        /\ \A k \in 1 .. Len(FlatTo(e, i)) : FlatTo(e, l)[k] = FlatTo(e, i)[k]
           T == {l \in Nat : l \in i .. n => Behind(l)}
<1>0. \A l \in 0 .. n : FlatTo(e, l) \in Seq(S) /\ Len(FlatTo(e, l)) \in Nat
  BY FlatToSteps
<1>1. 0 \in T
  <2>1. 0 \in i .. n => i = 0
    OBVIOUS
  <2>2. Behind(i)
    BY <1>0
  <2> HIDE DEF Behind
  <2> QED
    BY <2>1, <2>2
<1>2. ASSUME NEW l \in Nat, l \in T PROVE l + 1 \in T
  <2> SUFFICES ASSUME l + 1 \in i .. n PROVE Behind(l + 1)
    OBVIOUS
  <2>1. CASE l + 1 = i
    <3>1. Behind(i)
      BY <1>0
    <3> HIDE DEF Behind
    <3> QED
      BY <2>1, <3>1
  <2>2. CASE l + 1 # i
    <3>1. l \in i .. n /\ l \in 0 .. n /\ l < n
      BY <2>2
    <3>2. Behind(l)
      BY <1>2, <3>1
    <3> DEFINE p == FlatTo(e, i)
               q == FlatTo(e, l)
               x == e[l + 1]
               r == FlatTo(e, l + 1)
    <3>3. r = q \o x
      BY <3>1, FlatToSteps
    <3>4. p \in Seq(S) /\ q \in Seq(S) /\ x \in Seq(S)
      <4>1. l + 1 \in 1 .. n
        BY <3>1
      <4> QED
        BY <1>0, <3>1, <4>1
    <3>5. Len(p) <= Len(q) /\ \A k \in 1 .. Len(p) : q[k] = p[k]
      BY <3>2
    <3> HIDE DEF p, q, x, r, Behind
    <3>6. Len(p) <= Len(r) /\ \A k \in 1 .. Len(p) : r[k] = p[k]
      BY <3>3, <3>4, <3>5
    <3> QED
      BY <3>6 DEF Behind, p, r
  <2> QED
    BY <2>1, <2>2
<1> HIDE DEF T
<1>3. Nat \subseteq T
  BY <1>1, <1>2, AllNumbers
<1>4. m \in T /\ m \in i .. n
  BY <1>3
<1> QED
  BY <1>4 DEF T

\* Where each of them lies.
LiesIn(e, i) ==
    /\ Len(FlatTo(e, i - 1)) \in Nat /\ Len(e[i]) \in Nat
    /\ Len(FlatTo(e, i)) = Len(FlatTo(e, i - 1)) + Len(e[i])
    /\ Len(FlatTo(e, i)) <= Len(FlattenSeq(e))
    /\ \A k \in 1 .. Len(e[i]) : FlattenSeq(e)[Len(FlatTo(e, i - 1)) + k] = e[i][k]

LEMMA FlatPart ==
    ASSUME NEW S, NEW n \in Nat, NEW e \in [1 .. n -> Seq(S)], NEW i \in 1 .. n
    PROVE  LiesIn(e, i) /\ FlattenSeq(e) \in Seq(S)
<1> DEFINE p == FlatTo(e, i - 1)
           q == FlatTo(e, i)
           x == e[i]
           all == FlattenSeq(e)
<1>1. i - 1 \in 0 .. n /\ i \in 0 .. n /\ i - 1 < n /\ (i - 1) + 1 = i /\ n \in 0 .. n /\ i <= n
  OBVIOUS
<1>2. p \in Seq(S) /\ q = p \o x /\ x \in Seq(S) /\ all \in Seq(S) /\ all = FlatTo(e, n)
  <2>1. \A k \in 0 .. n : FlatTo(e, k) \in Seq(S)
    BY ONLY n \in Nat, e \in [1 .. n -> Seq(S)], FlatToSteps
  <2>2. \A k \in 0 .. n : k < n => FlatTo(e, k + 1) = FlatTo(e, k) \o e[k + 1]
    BY ONLY n \in Nat, e \in [1 .. n -> Seq(S)], FlatToSteps
  <2>3. FlatTo(e, n) = FlattenSeq(e)
    BY ONLY n \in Nat, e \in [1 .. n -> Seq(S)], <1>1, FlatToSteps
  <2>4. FlatTo(e, (i - 1) + 1) = FlatTo(e, i - 1) \o e[(i - 1) + 1]
    BY ONLY <1>1, <2>2
  <2> QED
    BY <1>1, <2>1, <2>3, <2>4
<1>3. Len(q) <= Len(all) /\ \A k \in 1 .. Len(q) : all[k] = q[k]
  <2>1. /\ Len(q) <= Len(FlatTo(e, n))
        /\ \A k \in 1 .. Len(q) : FlatTo(e, n)[k] = q[k]
    BY ONLY n \in Nat, e \in [1 .. n -> Seq(S)], <1>1, FlatToGrows
  <2> QED
    BY <1>2, <2>1
<1> HIDE DEF p, q, x, all
<1>4. Len(q) = Len(p) + Len(x) /\ Len(p) \in Nat /\ Len(x) \in Nat
  BY <1>2
<1>5. \A k \in 1 .. Len(x) : Len(p) + k \in 1 .. Len(q) /\ q[Len(p) + k] = x[k]
  BY <1>2, <1>4
<1>6. \A k \in 1 .. Len(x) : all[Len(p) + k] = x[k]
  BY <1>3, <1>5
<1> QED
  BY <1>2, <1>3, <1>4, <1>6 DEF LiesIn, p, q, x, all

-----------------------------------------------------------------------------
\* A function defined by recursion from 0 to n.
Recursion(f, V, a, g, n) ==
    f \in [0 .. n -> V] /\ f = [i \in 0 .. n |-> IF i = 0 THEN a ELSE g[i][f[i - 1]]]

LEMMA RecursionExists ==
    ASSUME NEW V, NEW a \in V, NEW g \in [Nat -> [V -> V]], NEW n \in Nat
    PROVE  \E f : Recursion(f, V, a, g, n)
<1> DEFINE S == {m \in Nat : \E f : Recursion(f, V, a, g, m)}
<1>1. 0 \in S
  <2>1. Recursion([i \in 0 .. 0 |-> a], V, a, g, 0)
    BY DEF Recursion
  <2> QED
    BY <2>1
<1>2. ASSUME NEW m \in Nat, m \in S PROVE m + 1 \in S
  <2>1. PICK f : Recursion(f, V, a, g, m)
    BY <1>2
  <2>2. g[m + 1][f[m]] \in V
    BY <2>1 DEF Recursion
  <2> DEFINE h == [i \in 0 .. m + 1 |-> IF i = m + 1 THEN g[m + 1][f[m]] ELSE f[i]]
  <2>3. h \in [0 .. m + 1 -> V]
    BY <2>1, <2>2 DEF Recursion
  <2>4. \A i \in 0 .. m + 1 : h[i] = IF i = 0 THEN a ELSE g[i][h[i - 1]]
    <3> SUFFICES ASSUME NEW i \in 0 .. m + 1
                 PROVE  h[i] = IF i = 0 THEN a ELSE g[i][h[i - 1]]
      OBVIOUS
    <3>1. CASE i = m + 1
      BY <3>1
    <3>2. CASE i # m + 1
      <4>1. i \in 0 .. m /\ h[i] = f[i] /\ (i # 0 => h[i - 1] = f[i - 1])
        BY <3>2
      <4>2. f[i] = IF i = 0 THEN a ELSE g[i][f[i - 1]]
        <5> DEFINE Value(j) == IF j = 0 THEN a ELSE g[j][f[j - 1]]
        <5>1. f = [j \in 0 .. m |-> Value(j)]
          BY <2>1 DEF Recursion
        <5> HIDE DEF Value
        <5>2. f[i] = Value(i)
          BY <4>1, <5>1
        <5> QED
          BY <5>2 DEF Value
      <4> QED
        BY <4>1, <4>2
    <3> QED
      BY <3>1, <3>2
  <2> HIDE DEF h
  <2>5. h = [i \in 0 .. m + 1 |-> IF i = 0 THEN a ELSE g[i][h[i - 1]]]
    BY <2>3, <2>4
  <2>6. Recursion(h, V, a, g, m + 1)
    BY <2>3, <2>5 DEF Recursion
  <2> QED
    BY <2>6
<1> HIDE DEF S
<1>3. n \in S
  BY <1>1, <1>2, AllNumbers
<1> QED
  BY <1>3 DEF S

\* The number of a sequence of bits, one bit at a time.
NumbersOf(f, bits) ==
    /\ f \in [0 .. Len(bits) -> Nat]
    /\ f[0] = 0
    /\ \A i \in 1 .. Len(bits) : f[i] = 2 * f[i - 1] + bits[i]

LEMMA NumberIsLast ==
    ASSUME NEW bits \in Seq({0, 1})
    PROVE  \E f : NumbersOf(f, bits) /\ NumberOf(bits) = f[Len(bits)]
<1> DEFINE n == Len(bits)
           g == [i \in Nat |-> [x \in Nat |-> 2 * x + (IF i \in 1 .. n THEN bits[i] ELSE 0)]]
           Is(f) == f = [i \in 0 .. Len(bits) |-> IF i = 0 THEN 0 ELSE 2 * f[i - 1] + bits[i]]
<1>1. n \in Nat /\ \A i \in 1 .. n : bits[i] \in {0, 1}
  OBVIOUS
<1>2. g \in [Nat -> [Nat -> Nat]]
  BY <1>1
<1>3. PICK f : Recursion(f, Nat, 0, g, n)
  BY <1>1, <1>2, RecursionExists
<1>4. f \in [0 .. n -> Nat] /\ \A i \in 0 .. n : f[i] = IF i = 0 THEN 0 ELSE g[i][f[i - 1]]
  <2> DEFINE Value(i) == IF i = 0 THEN 0 ELSE g[i][f[i - 1]]
  <2>1. f = [i \in 0 .. n |-> Value(i)] /\ f \in [0 .. n -> Nat]
    BY <1>3 DEF Recursion
  <2> HIDE DEF Value
  <2>2. \A i \in 0 .. n : f[i] = Value(i)
    BY <2>1
  <2> QED
    BY <2>1, <2>2 DEF Value
<1>5. \A i \in 1 .. n : g[i][f[i - 1]] = 2 * f[i - 1] + bits[i]
  <2> SUFFICES ASSUME NEW i \in 1 .. n PROVE g[i][f[i - 1]] = 2 * f[i - 1] + bits[i]
    OBVIOUS
  <2>1. i \in Nat /\ i - 1 \in 0 .. n /\ f \in [0 .. n -> Nat]
    BY <1>1, <1>4
  <2>2. f[i - 1] \in Nat
    BY <2>1
  <2>3. g[i] = [x \in Nat |-> 2 * x + (IF i \in 1 .. n THEN bits[i] ELSE 0)]
    BY <2>1
  <2> QED
    BY <2>2, <2>3
<1> HIDE DEF g
<1>6. \A i \in 0 .. n : f[i] = IF i = 0 THEN 0 ELSE 2 * f[i - 1] + bits[i]
  BY <1>1, <1>4, <1>5
<1>7. Is(f)
  BY <1>4, <1>6
<1> DEFINE result == CHOOSE h : Is(h)
<1>8. Is(result) /\ NumberOf(bits) = result[n]
  <2>1. Is(result)
    BY <1>7
  <2>2. NumberOf(bits) = result[n]
    BY DEF NumberOf
  <2> QED
    BY <2>1, <2>2
<1> HIDE DEF result
<1>9. \A i \in 0 .. n : result[i] = IF i = 0 THEN 0 ELSE 2 * result[i - 1] + bits[i]
  <2> DEFINE Value(i) == IF i = 0 THEN 0 ELSE 2 * result[i - 1] + bits[i]
  <2>1. result = [i \in 0 .. n |-> Value(i)]
    BY <1>8
  <2> HIDE DEF Value
  <2>2. \A i \in 0 .. n : result[i] = Value(i)
    BY <2>1
  <2> QED
    BY <2>2 DEF Value
<1>10. \A i \in 0 .. n : result[i] = f[i]
  <2> DEFINE S == {i \in Nat : i \in 0 .. n => result[i] = f[i]}
  <2>1. 0 \in S
    BY <1>6, <1>9
  <2>2. ASSUME NEW i \in Nat, i \in S PROVE i + 1 \in S
    <3> SUFFICES ASSUME i + 1 \in 0 .. n PROVE result[i + 1] = f[i + 1]
      OBVIOUS
    <3>1. i \in 0 .. n /\ i + 1 # 0 /\ (i + 1) - 1 = i
      BY <1>1
    <3> QED
      BY <1>6, <1>9, <2>2, <3>1
  <2> HIDE DEF S
  <2>3. Nat \subseteq S
    BY <2>1, <2>2, AllNumbers
  <2> QED
    BY <1>1, <2>3 DEF S
<1>11. NumbersOf(f, bits)
  BY <1>1, <1>4, <1>6 DEF NumbersOf
<1> QED
  BY <1>1, <1>8, <1>10, <1>11

-----------------------------------------------------------------------------
\* Eight bits make an octet, the first of them the most significant.
LEMMA OctetOfBits ==
    ASSUME NEW bits \in [1 .. 8 -> {0, 1}]
    PROVE  /\ NumberOf(bits) = 128 * bits[1] + 64 * bits[2] + 32 * bits[3] + 16 * bits[4]
                                 + 8 * bits[5] + 4 * bits[6] + 2 * bits[7] + bits[8]
           /\ NumberOf(bits) \in 0 .. 255
<1>1. bits \in Seq({0, 1}) /\ Len(bits) = 8
  BY FunctionIsSequence, 8 \in Nat
<1>2. PICK f : NumbersOf(f, bits) /\ NumberOf(bits) = f[8]
  BY <1>1, NumberIsLast
<1>3. /\ f[0] = 0
      /\ f[1] = 2 * f[0] + bits[1] /\ f[2] = 2 * f[1] + bits[2]
      /\ f[3] = 2 * f[2] + bits[3] /\ f[4] = 2 * f[3] + bits[4]
      /\ f[5] = 2 * f[4] + bits[5] /\ f[6] = 2 * f[5] + bits[6]
      /\ f[7] = 2 * f[6] + bits[7] /\ f[8] = 2 * f[7] + bits[8]
  BY <1>1, <1>2 DEF NumbersOf
<1>4. /\ bits[1] \in {0, 1} /\ bits[2] \in {0, 1} /\ bits[3] \in {0, 1} /\ bits[4] \in {0, 1}
      /\ bits[5] \in {0, 1} /\ bits[6] \in {0, 1} /\ bits[7] \in {0, 1} /\ bits[8] \in {0, 1}
  OBVIOUS
<1>5. NumberOf(bits) = 128 * bits[1] + 64 * bits[2] + 32 * bits[3] + 16 * bits[4]
                         + 8 * bits[5] + 4 * bits[6] + 2 * bits[7] + bits[8]
  BY <1>2, <1>3, <1>4
<1> QED
  BY <1>4, <1>5

\* Bit number b of an octet, counted from 0 at the most significant.
BitOf(octet, b) == (octet \div 2^(7 - b)) % 2

LEMMA BitsOfOctet ==
    ASSUME NEW o \in 0 .. 255
    PROVE  /\ \A b \in 0 .. 7 : BitOf(o, b) \in {0, 1}
           /\ o = 128 * BitOf(o, 0) + 64 * BitOf(o, 1) + 32 * BitOf(o, 2) + 16 * BitOf(o, 3)
                    + 8 * BitOf(o, 4) + 4 * BitOf(o, 5) + 2 * BitOf(o, 6) + BitOf(o, 7)
<1>1. /\ BitOf(o, 0) = (o \div 128) % 2 /\ BitOf(o, 1) = (o \div 64) % 2
      /\ BitOf(o, 2) = (o \div 32) % 2 /\ BitOf(o, 3) = (o \div 16) % 2
      /\ BitOf(o, 4) = (o \div 8) % 2 /\ BitOf(o, 5) = (o \div 4) % 2
      /\ BitOf(o, 6) = (o \div 2) % 2 /\ BitOf(o, 7) = o % 2
  BY DEF BitOf
<1>2. \A b \in 0 .. 7 : b \in {0, 1, 2, 3, 4, 5, 6, 7}
  OBVIOUS
<1>3. /\ BitOf(o, 0) \in {0, 1} /\ BitOf(o, 1) \in {0, 1} /\ BitOf(o, 2) \in {0, 1}
      /\ BitOf(o, 3) \in {0, 1} /\ BitOf(o, 4) \in {0, 1} /\ BitOf(o, 5) \in {0, 1}
      /\ BitOf(o, 6) \in {0, 1} /\ BitOf(o, 7) \in {0, 1}
  BY <1>1
<1>4. \A b \in 0 .. 7 : BitOf(o, b) \in {0, 1}
  <2> SUFFICES ASSUME NEW b \in 0 .. 7 PROVE BitOf(o, b) \in {0, 1}
    OBVIOUS
  <2>1. \/ b = 0 \/ b = 1 \/ b = 2 \/ b = 3 \/ b = 4 \/ b = 5 \/ b = 6 \/ b = 7
    OBVIOUS
  <2> QED
    BY <1>3, <2>1
<1>5. o = 128 * BitOf(o, 0) + 64 * BitOf(o, 1) + 32 * BitOf(o, 2) + 16 * BitOf(o, 3)
            + 8 * BitOf(o, 4) + 4 * BitOf(o, 5) + 2 * BitOf(o, 6) + BitOf(o, 7)
  <2>1. /\ o \in Int /\ o \div 2 \in Int /\ o \div 4 \in Int /\ o \div 8 \in Int
        /\ o \div 16 \in Int /\ o \div 32 \in Int /\ o \div 64 \in Int /\ o \div 128 \in Int
    OBVIOUS
  <2>2. o = 2 * (o \div 2) + (o % 2) /\ o \div 2 = 2 * (o \div 4) + ((o \div 2) % 2)
    BY <2>1
  <2>3. o \div 4 = 2 * (o \div 8) + ((o \div 4) % 2)
    BY <2>1
  <2>4. o \div 8 = 2 * (o \div 16) + ((o \div 8) % 2)
    BY <2>1
  <2>5. o \div 16 = 2 * (o \div 32) + ((o \div 16) % 2)
    BY <2>1
  <2>6. o \div 32 = 2 * (o \div 64) + ((o \div 32) % 2)
    BY <2>1
  <2>7. o \div 64 = 2 * (o \div 128) + ((o \div 64) % 2)
    BY <2>1
  <2>8. o \div 128 = (o \div 128) % 2
    BY <2>1
  <2> DEFINE h1 == o \div 2
             h2 == o \div 4
             h3 == o \div 8
             h4 == o \div 16
             h5 == o \div 32
             h6 == o \div 64
             h7 == o \div 128
  <2>9. /\ o = 2 * h1 + BitOf(o, 7) /\ h1 = 2 * h2 + BitOf(o, 6)
        /\ h2 = 2 * h3 + BitOf(o, 5) /\ h3 = 2 * h4 + BitOf(o, 4)
        /\ h4 = 2 * h5 + BitOf(o, 3) /\ h5 = 2 * h6 + BitOf(o, 2)
        /\ h6 = 2 * h7 + BitOf(o, 1) /\ h7 = BitOf(o, 0)
    BY <1>1, <2>2, <2>3, <2>4, <2>5, <2>6, <2>7, <2>8
  <2>10. /\ h1 \in Int /\ h2 \in Int /\ h3 \in Int /\ h4 \in Int
         /\ h5 \in Int /\ h6 \in Int /\ h7 \in Int
    BY <2>1
  <2>11. /\ BitOf(o, 0) \in Int /\ BitOf(o, 1) \in Int /\ BitOf(o, 2) \in Int
         /\ BitOf(o, 3) \in Int /\ BitOf(o, 4) \in Int /\ BitOf(o, 5) \in Int
         /\ BitOf(o, 6) \in Int /\ BitOf(o, 7) \in Int
    BY <1>3
  <2> HIDE DEF h1, h2, h3, h4, h5, h6, h7
  <2>12. h6 = 2 * BitOf(o, 0) + BitOf(o, 1)
    BY <2>9
  <2>13. h5 = 4 * BitOf(o, 0) + 2 * BitOf(o, 1) + BitOf(o, 2)
    BY <2>9, <2>10, <2>11, <2>12
  <2>14. h4 = 8 * BitOf(o, 0) + 4 * BitOf(o, 1) + 2 * BitOf(o, 2) + BitOf(o, 3)
    BY <2>9, <2>10, <2>11, <2>13
  <2>15. h3 = 16 * BitOf(o, 0) + 8 * BitOf(o, 1) + 4 * BitOf(o, 2) + 2 * BitOf(o, 3) + BitOf(o, 4)
    BY <2>9, <2>10, <2>11, <2>14
  <2>16. h2 = 32 * BitOf(o, 0) + 16 * BitOf(o, 1) + 8 * BitOf(o, 2) + 4 * BitOf(o, 3)
                 + 2 * BitOf(o, 4) + BitOf(o, 5)
    BY <2>9, <2>10, <2>11, <2>15
  <2>17. h1 = 64 * BitOf(o, 0) + 32 * BitOf(o, 1) + 16 * BitOf(o, 2) + 8 * BitOf(o, 3)
                 + 4 * BitOf(o, 4) + 2 * BitOf(o, 5) + BitOf(o, 6)
    BY <2>9, <2>10, <2>11, <2>16
  <2> QED
    BY <2>9, <2>10, <2>11, <2>17
<1> QED
  BY <1>4, <1>5

\* And the bits of eight bits put together are these bits.
LEMMA BitsOfSum ==
    ASSUME NEW bits \in [1 .. 8 -> {0, 1}], NEW o \in 0 .. 255,
           o = 128 * bits[1] + 64 * bits[2] + 32 * bits[3] + 16 * bits[4]
                 + 8 * bits[5] + 4 * bits[6] + 2 * bits[7] + bits[8]
    PROVE  /\ BitOf(o, 0) = bits[1] /\ BitOf(o, 1) = bits[2] /\ BitOf(o, 2) = bits[3]
           /\ BitOf(o, 3) = bits[4] /\ BitOf(o, 4) = bits[5] /\ BitOf(o, 5) = bits[6]
           /\ BitOf(o, 6) = bits[7] /\ BitOf(o, 7) = bits[8]
<1> DEFINE x0 == bits[1]
           x1 == bits[2]
           x2 == bits[3]
           x3 == bits[4]
           x4 == bits[5]
           x5 == bits[6]
           x6 == bits[7]
           x7 == bits[8]
<1>0. /\ x0 \in {0, 1} /\ x1 \in {0, 1} /\ x2 \in {0, 1} /\ x3 \in {0, 1}
      /\ x4 \in {0, 1} /\ x5 \in {0, 1} /\ x6 \in {0, 1} /\ x7 \in {0, 1}
      /\ o \in 0 .. 255
      /\ o = 128 * x0 + 64 * x1 + 32 * x2 + 16 * x3 + 8 * x4 + 4 * x5 + 2 * x6 + x7
  OBVIOUS
<1> HIDE DEF x0, x1, x2, x3, x4, x5, x6, x7
<1>1. /\ BitOf(o, 0) = (o \div 128) % 2 /\ BitOf(o, 1) = (o \div 64) % 2
      /\ BitOf(o, 2) = (o \div 32) % 2 /\ BitOf(o, 3) = (o \div 16) % 2
      /\ BitOf(o, 4) = (o \div 8) % 2 /\ BitOf(o, 5) = (o \div 4) % 2
      /\ BitOf(o, 6) = (o \div 2) % 2 /\ BitOf(o, 7) = o % 2
  BY ONLY <1>0 DEF BitOf
<1>2. o \div 128 = x0
  BY ONLY <1>0
<1>3. o \div 64 = 2 * x0 + x1
  BY ONLY <1>0
<1>4. o \div 32 = 4 * x0 + 2 * x1 + x2
  BY ONLY <1>0
<1>5. o \div 16 = 8 * x0 + 4 * x1 + 2 * x2 + x3
  BY ONLY <1>0
<1>6. o \div 8 = 16 * x0 + 8 * x1 + 4 * x2 + 2 * x3 + x4
  BY ONLY <1>0
<1>7. o \div 4 = 32 * x0 + 16 * x1 + 8 * x2 + 4 * x3 + 2 * x4 + x5
  BY ONLY <1>0
<1>8. o \div 2 = 64 * x0 + 32 * x1 + 16 * x2 + 8 * x3 + 4 * x4 + 2 * x5 + x6
  BY ONLY <1>0
<1>9. x0 % 2 = x0 /\ (2 * x0 + x1) % 2 = x1 /\ (4 * x0 + 2 * x1 + x2) % 2 = x2
  BY ONLY <1>0
<1>10. /\ (8 * x0 + 4 * x1 + 2 * x2 + x3) % 2 = x3
       /\ (16 * x0 + 8 * x1 + 4 * x2 + 2 * x3 + x4) % 2 = x4
  BY ONLY <1>0
<1>11. /\ (32 * x0 + 16 * x1 + 8 * x2 + 4 * x3 + 2 * x4 + x5) % 2 = x5
       /\ (64 * x0 + 32 * x1 + 16 * x2 + 8 * x3 + 4 * x4 + 2 * x5 + x6) % 2 = x6
  BY ONLY <1>0
<1>12. o % 2 = x7
  BY ONLY <1>0
<1>13. /\ BitOf(o, 0) = x0 /\ BitOf(o, 1) = x1 /\ BitOf(o, 2) = x2 /\ BitOf(o, 3) = x3
       /\ BitOf(o, 4) = x4 /\ BitOf(o, 5) = x5 /\ BitOf(o, 6) = x6 /\ BitOf(o, 7) = x7
  <2>1. BitOf(o, 0) = x0
    BY ONLY Zenon, <1>1, <1>2, <1>9
  <2>2. BitOf(o, 1) = x1
    BY ONLY Zenon, <1>1, <1>3, <1>9
  <2>3. BitOf(o, 2) = x2
    BY ONLY Zenon, <1>1, <1>4, <1>9
  <2>4. BitOf(o, 3) = x3
    BY ONLY Zenon, <1>1, <1>5, <1>10
  <2>5. BitOf(o, 4) = x4
    BY ONLY Zenon, <1>1, <1>6, <1>10
  <2>6. BitOf(o, 5) = x5
    BY ONLY Zenon, <1>1, <1>7, <1>11
  <2>7. BitOf(o, 6) = x6
    BY ONLY Zenon, <1>1, <1>8, <1>11
  <2>8. BitOf(o, 7) = x7
    BY ONLY Zenon, <1>1, <1>12
  <2> QED
    BY ONLY <2>1, <2>2, <2>3, <2>4, <2>5, <2>6, <2>7, <2>8
<1> QED
  BY ONLY <1>13 DEF x0, x1, x2, x3, x4, x5, x6, x7

LEMMA OctetBits ==
    ASSUME NEW bits \in [1 .. 8 -> {0, 1}], NEW b \in 0 .. 7
    PROVE  BitOf(NumberOf(bits), b) = bits[b + 1]
<1> DEFINE o == NumberOf(bits)
<1>1. /\ bits[1] \in {0, 1} /\ bits[2] \in {0, 1} /\ bits[3] \in {0, 1} /\ bits[4] \in {0, 1}
      /\ bits[5] \in {0, 1} /\ bits[6] \in {0, 1} /\ bits[7] \in {0, 1} /\ bits[8] \in {0, 1}
  OBVIOUS
<1>2. /\ o = 128 * bits[1] + 64 * bits[2] + 32 * bits[3] + 16 * bits[4]
              + 8 * bits[5] + 4 * bits[6] + 2 * bits[7] + bits[8]
      /\ o \in 0 .. 255
  BY ONLY bits \in [1 .. 8 -> {0, 1}], OctetOfBits
<1> HIDE DEF o
<1>3. /\ BitOf(o, 0) = bits[1] /\ BitOf(o, 1) = bits[2] /\ BitOf(o, 2) = bits[3]
      /\ BitOf(o, 3) = bits[4] /\ BitOf(o, 4) = bits[5] /\ BitOf(o, 5) = bits[6]
      /\ BitOf(o, 6) = bits[7] /\ BitOf(o, 7) = bits[8]
  <2>1. \A x \in 0 .. 255 :
           x = 128 * bits[1] + 64 * bits[2] + 32 * bits[3] + 16 * bits[4]
                 + 8 * bits[5] + 4 * bits[6] + 2 * bits[7] + bits[8] =>
              /\ BitOf(x, 0) = bits[1] /\ BitOf(x, 1) = bits[2] /\ BitOf(x, 2) = bits[3]
              /\ BitOf(x, 3) = bits[4] /\ BitOf(x, 4) = bits[5] /\ BitOf(x, 5) = bits[6]
              /\ BitOf(x, 6) = bits[7] /\ BitOf(x, 7) = bits[8]
    BY ONLY Zenon, bits \in [1 .. 8 -> {0, 1}], BitsOfSum
  <2> QED
    BY ONLY Zenon, <1>2, <2>1
<1>4. \/ b = 0 \/ b = 1 \/ b = 2 \/ b = 3 \/ b = 4 \/ b = 5 \/ b = 6 \/ b = 7
  OBVIOUS
<1> QED
  BY <1>3, <1>4 DEF o

\* Where a bit position is.
LEMMA BitAt ==
    ASSUME NEW memory, NEW k \in Nat \ {0}, NEW b \in 0 .. 7
    PROVE  Bit(memory, 8 * (k - 1) + b) = BitOf(memory[k], b)
<1> DEFINE p == 8 * (k - 1) + b
<1>1. p \div 8 = k - 1 /\ p % 8 = b /\ (k - 1) + 1 = k
  OBVIOUS
<1> HIDE DEF p
<1>2. Bit(memory, p) = BitOf(memory[k], b)
  BY <1>1 DEF Bit, BitOf
<1> QED
  BY <1>2 DEF p

\* Two octets with the same bits are the same.
LEMMA SameBits ==
    ASSUME NEW o \in 0 .. 255, NEW q \in 0 .. 255, \A b \in 0 .. 7 : BitOf(o, b) = BitOf(q, b)
    PROVE  o = q
<1>1. /\ BitOf(o, 0) = BitOf(q, 0) /\ BitOf(o, 1) = BitOf(q, 1) /\ BitOf(o, 2) = BitOf(q, 2)
      /\ BitOf(o, 3) = BitOf(q, 3) /\ BitOf(o, 4) = BitOf(q, 4) /\ BitOf(o, 5) = BitOf(q, 5)
      /\ BitOf(o, 6) = BitOf(q, 6) /\ BitOf(o, 7) = BitOf(q, 7)
  OBVIOUS
<1>2. o = 128 * BitOf(o, 0) + 64 * BitOf(o, 1) + 32 * BitOf(o, 2) + 16 * BitOf(o, 3)
            + 8 * BitOf(o, 4) + 4 * BitOf(o, 5) + 2 * BitOf(o, 6) + BitOf(o, 7)
  BY BitsOfOctet
<1>3. q = 128 * BitOf(q, 0) + 64 * BitOf(q, 1) + 32 * BitOf(q, 2) + 16 * BitOf(q, 3)
            + 8 * BitOf(q, 4) + 4 * BitOf(q, 5) + 2 * BitOf(q, 6) + BitOf(q, 7)
  BY BitsOfOctet
<1> QED
  BY <1>1, <1>2, <1>3

\* The bit that is or-ed in at a position.
NewBit(position, bits, p) ==
    p \in position .. position + Len(bits) - 1 /\ bits[p - position + 1] = 1

\* mcl_write_u changes bits one by one: each is as before or as written.
LEMMA OrBitsOctets ==
    ASSUME NEW n \in Nat, NEW memory \in [1 .. n -> 0 .. 255], NEW position, NEW bits
    PROVE  /\ OrBits(memory, position, bits) \in [1 .. n -> 0 .. 255]
           /\ \A k \in 1 .. n, b \in 0 .. 7 :
                 BitOf(OrBits(memory, position, bits)[k], b) =
                    IF BitOf(memory[k], b) = 1 \/ NewBit(position, bits, 8 * (k - 1) + b)
                    THEN 1 ELSE 0
<1> DEFINE or == OrBits(memory, position, bits)
           New(p) == IF p \in position .. position + Len(bits) - 1
                     THEN bits[p - position + 1] ELSE 0
           At(k, b) == IF Bit(memory, 8 * (k - 1) + b - 1) = 1 \/ New(8 * (k - 1) + b - 1) = 1
                       THEN 1 ELSE 0
           Ored(k) == [b \in 1 .. 8 |-> At(k, b)]
<1>1. or = [k \in 1 .. n |-> NumberOf(Ored(k))]
  BY DEF OrBits
<1>2. \A k \in 1 .. n : Ored(k) \in [1 .. 8 -> {0, 1}]
  OBVIOUS
<1>3. \A k \in 1 .. n : or[k] = NumberOf(Ored(k))
  BY <1>1
<1>4. \A k \in 1 .. n : \A b \in 1 .. 8 : Ored(k)[b] = At(k, b)
  OBVIOUS
<1>5. \A p : New(p) = 1 <=> NewBit(position, bits, p)
  BY DEF NewBit
<1> HIDE DEF or, Ored, New
<1>6. or \in [1 .. n -> 0 .. 255]
  <2>1. \A k \in 1 .. n : NumberOf(Ored(k)) \in 0 .. 255
    BY <1>2, OctetOfBits
  <2> QED
    BY <1>1, <2>1
<1>7. ASSUME NEW k \in 1 .. n, NEW b \in 0 .. 7
      PROVE  BitOf(or[k], b) = IF BitOf(memory[k], b) = 1 \/ NewBit(position, bits, 8 * (k - 1) + b)
                               THEN 1 ELSE 0
  <2>1. BitOf(or[k], b) = Ored(k)[b + 1]
    BY <1>2, <1>3, OctetBits
  <2>2. b + 1 \in 1 .. 8 /\ 8 * (k - 1) + (b + 1) - 1 = 8 * (k - 1) + b
    OBVIOUS
  <2>3. Ored(k)[b + 1] = At(k, b + 1)
    BY <1>4, <2>2
  <2>4. Bit(memory, 8 * (k - 1) + b) = BitOf(memory[k], b)
    <3>1. k \in Nat \ {0}
      OBVIOUS
    <3> QED
      BY <3>1, BitAt
  <2> QED
    BY <1>5, <2>1, <2>2, <2>3, <2>4
<1> QED
  BY <1>6, <1>7 DEF or

\* One bit of the outcome.
LEMMA OrBitsAt ==
    ASSUME NEW n \in Nat, NEW memory \in [1 .. n -> 0 .. 255], NEW position, NEW bits,
           NEW k \in 1 .. n, NEW b \in 0 .. 7
    PROVE  BitOf(OrBits(memory, position, bits)[k], b) =
              IF BitOf(memory[k], b) = 1 \/ NewBit(position, bits, 8 * (k - 1) + b)
              THEN 1 ELSE 0
<1> DEFINE or == OrBits(memory, position, bits)
<1>1. /\ or \in [1 .. n -> 0 .. 255]
      /\ \A j \in 1 .. n, c \in 0 .. 7 :
            BitOf(or[j], c) = IF BitOf(memory[j], c) = 1 \/ NewBit(position, bits, 8 * (j - 1) + c)
                              THEN 1 ELSE 0
  BY ZenonT(30), OrBitsOctets
<1> HIDE DEF or
<1> QED
  BY <1>1 DEF or

\* Octets without a written bit stay.
LEMMA OrBitsElsewhere ==
    ASSUME NEW n \in Nat, NEW memory \in [1 .. n -> 0 .. 255],
           NEW position \in Nat, NEW bits, Len(bits) \in Nat,
           NEW k \in 1 .. n, 8 * k <= position \/ position + Len(bits) <= 8 * (k - 1)
    PROVE  OrBits(memory, position, bits)[k] = memory[k]
<1> DEFINE or == OrBits(memory, position, bits)
<1>0. /\ or \in [1 .. n -> 0 .. 255]
      /\ \A j \in 1 .. n, b \in 0 .. 7 :
            BitOf(or[j], b) = IF BitOf(memory[j], b) = 1 \/ NewBit(position, bits, 8 * (j - 1) + b)
                              THEN 1 ELSE 0
  BY ZenonT(60), OrBitsOctets
<1>1. or[k] \in 0 .. 255 /\ memory[k] \in 0 .. 255
  BY SMTT(30), <1>0
<1>2. ASSUME NEW b \in 0 .. 7 PROVE BitOf(or[k], b) = BitOf(memory[k], b)
  <2>1. ~NewBit(position, bits, 8 * (k - 1) + b)
    BY DEF NewBit
  <2>2. BitOf(memory[k], b) \in {0, 1}
    BY <1>1, BitsOfOctet
  <2>3. BitOf(or[k], b) = IF BitOf(memory[k], b) = 1 THEN 1 ELSE 0
    BY <1>0, <2>1
  <2> QED
    BY <2>2, <2>3
<1> HIDE DEF or
<1> QED
  BY ZenonT(30), <1>1, <1>2, SameBits DEF or

\* Where the octet was clear and the bits written are bits, they stand there.
LEMMA OrBitsWritten ==
    ASSUME NEW n \in Nat, NEW memory \in [1 .. n -> 0 .. 255],
           NEW position, NEW bits, NEW k \in 1 .. n, NEW b \in 0 .. 7
    PROVE  memory[k] = 0 =>
              BitOf(OrBits(memory, position, bits)[k], b) =
                 IF NewBit(position, bits, 8 * (k - 1) + b) THEN 1 ELSE 0
<1>1. BitOf(OrBits(memory, position, bits)[k], b) =
         IF BitOf(memory[k], b) = 1 \/ NewBit(position, bits, 8 * (k - 1) + b) THEN 1 ELSE 0
  BY OrBitsAt
<1>2. BitOf(0, b) # 1
  <2>1. /\ BitOf(0, 0) = (0 \div 128) % 2 /\ BitOf(0, 1) = (0 \div 64) % 2
        /\ BitOf(0, 2) = (0 \div 32) % 2 /\ BitOf(0, 3) = (0 \div 16) % 2
        /\ BitOf(0, 4) = (0 \div 8) % 2 /\ BitOf(0, 5) = (0 \div 4) % 2
        /\ BitOf(0, 6) = (0 \div 2) % 2 /\ BitOf(0, 7) = 0 % 2
    BY DEF BitOf
  <2>2. \/ b = 0 \/ b = 1 \/ b = 2 \/ b = 3 \/ b = 4 \/ b = 5 \/ b = 6 \/ b = 7
    OBVIOUS
  <2> QED
    BY <2>1, <2>2
<1> QED
  BY <1>1, <1>2


-----------------------------------------------------------------------------
\* Positions are sums of widths.
PositionsAre(f, layout, n) ==
    /\ f \in [0 .. n -> Nat]
    /\ f[0] = 16
    /\ \A i \in 1 .. n : f[i] = f[i - 1] + layout[i].width

LEMMA PositionsExist ==
    ASSUME NEW layout, NEW n \in Nat, \A i \in 1 .. n : layout[i].width \in Nat
    PROVE  \E f : PositionsAre(f, layout, n)
<1> DEFINE g == [i \in Nat |-> [x \in Nat |-> x + (IF i \in 1 .. n THEN layout[i].width ELSE 0)]]
<1>1. g \in [Nat -> [Nat -> Nat]]
  OBVIOUS
<1>2. PICK f : Recursion(f, Nat, 16, g, n)
  BY <1>1, RecursionExists
<1>3. f \in [0 .. n -> Nat] /\ \A i \in 0 .. n : f[i] = IF i = 0 THEN 16 ELSE g[i][f[i - 1]]
  <2> DEFINE Value(i) == IF i = 0 THEN 16 ELSE g[i][f[i - 1]]
  <2>1. f = [i \in 0 .. n |-> Value(i)] /\ f \in [0 .. n -> Nat]
    BY <1>2 DEF Recursion
  <2> HIDE DEF Value
  <2>2. \A i \in 0 .. n : f[i] = Value(i)
    BY <2>1
  <2> QED
    BY <2>1, <2>2 DEF Value
<1>4. \A i \in 1 .. n : g[i][f[i - 1]] = f[i - 1] + layout[i].width
  <2> SUFFICES ASSUME NEW i \in 1 .. n PROVE g[i][f[i - 1]] = f[i - 1] + layout[i].width
    OBVIOUS
  <2>1. i \in Nat /\ f[i - 1] \in Nat
    BY <1>3
  <2> QED
    BY <2>1
<1> HIDE DEF g
<1>5. PositionsAre(f, layout, n)
  <2>1. f[0] = 16
    BY <1>3
  <2>2. \A i \in 1 .. n : i # 0 /\ i \in 0 .. n
    OBVIOUS
  <2> QED
    BY <1>3, <1>4, <2>1, <2>2 DEF PositionsAre
<1> QED
  BY <1>5

LEMMA PositionOfIs ==
    ASSUME NEW layout, NEW n \in Nat, NEW f, PositionsAre(f, layout, n), NEW i \in 1 .. n + 1
    PROVE  PositionOf(layout, i) = f[i - 1]
<1> DEFINE Places(p) == p = [m \in 1 .. i |-> IF m = 1 THEN 8 * COMMON_HEADER_SIZE
                                                       ELSE p[m - 1] + layout[m - 1].width]
           q == [m \in 1 .. i |-> f[m - 1]]
           r == CHOOSE p : Places(p)
<1>1. Places(q)
  <2>1. \A m \in 1 .. i : f[m - 1] = IF m = 1 THEN 16 ELSE f[m - 2] + layout[m - 1].width
    <3> SUFFICES ASSUME NEW m \in 1 .. i, m # 1
                 PROVE  f[m - 1] = f[m - 2] + layout[m - 1].width
      BY DEF PositionsAre
    <3>1. m - 1 \in 1 .. n /\ (m - 1) - 1 = m - 2
      OBVIOUS
    <3> QED
      BY <3>1 DEF PositionsAre
  <2>2. \A m \in 1 .. i : m # 1 => q[m - 1] = f[m - 2]
    OBVIOUS
  <2> QED
    BY <2>1, <2>2 DEF COMMON_HEADER_SIZE
<1>2. Places(r)
  <2> HIDE DEF Places
  <2> QED
    BY <1>1
<1>3. PositionOf(layout, i) = r[i]
  BY DEF PositionOf
<1> HIDE DEF r
<1>4. \A m \in 1 .. i : r[m] = IF m = 1 THEN 16 ELSE r[m - 1] + layout[m - 1].width
  <2> DEFINE Value(m) == IF m = 1 THEN 8 * COMMON_HEADER_SIZE ELSE r[m - 1] + layout[m - 1].width
  <2>1. r = [m \in 1 .. i |-> Value(m)]
    BY <1>2
  <2> HIDE DEF Value
  <2>2. \A m \in 1 .. i : r[m] = Value(m)
    BY <2>1
  <2> QED
    BY <2>2 DEF Value, COMMON_HEADER_SIZE
<1> DEFINE S == {m \in Nat : m + 1 <= i => r[m + 1] = f[m]}
<1>5. 0 \in S
  BY <1>4 DEF PositionsAre
<1>6. ASSUME NEW m \in Nat, m \in S PROVE m + 1 \in S
  <2> SUFFICES ASSUME (m + 1) + 1 <= i PROVE r[(m + 1) + 1] = f[m + 1]
    OBVIOUS
  <2>1. /\ m + 1 \in 1 .. n /\ (m + 1) - 1 = m /\ (m + 1) + 1 \in 1 .. i
        /\ (m + 1) + 1 # 1 /\ ((m + 1) + 1) - 1 = m + 1 /\ m + 1 <= i
    OBVIOUS
  <2>2. r[(m + 1) + 1] = r[m + 1] + layout[m + 1].width
    BY <1>4, <2>1
  <2>3. f[m + 1] = f[m] + layout[m + 1].width
    BY <2>1 DEF PositionsAre
  <2> QED
    BY <1>6, <2>1, <2>2, <2>3
<1> HIDE DEF S
<1>7. i - 1 \in S
  BY <1>5, <1>6, AllNumbers
<1>8. r[i] = f[i - 1]
  <2>1. i - 1 \in Nat /\ (i - 1) + 1 = i
    OBVIOUS
  <2> QED
    BY <1>7, <2>1 DEF S
<1> QED
  BY <1>3, <1>8

LEMMA PositionSteps ==
    ASSUME NEW layout, NEW n \in Nat, \A i \in 1 .. n : layout[i].width \in Nat
    PROVE  /\ PositionOf(layout, 1) = 16
           /\ \A i \in 1 .. n + 1 : PositionOf(layout, i) \in Nat
           /\ \A i \in 1 .. n : PositionOf(layout, i + 1) = PositionOf(layout, i) + layout[i].width
<1>1. PICK f : PositionsAre(f, layout, n)
  BY PositionsExist
<1>2. \A i \in 1 .. n + 1 : PositionOf(layout, i) = f[i - 1]
  BY <1>1, PositionOfIs
<1>3. \A i \in 1 .. n : i + 1 \in 1 .. n + 1 /\ (i + 1) - 1 = i /\ i \in 1 .. n + 1
  OBVIOUS
<1> QED
  BY <1>1, <1>2, <1>3 DEF PositionsAre

LEMMA WiderSequence ==
    ASSUME NEW S, NEW T, S \subseteq T, NEW s \in Seq(S)
    PROVE  s \in Seq(T)
  OBVIOUS

\* Where a concatenation lies, and how long it is.
LEMMA ConcatType ==
    ASSUME NEW S, NEW s \in Seq(S), NEW t \in Seq(S)
    PROVE  s \o t \in Seq(S) /\ Len(s \o t) = Len(s) + Len(t)
<1>1. s \o t \in Seq(S)
  BY ConcatProperties
<1>2. Len(s \o t) = Len(s) + Len(t)
  BY ConcatProperties
<1> QED
  BY <1>1, <1>2

\* A field takes as many bits as it is wide.
LEMMA FieldBitsLength ==
    ASSUME NEW value, NEW field, field.width \in Nat
    PROVE  /\ Len(FieldBits(value, field)) = field.width
           /\ FieldBits(value, field) \in
                 Seq({FieldBits(value, field)[p] : p \in 1 .. field.width})
<1> DEFINE w == field.width
           bits == FieldBits(value, field)
           T == {bits[p] : p \in 1 .. w}
<1>1. \E S : bits \in Seq(S) /\ Len(bits) = w
  <2>1. CASE w = 32
    <3> DEFINE a == BitsOf(value[1], 16)
               b == BitsOf(value[2], 16)
               S == {a[p] : p \in 1 .. 16} \cup {b[p] : p \in 1 .. 16}
    <3>1. a \in [1 .. 16 -> S]
      <4>1. a = [p \in 1 .. 16 |-> a[p]]
        BY DEF BitsOf
      <4> HIDE DEF a, b
      <4> QED
        BY <4>1
    <3>2. b \in [1 .. 16 -> S]
      <4>1. b = [p \in 1 .. 16 |-> b[p]]
        BY DEF BitsOf
      <4> HIDE DEF a, b
      <4> QED
        BY <4>1
    <3>3. bits = a \o b
      BY <2>1 DEF FieldBits
    <3> HIDE DEF a, b, S, bits
    <3>4. a \in Seq(S) /\ Len(a) = 16 /\ b \in Seq(S) /\ Len(b) = 16
      BY <3>1, <3>2, FunctionIsSequence
    <3>5. a \o b \in Seq(S) /\ Len(a \o b) = Len(a) + Len(b)
      <4> HIDE DEF T
      <4> QED
        BY <3>4, ConcatType
    <3> QED
      BY <2>1, <3>3, <3>4, <3>5
  <2>2. CASE w # 32
    <3> DEFINE v == IF value < 0 THEN 2^w + value ELSE value
               S == {bits[p] : p \in 1 .. w}
    <3>1. bits = BitsOf(v, w)
      BY <2>2 DEF FieldBits
    <3>2. bits = [p \in 1 .. w |-> bits[p]]
      <4> HIDE DEF v, w
      <4> QED
        BY <3>1 DEF BitsOf
    <3> HIDE DEF bits
    <3>3. bits \in [1 .. w -> S]
      BY <3>2
    <3> HIDE DEF S
    <3>4. bits \in Seq(S) /\ Len(bits) = w
      BY <3>3, FunctionIsSequence
    <3> QED
      BY <3>4
  <2> QED
    BY <2>1, <2>2
<1> HIDE DEF bits
<1>2. PICK S : bits \in Seq(S) /\ Len(bits) = w
  BY <1>1
<1>3. bits \in [1 .. w -> T]
  BY <1>2
<1>4. bits \in Seq(T)
  <2> HIDE DEF T, w
  <2>1. w \in Nat
    BY DEF w
  <2> QED
    BY <1>3, <2>1, FunctionIsSequence
<1> QED
  BY <1>2, <1>4 DEF bits

\* The bits of the first m fields, in the order they are written.
BodyBits(body, layout, m) ==
    FlattenSeq([i \in 1 .. m |-> FieldBits(body[layout[i].name], layout[i])])

\* Field i has its bits in its place.
FieldAt(bits, body, layout, i) ==
    \A b \in 1 .. layout[i].width :
        bits[PositionOf(layout, i) - 16 + b] = FieldBits(body[layout[i].name], layout[i])[b]

LEMMA BodyBitsLength ==
    ASSUME NEW body, NEW layout, NEW n \in Nat, \A i \in 1 .. n : layout[i].width \in Nat
    PROVE  \A m \in 0 .. n :
              /\ Len(BodyBits(body, layout, m)) = PositionOf(layout, m + 1) - 16
              /\ \A i \in 1 .. m : FieldAt(BodyBits(body, layout, m), body, layout, i)
<1> DEFINE Field(i) == FieldBits(body[layout[i].name], layout[i])
           S == UNION {{Field(i)[p] : p \in 1 .. layout[i].width} : i \in 1 .. n}
           Parts(m) == [i \in 1 .. m |-> Field(i)]
<1>1. \A i \in 1 .. n : Field(i) \in Seq(S) /\ Len(Field(i)) = layout[i].width
  <2> SUFFICES ASSUME NEW i \in 1 .. n
               PROVE  Field(i) \in Seq(S) /\ Len(Field(i)) = layout[i].width
    OBVIOUS
  <2> DEFINE T == {Field(i)[p] : p \in 1 .. layout[i].width}
  <2>1. Field(i) \in Seq(T) /\ Len(Field(i)) = layout[i].width
    BY FieldBitsLength
  <2>2. T \subseteq S
    OBVIOUS
  <2> HIDE DEF T, S, Field
  <2>3. Seq(T) \subseteq Seq(S)
    BY <2>2
  <2> QED
    BY <2>1, <2>3
<1> HIDE DEF Field, S
<1>2. /\ PositionOf(layout, 1) = 16
      /\ \A i \in 1 .. n + 1 : PositionOf(layout, i) \in Nat
      /\ \A i \in 1 .. n : PositionOf(layout, i + 1) = PositionOf(layout, i) + layout[i].width
  BY PositionSteps
<1>7. \A i \in 1 .. n + 1 : PositionOf(layout, i) >= 16
  <2> DEFINE T == {i \in Nat : i + 1 \in 1 .. n + 1 => PositionOf(layout, i + 1) >= 16}
  <2>1. 0 \in T
    BY <1>2
  <2>2. ASSUME NEW i \in Nat, i \in T PROVE i + 1 \in T
    <3> SUFFICES ASSUME (i + 1) + 1 \in 1 .. n + 1 PROVE PositionOf(layout, (i + 1) + 1) >= 16
      OBVIOUS
    <3>1. i + 1 \in 1 .. n /\ i + 1 \in 1 .. n + 1
      OBVIOUS
    <3>2. /\ PositionOf(layout, i + 1) \in Nat /\ PositionOf(layout, i + 1) >= 16
          /\ PositionOf(layout, (i + 1) + 1) = PositionOf(layout, i + 1) + layout[i + 1].width
          /\ layout[i + 1].width \in Nat
      BY <1>2, <2>2, <3>1
    <3> QED
      BY <3>2
  <2> HIDE DEF T
  <2>3. Nat \subseteq T
    BY <2>1, <2>2, AllNumbers
  <2> SUFFICES ASSUME NEW i \in 1 .. n + 1 PROVE PositionOf(layout, i) >= 16
    OBVIOUS
  <2>4. i - 1 \in T /\ (i - 1) + 1 = i
    BY <2>3
  <2> QED
    BY <2>4 DEF T
<1> DEFINE Good(m) == /\ Len(FlattenSeq(Parts(m))) = PositionOf(layout, m + 1) - 16
                      /\ FlattenSeq(Parts(m)) \in Seq(S)
                      /\ \A i \in 1 .. m :
                            /\ PositionOf(layout, i + 1) <= PositionOf(layout, m + 1)
                            /\ FieldAt(FlattenSeq(Parts(m)), body, layout, i)
           G == {m \in Nat : m <= n => Good(m)}
<1>3. 0 \in G
  <2>1. Parts(0) = <<>>
    OBVIOUS
  <2>2. FlattenSeq(<<>>) = <<>>
    BY DEF FlattenSeq
  <2>3. Len(FlattenSeq(Parts(0))) = 0 /\ FlattenSeq(Parts(0)) \in Seq(S)
    <3>1. FlattenSeq(Parts(0)) = <<>>
      <4> HIDE DEF Parts
      <4> QED
        BY <2>1, <2>2
    <3>2. Len(<<>>) = 0 /\ <<>> \in Seq(S)
      OBVIOUS
    <3> HIDE DEF Parts
    <3> QED
      BY <3>1, <3>2
  <2>4. 0 + 1 = 1 /\ PositionOf(layout, 1) - 16 = 0
    BY <1>2
  <2> HIDE DEF Parts
  <2> QED
    BY <2>3, <2>4
<1>4. ASSUME NEW m \in Nat, m \in G PROVE m + 1 \in G
  <2> SUFFICES ASSUME m + 1 <= n PROVE Good(m + 1)
    OBVIOUS
  <2>1. m + 1 \in 1 .. n /\ m \in 0 .. n /\ m <= n
    OBVIOUS
  <2>2. Good(m)
    BY <1>4, <2>1
  <2>3. Parts(m) \in Seq(Seq(S)) /\ Len(Parts(m)) = m
    <3>1. Parts(m) \in [1 .. m -> Seq(S)]
      BY <1>1, <2>1
    <3> HIDE DEF Parts
    <3> QED
      BY <3>1, FunctionIsSequence
  <2>4. Parts(m + 1) = Append(Parts(m), Field(m + 1))
    <3>1. Append(Parts(m), Field(m + 1)) =
             [i \in 1 .. m + 1 |-> IF i <= m THEN Parts(m)[i] ELSE Field(m + 1)]
      <4>1. Field(m + 1) \in Seq(S)
        BY <1>1, <2>1
      <4> HIDE DEF Parts
      <4> QED
        BY <2>3, <4>1, AppendIsFunction
    <3>2. \A i \in 1 .. m + 1 : Field(i) = IF i <= m THEN Parts(m)[i] ELSE Field(m + 1)
      OBVIOUS
    <3> QED
      BY <3>1, <3>2
  <2>5. FlattenSeq(Append(Parts(m), Field(m + 1))) = FlattenSeq(Parts(m)) \o Field(m + 1)
    <3>1. Field(m + 1) \in Seq(S) /\ Parts(m) \in Seq(Seq(S))
      BY <1>1, <2>1, <2>3
    <3> HIDE DEF Parts
    <3> QED
      BY <3>1, FlattenAppend
  <2>6. /\ FlattenSeq(Parts(m)) \o Field(m + 1) \in Seq(S)
        /\ Len(FlattenSeq(Parts(m)) \o Field(m + 1)) = Len(FlattenSeq(Parts(m))) + layout[m + 1].width
    <3>1. Field(m + 1) \in Seq(S) /\ Len(Field(m + 1)) = layout[m + 1].width
      BY <1>1, <2>1
    <3>2. FlattenSeq(Parts(m)) \in Seq(S)
      BY <2>2
    <3> HIDE DEF Parts, Good
    <3> QED
      BY SMTT(30), <3>1, <3>2
  <2>7. PositionOf(layout, (m + 1) + 1) = PositionOf(layout, m + 1) + layout[m + 1].width
    BY <1>2, <2>1
  <2>8. PositionOf(layout, m + 1) \in Nat /\ layout[m + 1].width \in Nat
    BY <1>2, <2>1
  <2>9. Len(FlattenSeq(Parts(m))) = PositionOf(layout, m + 1) - 16
    BY <2>2
  <2> HIDE DEF Parts
  <2>10. FlattenSeq(Parts(m + 1)) = FlattenSeq(Parts(m)) \o Field(m + 1)
    BY <2>4, <2>5
  <2>11. Len(FlattenSeq(Parts(m + 1))) = PositionOf(layout, (m + 1) + 1) - 16
    BY SMTT(30), <2>6, <2>7, <2>8, <2>9, <2>10
  <2>12. ASSUME NEW i \in 1 .. m + 1
         PROVE  /\ PositionOf(layout, i + 1) <= PositionOf(layout, (m + 1) + 1)
                /\ FieldAt(FlattenSeq(Parts(m + 1)), body, layout, i)
    <3> DEFINE s == FlattenSeq(Parts(m))
               t == Field(m + 1)
               at == PositionOf(layout, i)
               w == layout[i].width
    <3>1. /\ s \in Seq(S) /\ t \in Seq(S) /\ Len(t) = layout[m + 1].width
          /\ Len(s) = PositionOf(layout, m + 1) - 16
          /\ i \in 1 .. n /\ at \in Nat /\ w \in Nat /\ at >= 16
          /\ PositionOf(layout, i + 1) = at + w
      <4>1. i \in 1 .. n
        BY <2>1
      <4>2. at \in Nat /\ w \in Nat /\ PositionOf(layout, i + 1) = at + w
        BY <1>2, <4>1
      <4>3. at >= 16
        BY <1>7, <4>1
      <4>4. Field(m + 1) \in Seq(S) /\ Len(Field(m + 1)) = layout[m + 1].width
        BY <1>1, <2>1
      <4> QED
        BY <2>2, <4>1, <4>2, <4>3, <4>4
    <3>2. FlattenSeq(Parts(m + 1)) = s \o t
      BY <2>10
    <3>3. CASE i <= m
      <4>1. PositionOf(layout, i + 1) <= PositionOf(layout, m + 1) /\ FieldAt(s, body, layout, i)
        BY <2>2, <3>3
      <4>2. PositionOf(layout, i + 1) <= PositionOf(layout, (m + 1) + 1)
        <5>1. PositionOf(layout, i + 1) \in Nat
          BY <3>1
        <5> QED
          BY <2>7, <2>8, <4>1, <5>1
      <4> HIDE DEF s, t, at, w
      <4>3. ASSUME NEW b \in 1 .. w PROVE (s \o t)[at - 16 + b] = s[at - 16 + b]
        <5> DEFINE k == at - 16 + b
                   l == Len(s)
        <5>1. k \in 1 .. l
          BY <2>8, <3>1, <4>1
        <5> HIDE DEF k
        <5>2. l \in Nat /\ Len(t) \in Nat
          BY <3>1
        <5>3. k \in 1 .. l + Len(t) /\ k <= l
          BY <5>1, <5>2
        <5>4. (s \o t)[k] = s[k]
          BY <3>1, <5>3, ConcatProperties
        <5> QED
          BY <5>4 DEF k
      <4> QED
        BY <3>2, <4>1, <4>2, <4>3 DEF FieldAt, at, w
    <3>4. CASE i = m + 1
      <4>1. PositionOf(layout, i + 1) <= PositionOf(layout, (m + 1) + 1)
        BY <2>7, <2>8, <3>4
      <4>2. at - 16 = Len(s) /\ w = Len(t)
        BY <3>1, <3>4
      <4> HIDE DEF s, t, at, w
      <4>3. ASSUME NEW b \in 1 .. w PROVE (s \o t)[at - 16 + b] = t[b]
        <5> DEFINE k == at - 16 + b
                   l == Len(s)
        <5>1. l \in Nat /\ Len(t) \in Nat
          BY <3>1
        <5>2. k = l + b /\ b \in 1 .. Len(t)
          BY <4>2
        <5> HIDE DEF k, l
        <5>3. k \in 1 .. l + Len(t) /\ ~(k <= l) /\ k - l = b
          BY <5>1, <5>2
        <5>4. (s \o t)[k] = t[k - l]
          BY <3>1, <5>3, ConcatProperties DEF l
        <5> QED
          BY <5>3, <5>4 DEF k
      <4>4. t = FieldBits(body[layout[i].name], layout[i])
        BY <3>4 DEF t, Field
      <4> QED
        BY <3>2, <4>1, <4>3, <4>4 DEF FieldAt, at, w
    <3> QED
      BY <3>3, <3>4
  <2> QED
    BY <2>6, <2>10, <2>11, <2>12
<1> HIDE DEF G
<1>5. \A m \in 0 .. n : m \in G
  BY <1>3, <1>4, AllNumbers
<1>6. \A m : BodyBits(body, layout, m) = FlattenSeq(Parts(m))
  BY DEF BodyBits, Field
<1> HIDE DEF Parts
<1>8. \A m \in 0 .. n : Good(m)
  <2> HIDE DEF Good
  <2> QED
    BY <1>5 DEF G
<1> QED
  BY <1>6, <1>8

\* The fields up to the first that is not good are as many as are before it.
LEMMA GoodPrefix ==
    ASSUME NEW n \in Nat, NEW G,
           NEW S, S = {i \in 1 .. n : \A j \in 1 .. i : j \in G}
    PROVE  /\ Cardinality(S) \in 0 .. n
           /\ S = 1 .. Cardinality(S)
           /\ Cardinality(S) < n => Cardinality(S) + 1 \notin G
<1>1. \E m \in 0 .. n : S = 1 .. m /\ (m < n => m + 1 \notin G)
  <2>1. CASE \A j \in 1 .. n : j \in G
    <3>1. S = 1 .. n
      BY <2>1
    <3> QED
      BY <3>1
  <2>2. CASE \E j \in 1 .. n : j \notin G
    <3> DEFINE T == {j \in 1 .. n : j \notin G}
    <3>0. T \in SUBSET Nat /\ T # {}
      BY <2>2
    <3>1. PICK j \in T : \A k \in T : j <= k
      <4> HIDE DEF T
      <4> QED
        BY <3>0, LeastNumber
    <3>2. \A k \in 1 .. j - 1 : k \in G
      BY <3>1
    <3>3. S = 1 .. j - 1
      BY <3>1, <3>2
    <3>4. j - 1 \in 0 .. n /\ (j - 1) + 1 = j /\ j \notin G
      BY <3>1
    <3> QED
      BY <3>3, <3>4
  <2> QED
    BY <2>1, <2>2
<1>2. PICK m \in 0 .. n : S = 1 .. m /\ (m < n => m + 1 \notin G)
  BY <1>1
<1>3. Cardinality(1 .. m) = m
  <2>1. 1 \in Int /\ m \in Int
    OBVIOUS
  <2>2. Cardinality(1 .. m) = IF 1 > m THEN 0 ELSE m - 1 + 1
    BY <2>1, FS_Interval
  <2> QED
    BY <2>2
<1> QED
  BY <1>2, <1>3


-----------------------------------------------------------------------------
FieldName == {"source_ref", "machine_class", "capability_tag", "ttl", "hazard_class",
              "severity", "confidence", "x", "y", "z", "radius", "request_class",
              "target_ref", "authority_class", "jurisdiction", "credential_ref",
              "validity", "affected_capability", "health", "migration_ref",
              "transport_id", "profile_id", "endpoint_token", "session_ref"}
Fields == [name : FieldName, width : 1 .. 32, signed : BOOLEAN]

LEMMA FieldType ==
    ASSUME NEW name \in FieldName, NEW width \in 1 .. 32
    PROVE  Unsigned(name, width) \in Fields /\ Signed(name, width) \in Fields
  BY DEF Unsigned, Signed, Fields

\* The layouts are sequences of fields.
LEMMA LayoutType ==
    ASSUME NEW major, NEW kind \in Kind
    PROVE  LayoutWritten(major, kind) \in Seq(Fields)
<1> DEFINE F == Fields
<1>0. \A name \in FieldName, width \in 1 .. 32 :
         Unsigned(name, width) \in F /\ Signed(name, width) \in F
  BY FieldType
<1> HIDE DEF F
<1>1. <<Unsigned("source_ref", 32)>> \in Seq(F)
  BY <1>0 DEF FieldName
<1>2. CASE kind = "PRESENCE"
  <2> DEFINE a == IF major = STABLE_MAJOR THEN <<>> ELSE <<Unsigned("machine_class", 8)>>
             b == <<Unsigned("capability_tag", 24), Unsigned("ttl", 8)>>
  <2>1. <<>> \in Seq(F) /\ <<Unsigned("machine_class", 8)>> \in Seq(F)
    BY <1>0 DEF FieldName
  <2>2. a \in Seq(F)
    BY <2>1
  <2>3. b \in Seq(F)
    BY <1>0 DEF FieldName
  <2>4. LayoutWritten(major, kind) = <<Unsigned("source_ref", 32)>> \o (a \o b)
    BY <1>2 DEF LayoutWritten
  <2> HIDE DEF a, b
  <2>5. a \o b \in Seq(F)
    BY <2>2, <2>3
  <2> QED
    BY <1>1, <2>4, <2>5 DEF F
<1>3. CASE kind = "HAZARD"
  <2> DEFINE b == <<Unsigned("hazard_class", 8), Unsigned("severity", 3), Unsigned("confidence", 7),
                    Signed("x", 12), Signed("y", 12), Signed("z", 10),
                    Unsigned("radius", 10), Unsigned("ttl", 8)>>
  <2>1. b \in Seq(F)
    BY <1>0 DEF FieldName
  <2>2. LayoutWritten(major, kind) = <<Unsigned("source_ref", 32)>> \o b
    BY <1>3 DEF LayoutWritten
  <2> HIDE DEF b
  <2> QED
    BY <1>1, <2>1, <2>2 DEF F
<1>4. CASE kind = "REQUEST"
  <2> DEFINE b == <<Unsigned("request_class", 8), Unsigned("target_ref", 32),
                    Signed("x", 12), Signed("y", 12), Unsigned("radius", 10), Unsigned("ttl", 8)>>
  <2>1. b \in Seq(F)
    BY <1>0 DEF FieldName
  <2>2. LayoutWritten(major, kind) = <<Unsigned("source_ref", 32)>> \o b
    BY <1>4 DEF LayoutWritten
  <2> HIDE DEF b
  <2> QED
    BY <1>1, <2>1, <2>2 DEF F
<1>5. CASE kind = "AUTHORITY_CLAIM"
  <2> DEFINE b == <<Unsigned("authority_class", 6), Unsigned("jurisdiction", 12),
                    Unsigned("credential_ref", 32), Unsigned("validity", 8)>>
  <2>1. b \in Seq(F)
    BY <1>0 DEF FieldName
  <2>2. LayoutWritten(major, kind) = <<Unsigned("source_ref", 32)>> \o b
    BY <1>5 DEF LayoutWritten
  <2> HIDE DEF b
  <2> QED
    BY <1>1, <2>1, <2>2 DEF F
<1>6. CASE kind = "DEGRADED_STATE"
  <2> DEFINE b == <<Unsigned("affected_capability", 8), Unsigned("health", 7),
                    Unsigned("severity", 3), Unsigned("ttl", 8)>>
  <2>1. b \in Seq(F)
    BY <1>0 DEF FieldName
  <2>2. LayoutWritten(major, kind) = <<Unsigned("source_ref", 32)>> \o b
    BY <1>6 DEF LayoutWritten
  <2> HIDE DEF b
  <2> QED
    BY <1>1, <2>1, <2>2 DEF F
<1>7. CASE kind = "TRANSPORT_OFFER"
  <2> DEFINE b == <<Unsigned("migration_ref", 32), Unsigned("transport_id", 8),
                    Unsigned("profile_id", 8), Unsigned("endpoint_token", 32),
                    Unsigned("validity", 8)>>
  <2>1. b \in Seq(F)
    BY <1>0 DEF FieldName
  <2>2. LayoutWritten(major, kind) = <<Unsigned("source_ref", 32)>> \o b
    BY <1>7 DEF LayoutWritten
  <2> HIDE DEF b
  <2> QED
    BY <1>1, <2>1, <2>2 DEF F
<1>8. CASE kind = "TRANSPORT_ACCEPT"
  <2> DEFINE b == <<Unsigned("migration_ref", 32), Unsigned("transport_id", 8),
                    Unsigned("profile_id", 8), Unsigned("session_ref", 32)>>
  <2>1. b \in Seq(F)
    BY <1>0 DEF FieldName
  <2>2. LayoutWritten(major, kind) = <<Unsigned("source_ref", 32)>> \o b
    BY <1>8 DEF LayoutWritten
  <2> HIDE DEF b
  <2> QED
    BY <1>1, <2>1, <2>2 DEF F
<1> QED
  BY <1>2, <1>3, <1>4, <1>5, <1>6, <1>7, <1>8 DEF Kind, F


-----------------------------------------------------------------------------
\* The parts of EncodeAtMajor, by name.
Required(major, object) == EncodedSizeAtMajor(major, object.kind)

HeaderOf(major, object) ==
    [major_version |-> major, category |-> KindToCode(object.kind).category,
     opcode |-> KindToCode(object.kind).opcode, priority |-> object.priority,
     extension_present |-> 0]

Headed(major, object, memory) ==
    [Zeroed(memory, Required(major, object)) EXCEPT
        ![1] = HeaderEncode(HeaderOf(major, object))[1],
        ![2] = HeaderEncode(HeaderOf(major, object))[2]]

FieldsWritten(major, object) ==
    LET layout == LayoutWritten(major, object.kind)
    IN  {i \in DOMAIN layout :
            \A j \in 1 .. i : /\ Fits(object.body[layout[j].name], layout[j])
                             /\ PositionOf(layout, j + 1) <= 8 * Required(major, object)}

Bodied(major, object, memory) ==
    OrBits(Headed(major, object, memory), 16,
           BodyBits(object.body, LayoutWritten(major, object.kind),
                    Cardinality(FieldsWritten(major, object))))

\* The sizes, and what has one.
LEMMA RequiredType ==
    ASSUME NEW major, NEW object
    PROVE  /\ Required(major, object) \in {0} \cup 10 .. 17
           /\ Required(major, object) # 0 => major \in {0, 1} /\ object.kind \in Kind
<1> DEFINE kind == object.kind
<1>1. Required(major, object) = EncodedSizeAtMajor(major, kind)
  BY DEF Required
<1> HIDE DEF kind
<1>2. CASE ~KindAllowedAtMajor(major, kind)
  BY <1>1, <1>2 DEF EncodedSizeAtMajor
<1>3. CASE KindAllowedAtMajor(major, kind)
  <2>1. major \in {0, 1} /\ kind \in Kind
    BY <1>3 DEF KindAllowedAtMajor, Kind, EXPERIMENTAL_MAJOR, STABLE_MAJOR
  <2>2. EncodedSize(kind) \in 10 .. 17
    <3>1. /\ kind = "PRESENCE" => EncodedSize(kind) = 11
          /\ kind = "HAZARD" => EncodedSize(kind) = 15
          /\ kind = "REQUEST" => EncodedSize(kind) = 17
          /\ kind = "AUTHORITY_CLAIM" => EncodedSize(kind) = 14
          /\ kind = "DEGRADED_STATE" => EncodedSize(kind) = 10
          /\ kind = "TRANSPORT_OFFER" => EncodedSize(kind) = 17
          /\ kind = "TRANSPORT_ACCEPT" => EncodedSize(kind) = 16
      BY DEF EncodedSize
    <3> QED
      BY <2>1, <3>1 DEF Kind
  <2>3. EncodedSizeAtMajor(major, kind) \in 10 .. 17
    BY <1>3, <2>2 DEF EncodedSizeAtMajor
  <2> QED
    BY <1>1, <2>1, <2>3 DEF kind
<1> QED
  BY <1>2, <1>3

\* The fields written are the first ones, and where they end there is room.
LEMMA FieldsWrittenAreFirst ==
    ASSUME NEW major, NEW object, object.kind \in Kind
    PROVE  LET layout == LayoutWritten(major, object.kind)
               m == Cardinality(FieldsWritten(major, object))
           IN  /\ layout \in Seq(Fields)
               /\ m \in 0 .. Len(layout)
               /\ FieldsWritten(major, object) = 1 .. m
               /\ Len(BodyBits(object.body, layout, m)) \in Nat
               /\ 16 + Len(BodyBits(object.body, layout, m)) = PositionOf(layout, m + 1)
               /\ m > 0 => PositionOf(layout, m + 1) <= 8 * Required(major, object)
               /\ m = 0 => PositionOf(layout, m + 1) = 16
<1> DEFINE layout == LayoutWritten(major, object.kind)
           n == Len(layout)
           W == FieldsWritten(major, object)
           G == {j \in 1 .. n : /\ Fits(object.body[layout[j].name], layout[j])
                                /\ PositionOf(layout, j + 1) <= 8 * Required(major, object)}
           m == Cardinality(W)
<1>1. layout \in Seq(Fields)
  BY LayoutType
<1>2. n \in Nat /\ DOMAIN layout = 1 .. n /\ \A i \in 1 .. n : layout[i].width \in Nat
  <2> HIDE DEF layout
  <2>1. n \in Nat /\ DOMAIN layout = 1 .. n
    BY <1>1
  <2>2. \A i \in 1 .. n : layout[i] \in Fields
    BY <1>1
  <2>3. \A f \in Fields : f.width \in Nat
    BY DEF Fields
  <2> QED
    BY <2>1, <2>2, <2>3
<1>3. W = {i \in 1 .. n : \A j \in 1 .. i : j \in G}
  BY <1>2 DEF FieldsWritten
<1> HIDE DEF layout, n, W
<1>4. m \in 0 .. n /\ W = 1 .. m
  <2> HIDE DEF G
  <2> QED
    BY ZenonT(60), <1>2, <1>3, GoodPrefix
<1>5. m > 0 => PositionOf(layout, m + 1) <= 8 * Required(major, object)
  BY <1>3, <1>4
<1> HIDE DEF m
<1>6. \A k \in 0 .. n : Len(BodyBits(object.body, layout, k)) = PositionOf(layout, k + 1) - 16
  BY <1>2, BodyBitsLength
<1>7. /\ PositionOf(layout, 1) = 16
      /\ \A i \in 1 .. n + 1 : PositionOf(layout, i) \in Nat
      /\ \A i \in 1 .. n : PositionOf(layout, i + 1) = PositionOf(layout, i) + layout[i].width
  BY <1>2, PositionSteps
<1>8. Len(BodyBits(object.body, layout, m)) = PositionOf(layout, m + 1) - 16
  BY <1>4, <1>6
<1>9. PositionOf(layout, m + 1) \in Nat
  BY <1>2, <1>4, <1>7
<1>10. Len(BodyBits(object.body, layout, m)) \in Nat
  <2> DEFINE S == {k \in Nat : k <= n => PositionOf(layout, k + 1) >= 16}
  <2>1. 0 \in S
    BY <1>7
  <2>2. ASSUME NEW k \in Nat, k \in S PROVE k + 1 \in S
    <3> SUFFICES ASSUME k + 1 <= n PROVE PositionOf(layout, (k + 1) + 1) >= 16
      OBVIOUS
    <3>1. k + 1 \in 1 .. n /\ k + 1 \in 1 .. n + 1 /\ k <= n
      BY <1>2
    <3>2. PositionOf(layout, (k + 1) + 1) = PositionOf(layout, k + 1) + layout[k + 1].width
      BY <1>7, <3>1
    <3>3. PositionOf(layout, k + 1) \in Nat /\ layout[k + 1].width \in Nat
      BY <1>2, <1>7, <3>1
    <3>4. PositionOf(layout, k + 1) >= 16
      BY <2>2, <3>1
    <3> QED
      BY <3>2, <3>3, <3>4
  <2> HIDE DEF S
  <2>3. m \in S
    <3>1. Nat \subseteq S
      BY ONLY <2>1, <2>2, AllNumbers
    <3>2. m \in Nat
      BY ONLY <1>2, <1>4
    <3> QED
      BY ONLY <3>1, <3>2
  <2>4. PositionOf(layout, m + 1) >= 16
    BY <1>2, <1>4, <2>3 DEF S
  <2> QED
    BY <1>8, <1>9, <2>4
<1>11. m = 0 => PositionOf(layout, m + 1) = 16
  BY <1>7
<1> QED
  BY <1>1, <1>4, <1>5, <1>8, <1>9, <1>10, <1>11 DEF layout, W, m, n

\* The ways out of the encoder.
LEMMA EncodeCases ==
    ASSUME NEW major, NEW object, NEW memory, NEW capacity
    PROVE  LET result   == EncodeAtMajor(major, object, memory, capacity)
               required == Required(major, object)
               layout   == LayoutWritten(major, object.kind)
               stuck    == Cardinality(FieldsWritten(major, object)) + 1
           IN  /\ required = 0 => result = Refusal("UNSUPPORTED_SEMANTIC", memory)
               /\ required # 0 =>
                     /\ capacity < required => result = Refusal("BUFFER_TOO_SMALL", memory)
                     /\ (~(capacity < required) /\ ~HeaderFits(HeaderOf(major, object)))
                           => result = Refusal("RANGE", Zeroed(memory, required))
                     /\ (~(capacity < required) /\ HeaderFits(HeaderOf(major, object)))
                           => result =
                                IF FieldsWritten(major, object) = DOMAIN layout
                                THEN [status |-> "OK", memory |-> Bodied(major, object, memory),
                                      written |-> required]
                                ELSE IF ~Fits(object.body[layout[stuck].name], layout[stuck])
                                THEN Refusal("RANGE", Bodied(major, object, memory))
                                ELSE Refusal("BUFFER_TOO_SMALL", Bodied(major, object, memory))
<1> DEFINE required == EncodedSizeAtMajor(major, object.kind)
           result == EncodeAtMajor(major, object, memory, capacity)
           layout == LayoutWritten(major, object.kind)
           W == {i \in DOMAIN layout :
                   \A j \in 1 .. i : /\ Fits(object.body[layout[j].name], layout[j])
                                    /\ PositionOf(layout, j + 1) <= 8 * required}
           stuck == Cardinality(W) + 1
           bits == FlattenSeq([i \in 1 .. stuck - 1 |->
                                  FieldBits(object.body[layout[i].name], layout[i])])
           bodied == OrBits(Headed(major, object, memory), 8 * COMMON_HEADER_SIZE, bits)
<1>1. result = IF required = 0 THEN Refusal("UNSUPPORTED_SEMANTIC", memory)
               ELSE IF capacity < required THEN Refusal("BUFFER_TOO_SMALL", memory)
               ELSE IF ~HeaderFits(HeaderOf(major, object))
                    THEN Refusal("RANGE", Zeroed(memory, required))
               ELSE IF W = DOMAIN layout
                    THEN [status |-> "OK", memory |-> bodied, written |-> required]
               ELSE IF ~Fits(object.body[layout[stuck].name], layout[stuck])
                    THEN Refusal("RANGE", bodied)
               ELSE Refusal("BUFFER_TOO_SMALL", bodied)
  BY DEF EncodeAtMajor, HeaderOf, Headed, Required
<1>2. W = FieldsWritten(major, object) /\ required = Required(major, object)
  BY DEF FieldsWritten, Required
<1>3. required # 0 => bodied = Bodied(major, object, memory)
  <2> SUFFICES ASSUME required # 0 PROVE bodied = Bodied(major, object, memory)
    OBVIOUS
  <2>1. object.kind \in Kind
    BY <1>2, RequiredType
  <2>2. Cardinality(FieldsWritten(major, object)) \in Nat
    BY <2>1, FieldsWrittenAreFirst
  <2>3. stuck - 1 = Cardinality(FieldsWritten(major, object))
    <3> HIDE DEF W
    <3> QED
      BY <1>2, <2>2
  <2>4. 8 * COMMON_HEADER_SIZE = 16
    BY DEF COMMON_HEADER_SIZE
  <2> HIDE DEF stuck, layout
  <2>5. bits = BodyBits(object.body, layout, Cardinality(FieldsWritten(major, object)))
    BY <2>3 DEF BodyBits
  <2> HIDE DEF bits
  <2> QED
    BY <2>4, <2>5 DEF Bodied, layout
<1> HIDE DEF W, bodied, required, result, layout
<1> QED
  BY <1>1, <1>2, <1>3 DEF result, layout

\* The header that is written is two octets, the lowest bit of the second clear.
LEMMA HeadedType ==
    ASSUME NEW major, NEW object, NEW n \in Nat, NEW memory \in [1 .. n -> 0 .. 255],
           object.priority \in Nat, Required(major, object) # 0,
           Required(major, object) <= n, HeaderFits(HeaderOf(major, object))
    PROVE  /\ Headed(major, object, memory) \in [1 .. n -> 0 .. 255]
           /\ Headed(major, object, memory)[1] = HeaderEncode(HeaderOf(major, object))[1]
           /\ Headed(major, object, memory)[2] = HeaderEncode(HeaderOf(major, object))[2]
           /\ HeaderEncode(HeaderOf(major, object))[2] % 2 = 0
           /\ \A k \in 3 .. n : Headed(major, object, memory)[k] =
                 IF k <= Required(major, object) THEN 0 ELSE memory[k]
<1> DEFINE required == Required(major, object)
           h == HeaderOf(major, object)
           a == HeaderEncode(h)[1]
           b == HeaderEncode(h)[2]
           z == Zeroed(memory, required)
<1>1. required \in 10 .. 17 /\ major \in {0, 1} /\ object.kind \in Kind
  BY RequiredType
<1>2. /\ KindToCode(object.kind).category \in 0 .. 8
      /\ KindToCode(object.kind).opcode \in {0, 1}
  <2> DEFINE kind == object.kind
  <2> HIDE DEF kind
  <2>1. /\ kind = "PRESENCE" => KindToCode(kind) = [category |-> 0, opcode |-> 0]
        /\ kind = "HAZARD" => KindToCode(kind) = [category |-> 3, opcode |-> 1]
        /\ kind = "REQUEST" => KindToCode(kind) = [category |-> 5, opcode |-> 1]
        /\ kind = "AUTHORITY_CLAIM" => KindToCode(kind) = [category |-> 1, opcode |-> 1]
        /\ kind = "DEGRADED_STATE" => KindToCode(kind) = [category |-> 6, opcode |-> 1]
        /\ kind = "TRANSPORT_OFFER" => KindToCode(kind) = [category |-> 8, opcode |-> 0]
        /\ kind = "TRANSPORT_ACCEPT" => KindToCode(kind) = [category |-> 8, opcode |-> 1]
    BY DEF KindToCode
  <2>2. kind \in Kind => KindToCode(kind).category \in 0 .. 8 /\ KindToCode(kind).opcode \in {0, 1}
    BY <2>1 DEF Kind
  <2> QED
    BY <1>1, <2>2 DEF kind
<1>3. object.priority \in 0 .. 3
  BY DEF HeaderFits, HeaderOf
<1>4. /\ a = major * 16 + KindToCode(object.kind).category
      /\ b = KindToCode(object.kind).opcode * 8 + object.priority * 2 + 0
  BY DEF HeaderEncode, HeaderOf
<1>5. a \in 0 .. 255 /\ b \in 0 .. 255 /\ b % 2 = 0
  <2> DEFINE c == KindToCode(object.kind).category
             o == KindToCode(object.kind).opcode
             p == object.priority
  <2> HIDE DEF c, o, p, a, b
  <2>1. c \in 0 .. 8 /\ (o = 0 \/ o = 1) /\ (p = 0 \/ p = 1 \/ p = 2 \/ p = 3)
    BY <1>2, <1>3 DEF c, o, p
  <2>2. a = major * 16 + c /\ b = o * 8 + p * 2 + 0
    BY <1>4 DEF c, o, p
  <2>3. a \in 0 .. 255
    BY <1>1, <2>1, <2>2
  <2>4. b \in {0, 2, 4, 6, 8, 10, 12, 14}
    BY <2>1, <2>2
  <2>5. b \in 0 .. 255
    BY <2>4
  <2>6. b % 2 = 0
    <3> HIDE DEF h
    <3> QED
      BY <2>4
  <2> QED
    BY <2>3, <2>5, <2>6
<1>6. z \in [1 .. n -> 0 .. 255] /\ \A k \in 1 .. n : z[k] = IF k <= required THEN 0 ELSE memory[k]
  BY DEF Zeroed
<1>7. Headed(major, object, memory) = [z EXCEPT ![1] = a, ![2] = b]
  BY DEF Headed
<1>8. 1 \in 1 .. n /\ 2 \in 1 .. n
  BY <1>1
<1> HIDE DEF z, a, b, required
<1>9. [z EXCEPT ![1] = a, ![2] = b] \in [1 .. n -> 0 .. 255]
  BY <1>5, <1>6, <1>8
<1>10. /\ [z EXCEPT ![1] = a, ![2] = b][1] = a /\ [z EXCEPT ![1] = a, ![2] = b][2] = b
       /\ \A k \in 3 .. n : [z EXCEPT ![1] = a, ![2] = b][k] = z[k]
  BY <1>6, <1>8
<1>11. \A k \in 3 .. n : z[k] = IF k <= required THEN 0 ELSE memory[k]
  BY <1>6
<1> QED
  BY <1>5, <1>7, <1>9, <1>10, <1>11 DEF a, b, h, required

\* The body is or-ed in behind the header and before the end of the object.
LEMMA BodiedType ==
    ASSUME NEW major, NEW object, NEW n \in Nat, NEW memory \in [1 .. n -> 0 .. 255],
           object.priority \in Nat, Required(major, object) # 0,
           Required(major, object) <= n, HeaderFits(HeaderOf(major, object))
    PROVE  /\ Bodied(major, object, memory) \in [1 .. n -> 0 .. 255]
           /\ Bodied(major, object, memory)[1] = HeaderEncode(HeaderOf(major, object))[1]
           /\ Bodied(major, object, memory)[2] = HeaderEncode(HeaderOf(major, object))[2]
           /\ \A k \in 1 .. n : k > Required(major, object) =>
                 Bodied(major, object, memory)[k] = memory[k]
<1> DEFINE required == Required(major, object)
           headed == Headed(major, object, memory)
           bits == BodyBits(object.body, LayoutWritten(major, object.kind),
                            Cardinality(FieldsWritten(major, object)))
           bodied == OrBits(headed, 16, bits)
<1>1. required \in 10 .. 17 /\ object.kind \in Kind
  BY RequiredType
<1>2. /\ headed \in [1 .. n -> 0 .. 255]
      /\ headed[1] = HeaderEncode(HeaderOf(major, object))[1]
      /\ headed[2] = HeaderEncode(HeaderOf(major, object))[2]
      /\ \A k \in 3 .. n : headed[k] = IF k <= required THEN 0 ELSE memory[k]
  BY SMTT(30), HeadedType
<1>3. Len(bits) \in Nat /\ 16 + Len(bits) <= 8 * required
  <2> DEFINE layout == LayoutWritten(major, object.kind)
             m == Cardinality(FieldsWritten(major, object))
  <2>1. /\ m \in 0 .. Len(layout)
        /\ Len(bits) \in Nat
        /\ 16 + Len(bits) = PositionOf(layout, m + 1)
        /\ m > 0 => PositionOf(layout, m + 1) <= 8 * required
        /\ m = 0 => PositionOf(layout, m + 1) = 16
    BY <1>1, FieldsWrittenAreFirst
  <2>2. m \in Nat
    BY <1>1, FieldsWrittenAreFirst, <2>1
  <2> HIDE DEF m, layout, bits, required
  <2> QED
    BY <1>1, <2>1, <2>2
<1>4. Bodied(major, object, memory) = bodied
  BY DEF Bodied
<1> HIDE DEF required, headed, bits
<1>5. bodied \in [1 .. n -> 0 .. 255]
  <2>1. /\ bodied \in [1 .. n -> 0 .. 255]
        /\ \A k \in 1 .. n, b \in 0 .. 7 :
              BitOf(bodied[k], b) =
                 IF BitOf(headed[k], b) = 1 \/ NewBit(16, bits, 8 * (k - 1) + b)
                 THEN 1 ELSE 0
    <3>1. headed \in [1 .. n -> 0 .. 255]
      BY <1>2
    <3> QED
      BY ZenonT(30), <3>1, OrBitsOctets
  <2> QED
    BY <2>1
<1>6. ASSUME NEW k \in 1 .. n, 8 * k <= 16 \/ 16 + Len(bits) <= 8 * (k - 1)
      PROVE  bodied[k] = headed[k]
  <2>1. headed \in [1 .. n -> 0 .. 255] /\ Len(bits) \in Nat /\ 16 \in Nat
    BY <1>2, <1>3
  <2> QED
    BY SMTT(30), <1>6, <2>1, OrBitsElsewhere
<1> HIDE DEF bodied
<1>7. 1 \in 1 .. n /\ 2 \in 1 .. n /\ 8 * 1 <= 16 /\ 8 * 2 <= 16
  BY <1>1 DEF required
<1>8. bodied[1] = headed[1] /\ bodied[2] = headed[2]
  BY <1>6, <1>7
<1>9. ASSUME NEW k \in 1 .. n, k > required PROVE bodied[k] = memory[k]
  <2>1. 16 + Len(bits) <= 8 * (k - 1) /\ k \in 3 .. n /\ ~(k <= required)
    BY <1>1, <1>3, <1>9
  <2> QED
    BY <1>2, <1>6, <2>1
<1> QED
  BY <1>2, <1>4, <1>5, <1>8, <1>9 DEF required

\* What the encoder does to n octets of memory of which capacity may be written.
EncodesInto(result, major, object, memory, capacity, n) ==
    /\ result.status \in {"OK", "UNSUPPORTED_SEMANTIC", "BUFFER_TOO_SMALL", "RANGE"}
    /\ result.memory \in [1 .. n -> 0 .. 255]
    /\ result.written = IF result.status = "OK" THEN Required(major, object) ELSE 0
    /\ capacity < Required(major, object) => result.memory = memory
    /\ \A k \in 1 .. n : k > Required(major, object) => result.memory[k] = memory[k]
    /\ result.status = "OK" => /\ Required(major, object) \in 10 .. 17
                               /\ Required(major, object) <= capacity
                               /\ result.memory[2] % 2 = 0

LEMMA EncodeAtMajorWrites ==
    ASSUME NEW major, NEW object, NEW n \in Nat, NEW memory \in [1 .. n -> 0 .. 255],
           object.priority \in Nat, NEW capacity \in 0 .. n
    PROVE  EncodesInto(EncodeAtMajor(major, object, memory, capacity),
                       major, object, memory, capacity, n)
<1> DEFINE required == Required(major, object)
           result == EncodeAtMajor(major, object, memory, capacity)
           layout == LayoutWritten(major, object.kind)
           stuck == Cardinality(FieldsWritten(major, object)) + 1
           bodied == Bodied(major, object, memory)
<1>1. required \in {0} \cup 10 .. 17
  BY RequiredType
<1>2. /\ required = 0 => result = Refusal("UNSUPPORTED_SEMANTIC", memory)
      /\ required # 0 =>
            /\ capacity < required => result = Refusal("BUFFER_TOO_SMALL", memory)
            /\ (~(capacity < required) /\ ~HeaderFits(HeaderOf(major, object)))
                  => result = Refusal("RANGE", Zeroed(memory, required))
            /\ (~(capacity < required) /\ HeaderFits(HeaderOf(major, object)))
                  => result =
                       IF FieldsWritten(major, object) = DOMAIN layout
                       THEN [status |-> "OK", memory |-> bodied, written |-> required]
                       ELSE IF ~Fits(object.body[layout[stuck].name], layout[stuck])
                       THEN Refusal("RANGE", bodied)
                       ELSE Refusal("BUFFER_TOO_SMALL", bodied)
  BY EncodeCases
<1> HIDE DEF required, result, layout, stuck, bodied
<1>3. CASE required = 0 \/ capacity < required
  <2>1. /\ result.memory = memory /\ result.written = 0
        /\ result.status \in {"UNSUPPORTED_SEMANTIC", "BUFFER_TOO_SMALL"}
    BY <1>2, <1>3 DEF Refusal
  <2> QED
    BY <2>1 DEF EncodesInto, required, result
<1>4. CASE /\ required # 0 /\ ~(capacity < required) /\ ~HeaderFits(HeaderOf(major, object))
  <2>1. result.memory = Zeroed(memory, required) /\ result.written = 0 /\ result.status = "RANGE"
    BY <1>2, <1>4 DEF Refusal
  <2>2. /\ Zeroed(memory, required) \in [1 .. n -> 0 .. 255]
        /\ \A k \in 1 .. n : k > required => Zeroed(memory, required)[k] = memory[k]
    BY <1>1 DEF Zeroed
  <2> QED
    BY <1>4, <2>1, <2>2 DEF EncodesInto, required, result
<1>5. CASE /\ required # 0 /\ ~(capacity < required) /\ HeaderFits(HeaderOf(major, object))
  <2>1. required \in 10 .. 17 /\ required <= capacity /\ required <= n
    BY <1>1, <1>5
  <2>2. /\ bodied \in [1 .. n -> 0 .. 255]
        /\ bodied[2] = HeaderEncode(HeaderOf(major, object))[2]
        /\ \A k \in 1 .. n : k > required => bodied[k] = memory[k]
    <3>1. /\ Required(major, object) # 0 /\ Required(major, object) <= n
          /\ HeaderFits(HeaderOf(major, object))
      BY <1>5, <2>1 DEF required
    <3>2. Bodied(major, object, memory) \in [1 .. n -> 0 .. 255]
      BY ZenonT(30), <3>1, BodiedType
    <3>3. Bodied(major, object, memory)[2] = HeaderEncode(HeaderOf(major, object))[2]
      BY SMTT(30), <3>1, BodiedType
    <3>4. ASSUME NEW k \in 1 .. n, k > Required(major, object)
          PROVE  Bodied(major, object, memory)[k] = memory[k]
      BY SMTT(30), <3>1, <3>4, BodiedType
    <3> QED
      BY <3>2, <3>3, <3>4 DEF required, bodied
  <2>3. bodied[2] % 2 = 0
    <3>1. /\ Required(major, object) # 0 /\ Required(major, object) <= n
          /\ HeaderFits(HeaderOf(major, object))
      BY <1>5, <2>1 DEF required
    <3>2. HeaderEncode(HeaderOf(major, object))[2] % 2 = 0
      BY SMTT(30), <3>1, HeadedType
    <3> QED
      BY <2>2, <3>2
  <2>4. /\ result.memory = bodied /\ result.status \in {"OK", "RANGE", "BUFFER_TOO_SMALL"}
        /\ result.written = IF result.status = "OK" THEN required ELSE 0
    BY <1>2, <1>5 DEF Refusal
  <2> QED
    BY <1>5, <2>1, <2>2, <2>3, <2>4 DEF EncodesInto, required, result
<1> QED
  BY <1>3, <1>4, <1>5

\* What an octet becomes does not depend on the octets around it.
LEMMA OrBitsLocal ==
    ASSUME NEW k \in Nat \ {0}, NEW memory, NEW other, NEW position, NEW bits,
           k \in DOMAIN memory, k \in DOMAIN other, memory[k] = other[k]
    PROVE  OrBits(memory, position, bits)[k] = OrBits(other, position, bits)[k]
<1> DEFINE New(p) == IF p \in position .. position + Len(bits) - 1
                     THEN bits[p - position + 1] ELSE 0
           Ored(octets) == [b \in 1 .. 8 |->
                              IF Bit(octets, 8 * (k - 1) + b - 1) = 1 \/ New(8 * (k - 1) + b - 1) = 1
                              THEN 1 ELSE 0]
<1>1. /\ OrBits(memory, position, bits)[k] = NumberOf(Ored(memory))
      /\ OrBits(other, position, bits)[k] = NumberOf(Ored(other))
  BY DEF OrBits
<1>2. \A b \in 1 .. 8 : Bit(memory, 8 * (k - 1) + b - 1) = Bit(other, 8 * (k - 1) + b - 1)
  <2> SUFFICES ASSUME NEW b \in 1 .. 8
               PROVE  Bit(memory, 8 * (k - 1) + b - 1) = Bit(other, 8 * (k - 1) + b - 1)
    OBVIOUS
  <2>1. b - 1 \in 0 .. 7 /\ 8 * (k - 1) + b - 1 = 8 * (k - 1) + (b - 1)
    OBVIOUS
  <2>2. Bit(memory, 8 * (k - 1) + (b - 1)) = BitOf(memory[k], b - 1)
    BY <2>1, BitAt
  <2>3. Bit(other, 8 * (k - 1) + (b - 1)) = BitOf(other[k], b - 1)
    BY <2>1, BitAt
  <2> QED
    BY <2>1, <2>2, <2>3
<1>3. Ored(memory) = Ored(other)
  <2> HIDE DEF New
  <2> QED
    BY <1>2
<1> QED
  BY <1>1, <1>3

\* An octet of the object before the body is or-ed in.
LEMMA HeadedOctet ==
    ASSUME NEW major, NEW object, NEW memory, NEW k \in 1 .. Required(major, object),
           k \in DOMAIN memory
    PROVE  /\ k \in DOMAIN Headed(major, object, memory)
           /\ Headed(major, object, memory)[k] =
                 IF k \in {1, 2} THEN HeaderEncode(HeaderOf(major, object))[k] ELSE 0
<1> DEFINE z == Zeroed(memory, Required(major, object))
           a == HeaderEncode(HeaderOf(major, object))
<1>1. k \in Nat /\ k <= Required(major, object) /\ DOMAIN z = DOMAIN memory /\ z[k] = 0
  BY RequiredType DEF Zeroed
<1>2. Headed(major, object, memory) = [z EXCEPT ![1] = a[1], ![2] = a[2]]
  BY DEF Headed
<1> HIDE DEF z, a
<1>3. DOMAIN [z EXCEPT ![1] = a[1], ![2] = a[2]] = DOMAIN z
  OBVIOUS
<1>4. [z EXCEPT ![1] = a[1], ![2] = a[2]][k] = IF k = 1 THEN a[1] ELSE IF k = 2 THEN a[2] ELSE z[k]
  BY <1>1
<1> QED
  BY <1>1, <1>2, <1>3, <1>4 DEF a

SameBodied(major, object, memory, other) ==
    \A k \in 1 .. Required(major, object) :
        (k \in DOMAIN memory /\ k \in DOMAIN other) =>
            Bodied(major, object, memory)[k] = Bodied(major, object, other)[k]

LEMMA BodiedIsLocal ==
    ASSUME NEW major, NEW object, NEW memory, NEW other
    PROVE  SameBodied(major, object, memory, other)
<1> SUFFICES ASSUME NEW k \in 1 .. Required(major, object), k \in DOMAIN memory, k \in DOMAIN other
             PROVE  Bodied(major, object, memory)[k] = Bodied(major, object, other)[k]
  BY DEF SameBodied
<1> DEFINE h1 == Headed(major, object, memory)
           h2 == Headed(major, object, other)
           bits == BodyBits(object.body, LayoutWritten(major, object.kind),
                            Cardinality(FieldsWritten(major, object)))
<1>1. /\ Bodied(major, object, memory) = OrBits(h1, 16, bits)
      /\ Bodied(major, object, other) = OrBits(h2, 16, bits)
  BY DEF Bodied
<1>2. k \in DOMAIN h1
  BY HeadedOctet
<1>3. k \in DOMAIN h2
  BY HeadedOctet
<1>4. h1[k] = IF k \in {1, 2} THEN HeaderEncode(HeaderOf(major, object))[k] ELSE 0
  BY HeadedOctet
<1>5. h2[k] = IF k \in {1, 2} THEN HeaderEncode(HeaderOf(major, object))[k] ELSE 0
  BY HeadedOctet
<1> HIDE DEF h1, h2, bits
<1>6. k \in Nat \ {0}
  OBVIOUS
<1>7. h1[k] = h2[k]
  BY <1>4, <1>5
<1>8. OrBits(h1, 16, bits)[k] = OrBits(h2, 16, bits)[k]
  BY <1>2, <1>3, <1>6, <1>7, OrBitsLocal
<1> QED
  BY <1>1, <1>8

\* Where there is room for the object, what the encoder answers and what it
\* writes depend on the object alone.
SameEncoding(major, object, memory, capacity, other, room) ==
    LET required == Required(major, object)
        r1 == EncodeAtMajor(major, object, memory, capacity)
        r2 == EncodeAtMajor(major, object, other, room)
    IN  (/\ ~(capacity < required) /\ 1 .. required \subseteq DOMAIN memory
         /\ ~(room < required) /\ 1 .. required \subseteq DOMAIN other)
        => /\ r1.status = r2.status
           /\ r1.status = "OK" => \A k \in 1 .. required : r1.memory[k] = r2.memory[k]

LEMMA EncodeIsLocal ==
    ASSUME NEW major, NEW object, NEW memory, NEW capacity, NEW other, NEW room
    PROVE  SameEncoding(major, object, memory, capacity, other, room)
<1> DEFINE required == Required(major, object)
           r1 == EncodeAtMajor(major, object, memory, capacity)
           r2 == EncodeAtMajor(major, object, other, room)
           layout == LayoutWritten(major, object.kind)
           stuck == Cardinality(FieldsWritten(major, object)) + 1
           b1 == Bodied(major, object, memory)
           b2 == Bodied(major, object, other)
<1> SUFFICES ASSUME ~(capacity < required), 1 .. required \subseteq DOMAIN memory,
                    ~(room < required), 1 .. required \subseteq DOMAIN other
             PROVE  /\ r1.status = r2.status
                    /\ r1.status = "OK" => \A k \in 1 .. required : r1.memory[k] = r2.memory[k]
  BY DEF SameEncoding
<1>1. ~(capacity < required) /\ ~(room < required)
  OBVIOUS
<1>2. /\ required = 0 => r1 = Refusal("UNSUPPORTED_SEMANTIC", memory)
      /\ required # 0 =>
            /\ capacity < required => r1 = Refusal("BUFFER_TOO_SMALL", memory)
            /\ (~(capacity < required) /\ ~HeaderFits(HeaderOf(major, object)))
                  => r1 = Refusal("RANGE", Zeroed(memory, required))
            /\ (~(capacity < required) /\ HeaderFits(HeaderOf(major, object)))
                  => r1 =
                       IF FieldsWritten(major, object) = DOMAIN layout
                       THEN [status |-> "OK", memory |-> b1, written |-> required]
                       ELSE IF ~Fits(object.body[layout[stuck].name], layout[stuck])
                       THEN Refusal("RANGE", b1)
                       ELSE Refusal("BUFFER_TOO_SMALL", b1)
  BY EncodeCases
<1>3. /\ required = 0 => r2 = Refusal("UNSUPPORTED_SEMANTIC", other)
      /\ required # 0 =>
            /\ room < required => r2 = Refusal("BUFFER_TOO_SMALL", other)
            /\ (~(room < required) /\ ~HeaderFits(HeaderOf(major, object)))
                  => r2 = Refusal("RANGE", Zeroed(other, required))
            /\ (~(room < required) /\ HeaderFits(HeaderOf(major, object)))
                  => r2 =
                       IF FieldsWritten(major, object) = DOMAIN layout
                       THEN [status |-> "OK", memory |-> b2, written |-> required]
                       ELSE IF ~Fits(object.body[layout[stuck].name], layout[stuck])
                       THEN Refusal("RANGE", b2)
                       ELSE Refusal("BUFFER_TOO_SMALL", b2)
  BY EncodeCases
<1>4. ASSUME required # 0, HeaderFits(HeaderOf(major, object)), NEW k \in 1 .. required
      PROVE  b1[k] = b2[k]
  <2>2. k \in DOMAIN memory /\ k \in DOMAIN other /\ k \in 1 .. Required(major, object)
    OBVIOUS
  <2>3. Bodied(major, object, memory)[k] = Bodied(major, object, other)[k]
    <3>1. SameBodied(major, object, memory, other)
      BY BodiedIsLocal
    <3> QED
      BY <2>2, <3>1 DEF SameBodied
  <2> QED
    BY <2>3
<1> HIDE DEF required, r1, r2, layout, stuck, b1, b2
<1>5. CASE required = 0
  BY <1>2, <1>3, <1>5 DEF Refusal, required, r1, r2
<1>6. CASE required # 0 /\ ~HeaderFits(HeaderOf(major, object))
  BY <1>1, <1>2, <1>3, <1>6 DEF Refusal, required, r1, r2
<1>7. CASE required # 0 /\ HeaderFits(HeaderOf(major, object))
  <2>1. r1.status = r2.status /\ r1.memory = b1 /\ r2.memory = b2
    BY <1>1, <1>2, <1>3, <1>7 DEF Refusal
  <2> QED
    BY <1>4, <1>7, <2>1 DEF required, r1, r2
<1> QED
  BY <1>5, <1>6, <1>7


-----------------------------------------------------------------------------
\* An object that is encoded has octets, ten to seventeen, and no extension_present.
LEMMA FixedIs ==
    ASSUME NEW major, NEW o, o.priority \in Nat,
           EncodeAtMajor(major, o, [k \in 1 .. 17 |-> 0], 17).status = "OK"
    PROVE  /\ FixedEncoding(major, o) \in Seq(0 .. 255)
           /\ Len(FixedEncoding(major, o)) = Required(major, o)
           /\ Len(FixedEncoding(major, o)) \in 10 .. 17
           /\ (FixedEncoding(major, o)[2] % 2) = 0
           /\ \A k \in 1 .. Len(FixedEncoding(major, o)) :
                 FixedEncoding(major, o)[k] =
                    EncodeAtMajor(major, o, [j \in 1 .. 17 |-> 0], 17).memory[k]
<1> DEFINE zeros == [k \in 1 .. 17 |-> 0]
           r == EncodeAtMajor(major, o, zeros, 17)
           n == Required(major, o)
           f == FixedEncoding(major, o)
           B == 0 .. 255
<1>2. zeros \in [1 .. 17 -> B] /\ 17 \in Nat /\ 17 \in 0 .. 17
  OBVIOUS
<1>3. EncodesInto(r, major, o, zeros, 17, 17)
  BY <1>2, EncodeAtMajorWrites
<1>4. r.status = "OK"
  OBVIOUS
<1>5. f = SubSeq(r.memory, 1, r.written)
  BY DEF FixedEncoding
<1> HIDE DEF r, zeros, n, f, B
<1>6. r.memory \in [1 .. 17 -> B] /\ r.written = n /\ n \in 10 .. 17 /\ (r.memory[2] % 2) = 0
  BY <1>3, <1>4 DEF EncodesInto, n, B
<1>7. r.memory \in Seq(B) /\ Len(r.memory) = 17
  <2> DEFINE s == r.memory
             l == 17
  <2>1. s \in [1 .. l -> B] /\ l \in Nat
    BY <1>6
  <2> HIDE DEF s, l
  <2>2. s \in Seq(B) /\ Len(s) = l
    BY <2>1, FunctionIsSequence
  <2> QED
    BY <2>2 DEF s, l
<1>8. /\ SubSeq(r.memory, 1, n) \in Seq(B)
      /\ Len(SubSeq(r.memory, 1, n)) = n
      /\ \A k \in 1 .. n : SubSeq(r.memory, 1, n)[k] = r.memory[k]
  <2> DEFINE s == r.memory
             t == SubSeq(s, 1, n)
  <2>1. s \in [1 .. 17 -> B] /\ s \in Seq(B) /\ Len(s) = 17 /\ n \in 10 .. 17
    BY <1>6, <1>7
  <2> HIDE DEF s
  <2>2. \A k \in 1 .. n : s[k] \in B
    <3>1. 1 .. n \subseteq 1 .. 17
      BY <2>1
    <3> QED
      BY <2>1, <3>1
  <2>3. t = [k \in 1 .. n |-> s[k]]
    BY <2>1
  <2> HIDE DEF t
  <2>4. t \in [1 .. n -> B]
    BY <2>2, <2>3
  <2>5. n \in Nat
    BY <2>1
  <2>6. t \in Seq(B) /\ Len(t) = n
    BY <2>4, <2>5, FunctionIsSequence
  <2>7. \A k \in 1 .. n : t[k] = s[k]
    BY <2>3
  <2> QED
    BY <2>6, <2>7 DEF s, t
<1>9. 2 \in 1 .. n
  BY <1>6
<1> QED
  <2>1. f[2] = r.memory[2]
    BY <1>5, <1>6, <1>8, <1>9
  <2>2. \A k \in 1 .. Len(f) : f[k] = r.memory[k]
    BY <1>5, <1>6, <1>8
  <2>3. f \in Seq(B) /\ Len(f) = n
    BY <1>5, <1>6, <1>8
  <2>4. (f[2] % 2) = 0
    BY <1>6, <2>1
  <2> QED
    BY <1>6, <2>2, <2>3, <2>4 DEF n, r, zeros, f, B

-----------------------------------------------------------------------------
\* A layout that starts with a field, field by field.
LEMMA LedBy ==
    ASSUME NEW T, NEW x \in T, NEW b \in Seq(T)
    PROVE  /\ Len(<<x>> \o b) = Len(b) + 1
           /\ (<<x>> \o b)[1] = x
           /\ \A k \in 1 .. Len(b) : (<<x>> \o b)[k + 1] = b[k]
<1>1. <<x>> \in Seq(T) /\ Len(<<x>>) = 1 /\ <<x>>[1] = x /\ Len(b) \in Nat
  OBVIOUS
<1>2. Len(<<x>> \o b) = Len(b) + 1
  BY <1>1, ConcatType
<1>3. (<<x>> \o b)[1] = x
  <2>1. 1 \in 1 .. Len(<<x>>) + Len(b) /\ 1 <= Len(<<x>>)
    BY <1>1
  <2> QED
    BY <1>1, <2>1, ConcatProperties
<1>4. ASSUME NEW k \in 1 .. Len(b) PROVE (<<x>> \o b)[k + 1] = b[k]
  <2>1. k + 1 \in 1 .. Len(<<x>>) + Len(b) /\ ~(k + 1 <= Len(<<x>>)) /\ (k + 1) - Len(<<x>>) = k
    BY <1>1
  <2> QED
    BY <1>1, <2>1, ConcatProperties
<1> QED
  BY <1>2, <1>3, <1>4

\* The widths of a layout's fields in order.
HasWidths(layout, widths) ==
    /\ Len(layout) = Len(widths)
    /\ \A i \in 1 .. Len(widths) : layout[i].width = widths[i]

Widths(major, kind) ==
    CASE kind = "PRESENCE" -> IF major = STABLE_MAJOR THEN <<32, 24, 8>> ELSE <<32, 8, 24, 8>>
      [] kind = "HAZARD" -> <<32, 8, 3, 7, 12, 12, 10, 10, 8>>
      [] kind = "REQUEST" -> <<32, 8, 32, 12, 12, 10, 8>>
      [] kind = "AUTHORITY_CLAIM" -> <<32, 6, 12, 32, 8>>
      [] kind = "DEGRADED_STATE" -> <<32, 8, 7, 3, 8>>
      [] kind = "TRANSPORT_OFFER" -> <<32, 32, 8, 8, 32, 8>>
      [] kind = "TRANSPORT_ACCEPT" -> <<32, 32, 8, 8, 32>>

LEMMA LedWidths ==
    ASSUME NEW T, NEW x \in T, NEW b \in Seq(T), NEW w \in Seq(Nat), NEW v \in Nat,
           x.width = v, HasWidths(b, w)
    PROVE  HasWidths(<<x>> \o b, <<v>> \o w)
<1>1. /\ Len(<<x>> \o b) = Len(b) + 1 /\ (<<x>> \o b)[1] = x
      /\ \A k \in 1 .. Len(b) : (<<x>> \o b)[k + 1] = b[k]
  BY LedBy
<1>2. /\ Len(<<v>> \o w) = Len(w) + 1 /\ (<<v>> \o w)[1] = v
      /\ \A k \in 1 .. Len(w) : (<<v>> \o w)[k + 1] = w[k]
  BY LedBy
<1>3. Len(b) = Len(w) /\ Len(w) \in Nat /\ \A k \in 1 .. Len(w) : b[k].width = w[k]
  BY DEF HasWidths
<1>4. ASSUME NEW i \in 1 .. Len(w) + 1 PROVE (<<x>> \o b)[i].width = (<<v>> \o w)[i]
  <2>1. CASE i = 1
    BY <1>1, <1>2, <2>1
  <2>2. CASE i # 1
    <3>1. i - 1 \in 1 .. Len(w) /\ (i - 1) + 1 = i
      BY <1>3, <2>2
    <3> QED
      BY ZenonT(30), <1>1, <1>2, <1>3, <3>1
  <2> QED
    BY <2>1, <2>2
<1> QED
  BY <1>1, <1>2, <1>3, <1>4 DEF HasWidths

LEMMA LayoutWidths ==
    ASSUME NEW major, NEW kind \in Kind
    PROVE  HasWidths(LayoutWritten(major, kind), Widths(major, kind))
<1> DEFINE F == Fields
           x == Unsigned("source_ref", 32)
<1>1. /\ x \in F /\ x.width = 32
      /\ Unsigned("machine_class", 8) \in F /\ Unsigned("machine_class", 8).width = 8
  <2>1. x \in F /\ Unsigned("machine_class", 8) \in F
    BY FieldType DEF FieldName
  <2>2. x.width = 32 /\ Unsigned("machine_class", 8).width = 8
    BY DEF Unsigned
  <2> QED
    BY <2>1, <2>2
<1>2. CASE kind = "PRESENCE"
  <2> DEFINE y == Unsigned("machine_class", 8)
             b == <<Unsigned("capability_tag", 24), Unsigned("ttl", 8)>>
             w == <<24, 8>>
  <2>1. b \in Seq(F) /\ <<>> \o b = b
    <3>1. b \in Seq(F)
      BY FieldType DEF FieldName
    <3> HIDE DEF b, F
    <3> QED
      BY <3>1
  <2>2. HasWidths(b, w) /\ w \in Seq(Nat)
    BY DEF HasWidths, Unsigned
  <2>3. /\ major = STABLE_MAJOR => LayoutWritten(major, kind) = <<x>> \o (<<>> \o b)
        /\ major # STABLE_MAJOR => LayoutWritten(major, kind) = <<x>> \o (<<y>> \o b)
    BY <1>2 DEF LayoutWritten
  <2>4. /\ major = STABLE_MAJOR => Widths(major, kind) = <<32>> \o w
        /\ major # STABLE_MAJOR => Widths(major, kind) = <<32>> \o (<<8>> \o w)
    BY <1>2 DEF Widths
  <2> HIDE DEF b, x, y, F, w
  <2>5. CASE major = STABLE_MAJOR
    <3>1. HasWidths(<<x>> \o b, <<32>> \o w)
      BY <1>1, <2>1, <2>2, LedWidths
    <3> QED
      BY <2>1, <2>3, <2>4, <2>5, <3>1
  <2>6. CASE major # STABLE_MAJOR
    <3>1. HasWidths(<<y>> \o b, <<8>> \o w)
      BY <1>1, <2>1, <2>2, LedWidths DEF y
    <3>2. <<y>> \o b \in Seq(F) /\ <<8>> \o w \in Seq(Nat)
      <4>1. <<y>> \in Seq(F) /\ <<8>> \in Seq(Nat)
        BY <1>1 DEF y
      <4> QED
        BY <2>1, <2>2, <4>1, ConcatType
    <3>3. HasWidths(<<x>> \o (<<y>> \o b), <<32>> \o (<<8>> \o w))
      BY <1>1, <3>1, <3>2, LedWidths
    <3> QED
      BY <2>3, <2>4, <2>6, <3>3
  <2> QED
    BY <2>5, <2>6
<1>3. CASE kind = "HAZARD"
  <2> DEFINE b == <<Unsigned("hazard_class", 8), Unsigned("severity", 3), Unsigned("confidence", 7),
                    Signed("x", 12), Signed("y", 12), Signed("z", 10),
                    Unsigned("radius", 10), Unsigned("ttl", 8)>>
             w == <<8, 3, 7, 12, 12, 10, 10, 8>>
  <2>1. b \in Seq(F)
    BY FieldType DEF FieldName
  <2>2. HasWidths(b, w) /\ w \in Seq(Nat)
    BY DEF HasWidths, Unsigned, Signed
  <2>3. LayoutWritten(major, kind) = <<x>> \o b
    BY <1>3 DEF LayoutWritten
  <2>4. Widths(major, kind) = <<32>> \o w
    BY <1>3 DEF Widths
  <2> HIDE DEF b, x, F, w
  <2>5. HasWidths(<<x>> \o b, <<32>> \o w)
    BY <1>1, <2>1, <2>2, LedWidths
  <2> QED
    BY <2>3, <2>4, <2>5
<1>4. CASE kind = "REQUEST"
  <2> DEFINE b == <<Unsigned("request_class", 8), Unsigned("target_ref", 32),
                    Signed("x", 12), Signed("y", 12), Unsigned("radius", 10), Unsigned("ttl", 8)>>
             w == <<8, 32, 12, 12, 10, 8>>
  <2>1. b \in Seq(F)
    BY FieldType DEF FieldName
  <2>2. HasWidths(b, w) /\ w \in Seq(Nat)
    BY DEF HasWidths, Unsigned, Signed
  <2>3. LayoutWritten(major, kind) = <<x>> \o b
    BY <1>4 DEF LayoutWritten
  <2>4. Widths(major, kind) = <<32>> \o w
    BY <1>4 DEF Widths
  <2> HIDE DEF b, x, F, w
  <2>5. HasWidths(<<x>> \o b, <<32>> \o w)
    BY <1>1, <2>1, <2>2, LedWidths
  <2> QED
    BY <2>3, <2>4, <2>5
<1>5. CASE kind = "AUTHORITY_CLAIM"
  <2> DEFINE b == <<Unsigned("authority_class", 6), Unsigned("jurisdiction", 12),
                    Unsigned("credential_ref", 32), Unsigned("validity", 8)>>
             w == <<6, 12, 32, 8>>
  <2>1. b \in Seq(F)
    BY FieldType DEF FieldName
  <2>2. HasWidths(b, w) /\ w \in Seq(Nat)
    BY DEF HasWidths, Unsigned, Signed
  <2>3. LayoutWritten(major, kind) = <<x>> \o b
    BY <1>5 DEF LayoutWritten
  <2>4. Widths(major, kind) = <<32>> \o w
    BY <1>5 DEF Widths
  <2> HIDE DEF b, x, F, w
  <2>5. HasWidths(<<x>> \o b, <<32>> \o w)
    BY <1>1, <2>1, <2>2, LedWidths
  <2> QED
    BY <2>3, <2>4, <2>5
<1>6. CASE kind = "DEGRADED_STATE"
  <2> DEFINE b == <<Unsigned("affected_capability", 8), Unsigned("health", 7),
                    Unsigned("severity", 3), Unsigned("ttl", 8)>>
             w == <<8, 7, 3, 8>>
  <2>1. b \in Seq(F)
    BY FieldType DEF FieldName
  <2>2. HasWidths(b, w) /\ w \in Seq(Nat)
    BY DEF HasWidths, Unsigned, Signed
  <2>3. LayoutWritten(major, kind) = <<x>> \o b
    BY <1>6 DEF LayoutWritten
  <2>4. Widths(major, kind) = <<32>> \o w
    BY <1>6 DEF Widths
  <2> HIDE DEF b, x, F, w
  <2>5. HasWidths(<<x>> \o b, <<32>> \o w)
    BY <1>1, <2>1, <2>2, LedWidths
  <2> QED
    BY <2>3, <2>4, <2>5
<1>7. CASE kind = "TRANSPORT_OFFER"
  <2> DEFINE b == <<Unsigned("migration_ref", 32), Unsigned("transport_id", 8),
                    Unsigned("profile_id", 8), Unsigned("endpoint_token", 32),
                    Unsigned("validity", 8)>>
             w == <<32, 8, 8, 32, 8>>
  <2>1. b \in Seq(F)
    BY FieldType DEF FieldName
  <2>2. HasWidths(b, w) /\ w \in Seq(Nat)
    BY DEF HasWidths, Unsigned, Signed
  <2>3. LayoutWritten(major, kind) = <<x>> \o b
    BY <1>7 DEF LayoutWritten
  <2>4. Widths(major, kind) = <<32>> \o w
    BY <1>7 DEF Widths
  <2> HIDE DEF b, x, F, w
  <2>5. HasWidths(<<x>> \o b, <<32>> \o w)
    BY <1>1, <2>1, <2>2, LedWidths
  <2> QED
    BY <2>3, <2>4, <2>5
<1>8. CASE kind = "TRANSPORT_ACCEPT"
  <2> DEFINE b == <<Unsigned("migration_ref", 32), Unsigned("transport_id", 8),
                    Unsigned("profile_id", 8), Unsigned("session_ref", 32)>>
             w == <<32, 8, 8, 32>>
  <2>1. b \in Seq(F)
    BY FieldType DEF FieldName
  <2>2. HasWidths(b, w) /\ w \in Seq(Nat)
    BY DEF HasWidths, Unsigned, Signed
  <2>3. LayoutWritten(major, kind) = <<x>> \o b
    BY <1>8 DEF LayoutWritten
  <2>4. Widths(major, kind) = <<32>> \o w
    BY <1>8 DEF Widths
  <2> HIDE DEF b, x, F, w
  <2>5. HasWidths(<<x>> \o b, <<32>> \o w)
    BY <1>1, <2>1, <2>2, LedWidths
  <2> QED
    BY <2>3, <2>4, <2>5
<1> QED
  BY <1>2, <1>3, <1>4, <1>5, <1>6, <1>7, <1>8 DEF Kind

LEMMA WidthsPlace ==
    ASSUME NEW layout, NEW w \in Seq(Nat), HasWidths(layout, w)
    PROVE  /\ PositionOf(layout, 1) = 16
           /\ \A i \in 1 .. Len(w) : /\ PositionOf(layout, i) \in Nat
                                     /\ PositionOf(layout, i + 1) = PositionOf(layout, i) + w[i]
<1>1. Len(w) \in Nat /\ \A i \in 1 .. Len(w) : w[i] \in Nat /\ layout[i].width = w[i]
  BY DEF HasWidths
<1>2. /\ PositionOf(layout, 1) = 16
      /\ \A i \in 1 .. Len(w) + 1 : PositionOf(layout, i) \in Nat
      /\ \A i \in 1 .. Len(w) : PositionOf(layout, i + 1) = PositionOf(layout, i) + layout[i].width
  BY <1>1, PositionSteps
<1>3. \A i \in 1 .. Len(w) : i \in 1 .. Len(w) + 1
  BY <1>1
<1> QED
  BY <1>1, <1>2, <1>3

\* The size tables cover the layouts (wire.c:329-386 against 447-521).
LEMMA LayoutsFit ==
    ASSUME NEW major, NEW kind \in Kind, EncodedSizeAtMajor(major, kind) # 0
    PROVE  \A i \in 1 .. Len(LayoutWritten(major, kind)) :
              PositionOf(LayoutWritten(major, kind), i + 1) <= 8 * EncodedSizeAtMajor(major, kind)
<1> DEFINE layout == LayoutWritten(major, kind)
           w == Widths(major, kind)
           P(i) == PositionOf(layout, i)
           size == EncodedSizeAtMajor(major, kind)
<1>1. HasWidths(layout, w)
  BY LayoutWidths
<1>2. w \in Seq(Nat)
  <2>1. /\ kind = "PRESENCE" => w \in Seq(Nat)
        /\ kind = "HAZARD" => w \in Seq(Nat)
        /\ kind = "REQUEST" => w \in Seq(Nat)
        /\ kind = "AUTHORITY_CLAIM" => w \in Seq(Nat)
        /\ kind = "DEGRADED_STATE" => w \in Seq(Nat)
        /\ kind = "TRANSPORT_OFFER" => w \in Seq(Nat)
        /\ kind = "TRANSPORT_ACCEPT" => w \in Seq(Nat)
    BY DEF Widths
  <2> HIDE DEF w
  <2> QED
    BY <2>1 DEF Kind
<1> HIDE DEF layout
<1>3. /\ Len(layout) = Len(w) /\ P(1) = 16
      /\ \A i \in 1 .. Len(w) : P(i + 1) = P(i) + w[i]
  <2> HIDE DEF w
  <2>1. Len(layout) = Len(w)
    BY <1>1 DEF HasWidths
  <2> QED
    BY <1>1, <1>2, <2>1, WidthsPlace
<1>4. /\ major = STABLE_MAJOR \/ major = EXPERIMENTAL_MAJOR
      /\ size = IF major = STABLE_MAJOR /\ kind = "PRESENCE" THEN 10 ELSE EncodedSize(kind)
  BY DEF EncodedSizeAtMajor, KindAllowedAtMajor
<1> SUFFICES \A i \in 1 .. Len(w) : P(i + 1) <= 8 * size
  BY <1>3 DEF layout
<1> HIDE DEF P, size
<1>5. CASE kind = "PRESENCE" /\ major = STABLE_MAJOR
  <2>1. w = <<32, 24, 8>> /\ size = 10
    BY <1>4, <1>5 DEF Widths, EncodedSize
  <2> HIDE DEF w
  <2>2. /\ Len(w) = 3
        /\ P(1 + 1) = P(1) + 32
        /\ P(2 + 1) = P(2) + 24
        /\ P(3 + 1) = P(3) + 8
    BY <1>3, <2>1
  <2>3. /\ P(2) = 48
        /\ P(3) = 72
        /\ P(4) = 80
    BY <1>3, <2>2
  <2> QED
    BY <2>1, <2>2, <2>3
<1>6. CASE kind = "PRESENCE" /\ major # STABLE_MAJOR
  <2>1. w = <<32, 8, 24, 8>> /\ size = 11
    BY <1>4, <1>6 DEF Widths, EncodedSize
  <2> HIDE DEF w
  <2>2. /\ Len(w) = 4
        /\ P(1 + 1) = P(1) + 32
        /\ P(2 + 1) = P(2) + 8
        /\ P(3 + 1) = P(3) + 24
        /\ P(4 + 1) = P(4) + 8
    BY <1>3, <2>1
  <2>3. /\ P(2) = 48
        /\ P(3) = 56
        /\ P(4) = 80
        /\ P(5) = 88
    BY <1>3, <2>2
  <2> QED
    BY <2>1, <2>2, <2>3
<1>7. CASE kind = "HAZARD"
  <2>1. w = <<32, 8, 3, 7, 12, 12, 10, 10, 8>> /\ size = 15
    BY <1>4, <1>7 DEF Widths, EncodedSize
  <2> HIDE DEF w
  <2>2. /\ Len(w) = 9
        /\ P(1 + 1) = P(1) + 32
        /\ P(2 + 1) = P(2) + 8
        /\ P(3 + 1) = P(3) + 3
        /\ P(4 + 1) = P(4) + 7
        /\ P(5 + 1) = P(5) + 12
        /\ P(6 + 1) = P(6) + 12
        /\ P(7 + 1) = P(7) + 10
        /\ P(8 + 1) = P(8) + 10
        /\ P(9 + 1) = P(9) + 8
    BY <1>3, <2>1
  <2>3. /\ P(2) = 48
        /\ P(3) = 56
        /\ P(4) = 59
        /\ P(5) = 66
        /\ P(6) = 78
        /\ P(7) = 90
        /\ P(8) = 100
        /\ P(9) = 110
        /\ P(10) = 118
    BY <1>3, <2>2
  <2> QED
    BY <2>1, <2>2, <2>3
<1>8. CASE kind = "REQUEST"
  <2>1. w = <<32, 8, 32, 12, 12, 10, 8>> /\ size = 17
    BY <1>4, <1>8 DEF Widths, EncodedSize
  <2> HIDE DEF w
  <2>2. /\ Len(w) = 7
        /\ P(1 + 1) = P(1) + 32
        /\ P(2 + 1) = P(2) + 8
        /\ P(3 + 1) = P(3) + 32
        /\ P(4 + 1) = P(4) + 12
        /\ P(5 + 1) = P(5) + 12
        /\ P(6 + 1) = P(6) + 10
        /\ P(7 + 1) = P(7) + 8
    BY <1>3, <2>1
  <2>3. /\ P(2) = 48
        /\ P(3) = 56
        /\ P(4) = 88
        /\ P(5) = 100
        /\ P(6) = 112
        /\ P(7) = 122
        /\ P(8) = 130
    BY <1>3, <2>2
  <2> QED
    BY <2>1, <2>2, <2>3
<1>9. CASE kind = "AUTHORITY_CLAIM"
  <2>1. w = <<32, 6, 12, 32, 8>> /\ size = 14
    BY <1>4, <1>9 DEF Widths, EncodedSize
  <2> HIDE DEF w
  <2>2. /\ Len(w) = 5
        /\ P(1 + 1) = P(1) + 32
        /\ P(2 + 1) = P(2) + 6
        /\ P(3 + 1) = P(3) + 12
        /\ P(4 + 1) = P(4) + 32
        /\ P(5 + 1) = P(5) + 8
    BY <1>3, <2>1
  <2>3. /\ P(2) = 48
        /\ P(3) = 54
        /\ P(4) = 66
        /\ P(5) = 98
        /\ P(6) = 106
    BY <1>3, <2>2
  <2> QED
    BY <2>1, <2>2, <2>3
<1>10. CASE kind = "DEGRADED_STATE"
  <2>1. w = <<32, 8, 7, 3, 8>> /\ size = 10
    BY <1>4, <1>10 DEF Widths, EncodedSize
  <2> HIDE DEF w
  <2>2. /\ Len(w) = 5
        /\ P(1 + 1) = P(1) + 32
        /\ P(2 + 1) = P(2) + 8
        /\ P(3 + 1) = P(3) + 7
        /\ P(4 + 1) = P(4) + 3
        /\ P(5 + 1) = P(5) + 8
    BY <1>3, <2>1
  <2>3. /\ P(2) = 48
        /\ P(3) = 56
        /\ P(4) = 63
        /\ P(5) = 66
        /\ P(6) = 74
    BY <1>3, <2>2
  <2> QED
    BY <2>1, <2>2, <2>3
<1>11. CASE kind = "TRANSPORT_OFFER"
  <2>1. w = <<32, 32, 8, 8, 32, 8>> /\ size = 17
    BY <1>4, <1>11 DEF Widths, EncodedSize
  <2> HIDE DEF w
  <2>2. /\ Len(w) = 6
        /\ P(1 + 1) = P(1) + 32
        /\ P(2 + 1) = P(2) + 32
        /\ P(3 + 1) = P(3) + 8
        /\ P(4 + 1) = P(4) + 8
        /\ P(5 + 1) = P(5) + 32
        /\ P(6 + 1) = P(6) + 8
    BY <1>3, <2>1
  <2>3. /\ P(2) = 48
        /\ P(3) = 80
        /\ P(4) = 88
        /\ P(5) = 96
        /\ P(6) = 128
        /\ P(7) = 136
    BY <1>3, <2>2
  <2> QED
    BY <2>1, <2>2, <2>3
<1>12. CASE kind = "TRANSPORT_ACCEPT"
  <2>1. w = <<32, 32, 8, 8, 32>> /\ size = 16
    BY <1>4, <1>12 DEF Widths, EncodedSize
  <2> HIDE DEF w
  <2>2. /\ Len(w) = 5
        /\ P(1 + 1) = P(1) + 32
        /\ P(2 + 1) = P(2) + 32
        /\ P(3 + 1) = P(3) + 8
        /\ P(4 + 1) = P(4) + 8
        /\ P(5 + 1) = P(5) + 32
    BY <1>3, <2>1
  <2>3. /\ P(2) = 48
        /\ P(3) = 80
        /\ P(4) = 88
        /\ P(5) = 96
        /\ P(6) = 128
    BY <1>3, <2>2
  <2> QED
    BY <2>1, <2>2, <2>3
<1> QED
  BY <1>5, <1>6, <1>7, <1>8, <1>9, <1>10, <1>11, <1>12 DEF Kind

-----------------------------------------------------------------------------
\* The one thing the encoder looks at in a header that has a wire code.
LEMMA HeaderOfFits ==
    ASSUME NEW major \in {EXPERIMENTAL_MAJOR, STABLE_MAJOR}, NEW o, o.kind \in Kind
    PROVE  HeaderFits(HeaderOf(major, o)) <=> o.priority <= 3
<1> DEFINE kind == o.kind
           h == HeaderOf(major, o)
<1>1. /\ kind = "PRESENCE" => KindToCode(kind) = [category |-> 0, opcode |-> 0]
      /\ kind = "HAZARD" => KindToCode(kind) = [category |-> 3, opcode |-> 1]
      /\ kind = "REQUEST" => KindToCode(kind) = [category |-> 5, opcode |-> 1]
      /\ kind = "AUTHORITY_CLAIM" => KindToCode(kind) = [category |-> 1, opcode |-> 1]
      /\ kind = "DEGRADED_STATE" => KindToCode(kind) = [category |-> 6, opcode |-> 1]
      /\ kind = "TRANSPORT_OFFER" => KindToCode(kind) = [category |-> 8, opcode |-> 0]
      /\ kind = "TRANSPORT_ACCEPT" => KindToCode(kind) = [category |-> 8, opcode |-> 1]
  <2> HIDE DEF kind
  <2> QED
    BY DEF KindToCode
<1>2. /\ h.major_version = major /\ h.category = KindToCode(kind).category
      /\ h.opcode = KindToCode(kind).opcode /\ h.priority = o.priority
      /\ h.extension_present = 0
  BY DEF HeaderOf
<1>3. KindToCode(kind).category \in 0 .. 8 /\ KindToCode(kind).opcode \in 0 .. 1
  <2> HIDE DEF kind
  <2>1. kind \in Kind
    BY DEF kind
  <2> QED
    BY <1>1, <2>1 DEF Kind
<1> HIDE DEF h, kind
<1>4. /\ h.major_version <= 15 /\ h.category <= 15 /\ h.opcode <= 31 /\ h.extension_present <= 1
  BY <1>2, <1>3 DEF EXPERIMENTAL_MAJOR, STABLE_MAJOR
<1> QED
  BY <1>2, <1>4 DEF HeaderFits, h

\* What an encode call is to answer, and that it does.
AllFit(major, o) ==
    /\ o.priority <= 3
    /\ \A i \in DOMAIN LayoutWritten(major, o.kind) :
          Fits(o.body[LayoutWritten(major, o.kind)[i].name], LayoutWritten(major, o.kind)[i])

CodecAnswer(major, o, capacity) ==
    IF Required(major, o) = 0 THEN "UNSUPPORTED_SEMANTIC"
    ELSE IF capacity < Required(major, o) THEN "BUFFER_TOO_SMALL"
    ELSE IF AllFit(major, o) THEN "OK" ELSE "RANGE"

LEMMA EncodeAnswers ==
    ASSUME NEW major, NEW o, NEW m, NEW capacity
    PROVE  EncodeAtMajor(major, o, m, capacity).status = CodecAnswer(major, o, capacity)
<1> DEFINE required == Required(major, o)
           result == EncodeAtMajor(major, o, m, capacity)
           layout == LayoutWritten(major, o.kind)
           n == Len(layout)
           W == FieldsWritten(major, o)
           stuck == Cardinality(W) + 1
           bodied == Bodied(major, o, m)
           G == {j \in 1 .. n : /\ Fits(o.body[layout[j].name], layout[j])
                                /\ PositionOf(layout, j + 1) <= 8 * required}
<1>1. /\ required = 0 => result = Refusal("UNSUPPORTED_SEMANTIC", m)
      /\ required # 0 =>
            /\ capacity < required => result = Refusal("BUFFER_TOO_SMALL", m)
            /\ (~(capacity < required) /\ ~HeaderFits(HeaderOf(major, o)))
                  => result = Refusal("RANGE", Zeroed(m, required))
            /\ (~(capacity < required) /\ HeaderFits(HeaderOf(major, o)))
                  => result =
                       IF W = DOMAIN layout
                       THEN [status |-> "OK", memory |-> bodied, written |-> required]
                       ELSE IF ~Fits(o.body[layout[stuck].name], layout[stuck])
                       THEN Refusal("RANGE", bodied)
                       ELSE Refusal("BUFFER_TOO_SMALL", bodied)
  BY EncodeCases
<1>2. CASE required = 0
  <2> HIDE DEF required, result, layout, W, bodied
  <2>1. result.status = "UNSUPPORTED_SEMANTIC"
    BY <1>1, <1>2 DEF Refusal
  <2> QED
    BY <1>2, <2>1 DEF CodecAnswer, required, result
<1>3. CASE required # 0 /\ capacity < required
  <2> HIDE DEF required, result, layout, W, bodied
  <2>1. result.status = "BUFFER_TOO_SMALL"
    BY <1>1, <1>3 DEF Refusal
  <2> QED
    BY <1>3, <2>1 DEF CodecAnswer, required, result
<1>4. CASE required # 0 /\ ~(capacity < required)
  <2>1. o.kind \in Kind /\ major \in {EXPERIMENTAL_MAJOR, STABLE_MAJOR}
    BY <1>4, RequiredType DEF EXPERIMENTAL_MAJOR, STABLE_MAJOR
  <2>2. HeaderFits(HeaderOf(major, o)) <=> o.priority <= 3
    BY <2>1, HeaderOfFits
  <2>3. layout \in Seq(Fields)
    BY <2>1, LayoutType
  <2>4. n \in Nat /\ DOMAIN layout = 1 .. n
    <3> HIDE DEF layout
    <3> QED
      BY <2>3
  <2>5. \A i \in 1 .. n : PositionOf(layout, i + 1) <= 8 * required
    BY <1>4, <2>1, LayoutsFit DEF Required
  <2>6. W = {i \in 1 .. n : \A j \in 1 .. i : j \in G}
    <3>1. W = {i \in 1 .. n : \A j \in 1 .. i :
                  /\ Fits(o.body[layout[j].name], layout[j])
                  /\ PositionOf(layout, j + 1) <= 8 * required}
      BY <2>4 DEF FieldsWritten
    <3> HIDE DEF layout, n, required, W
    <3> QED
      BY <2>4, <3>1
  <2> HIDE DEF W
  <2>7. /\ Cardinality(W) \in 0 .. n /\ W = 1 .. Cardinality(W)
        /\ Cardinality(W) < n => stuck \notin G
    <3> HIDE DEF G, n
    <3> QED
      BY ZenonT(60), <2>4, <2>6, GoodPrefix
  <2>8. AllFit(major, o) <=> o.priority <= 3 /\ \A j \in 1 .. n : j \in G
    BY <2>4, <2>5 DEF AllFit
  <2> HIDE DEF layout, required, result, bodied, n
  <2>9. CASE AllFit(major, o)
    <3>1. W = 1 .. n
      BY <2>4, <2>6, <2>8, <2>9
    <3>2. result.status = "OK"
      BY <1>1, <1>4, <2>2, <2>4, <2>8, <2>9, <3>1
    <3> QED
      BY <1>4, <2>9, <3>2 DEF CodecAnswer, required, result
  <2>10. CASE ~AllFit(major, o) /\ ~(o.priority <= 3)
    <3>1. result.status = "RANGE"
      BY <1>1, <1>4, <2>2, <2>10 DEF Refusal
    <3> QED
      BY <1>4, <2>10, <3>1 DEF CodecAnswer, required, result
  <2>11. CASE ~AllFit(major, o) /\ o.priority <= 3
    <3> DEFINE c == Cardinality(W)
    <3>1. PICK j \in 1 .. n : j \notin G
      BY <2>8, <2>11
    <3>2. j \notin W
      <4> HIDE DEF G
      <4> QED
        BY <2>4, <2>6, <3>1
    <3>3. c \in 0 .. n /\ W = 1 .. c /\ stuck = c + 1 /\ (c < n => c + 1 \notin G)
      BY <2>7
    <3> HIDE DEF c, G
    <3>4. c < n
      BY <2>4, <3>1, <3>2, <3>3
    <3>5. stuck \in 1 .. n /\ stuck \notin G
      BY <2>4, <3>3, <3>4
    <3>6. ~Fits(o.body[layout[stuck].name], layout[stuck])
      <4> HIDE DEF stuck
      <4> QED
        BY <2>5, <3>5 DEF G
    <3>7. W # DOMAIN layout
      BY <2>4, <3>1, <3>2
    <3> HIDE DEF stuck
    <3>8. result = Refusal("RANGE", bodied)
      BY <1>1, <1>4, <2>2, <2>11, <3>6, <3>7
    <3>9. result.status = "RANGE"
      BY <3>8 DEF Refusal
    <3> QED
      BY <1>4, <2>11, <3>9 DEF CodecAnswer, required, result
  <2> QED
    BY <2>9, <2>10, <2>11
<1> QED
  BY <1>2, <1>3, <1>4

-----------------------------------------------------------------------------
\* What a decode call of either entry point gives.
Received(entry, data, o) == IF entry = "decode" THEN Decode(data, o) ELSE DecodeBody(data, o)

KindIn(data)     == CodeToKind(HeaderDecode(data).category, HeaderDecode(data).opcode)
RequiredIn(data) == EncodedSizeAtMajor(HeaderDecode(data).major_version, KindIn(data))
ReadIn(data)     == ReadObject(data, HeaderDecode(data).major_version, KindIn(data),
                               HeaderDecode(data).priority, RequiredIn(data))

LEMMA DecodeGives ==
    ASSUME NEW entry, NEW data, NEW o
    PROVE  LET r == Received(entry, data, o)
           IN  /\ r.object = o \/ (KindIn(data) \in Kind /\ r.object = ReadIn(data))
               /\ r.consumed \in 0 .. 17
               /\ r.status = "OK" => /\ ~(Len(data) < 2) /\ KindIn(data) \in Kind
                                     /\ RequiredIn(data) # 0 /\ r.object = ReadIn(data)
                                     /\ entry = "decode" =>
                                           HeaderDecode(data).extension_present = 0
<1> DEFINE major == HeaderDecode(data).major_version
           kind == KindIn(data)
           required == RequiredIn(data)
           read == ReadIn(data)
           b == DecodeBody(data, o)
<1>1. b = IF Len(data) < COMMON_HEADER_SIZE THEN Undecoded("TRUNCATED", o)
          ELSE IF \/ major \notin {EXPERIMENTAL_MAJOR, STABLE_MAJOR}
                  \/ kind \notin Kind
                  \/ required = 0
               THEN Undecoded("UNSUPPORTED_SEMANTIC", o)
          ELSE IF Len(data) < required THEN Undecoded("TRUNCATED", o)
          ELSE IF EndOfFields(major, kind) > 8 * required THEN Undecoded("TRUNCATED", read)
          ELSE IF ~PaddingIsZero(data, major, kind, required) THEN Undecoded("NONCANONICAL", read)
          ELSE [status |-> "OK", object |-> read, consumed |-> required]
  BY DEF DecodeBody, KindIn, RequiredIn, ReadIn
<1>2. required \in 0 .. 17
  <2> DEFINE x == [kind |-> kind]
  <2>1. Required(major, x) \in {0} \cup 10 .. 17
    BY RequiredType
  <2>2. Required(major, x) = required
    BY DEF Required, RequiredIn
  <2> HIDE DEF required, x
  <2> QED
    BY <2>1, <2>2
<1> DEFINE Good(r) == /\ r.object = o \/ (kind \in Kind /\ r.object = read)
                      /\ r.consumed \in 0 .. 17
                      /\ r.status = "OK" => /\ ~(Len(data) < 2) /\ kind \in Kind
                                            /\ required # 0 /\ r.object = read
<1> HIDE DEF major, kind, required, read, b
<1>3. \A code, x : /\ Undecoded(code, x).object = x /\ Undecoded(code, x).consumed = 0
                   /\ Undecoded(code, x).status = code
  BY DEF Undecoded
<1>4. 0 \in 0 .. 17
  OBVIOUS
<1>5. Good(b)
  <2>1. CASE Len(data) < COMMON_HEADER_SIZE
    BY <1>1, <1>3, <1>4, <2>1
  <2>2. CASE /\ ~(Len(data) < COMMON_HEADER_SIZE)
             /\ \/ major \notin {EXPERIMENTAL_MAJOR, STABLE_MAJOR}
                \/ kind \notin Kind
                \/ required = 0
    BY <1>1, <1>3, <1>4, <2>2
  <2>3. CASE /\ ~(Len(data) < COMMON_HEADER_SIZE)
             /\ ~ \/ major \notin {EXPERIMENTAL_MAJOR, STABLE_MAJOR}
                  \/ kind \notin Kind
                  \/ required = 0
    <3>1. \/ b = Undecoded("TRUNCATED", o) \/ b = Undecoded("TRUNCATED", read)
          \/ b = Undecoded("NONCANONICAL", read)
          \/ b = [status |-> "OK", object |-> read, consumed |-> required]
      BY <1>1, <2>3
    <3>2. kind \in Kind /\ required # 0 /\ ~(Len(data) < 2)
      BY <2>3 DEF COMMON_HEADER_SIZE
    <3> QED
      BY SMTT(30), <1>2, <1>3, <1>4, <3>1, <3>2
  <2> QED
    BY <2>1, <2>2, <2>3
<1>6. CASE entry # "decode"
  <2>1. Received(entry, data, o) = b
    BY <1>6 DEF Received, b
  <2> QED
    BY <1>5, <1>6, <2>1 DEF kind, required, read
<1>7. CASE entry = "decode"
  <2>1. \/ Received(entry, data, o) = Undecoded("TRUNCATED", o)
        \/ Received(entry, data, o) = Undecoded("UNSUPPORTED_SEMANTIC", o)
        \/ /\ Received(entry, data, o) = b
           /\ HeaderDecode(data).extension_present = 0
    BY <1>7 DEF Received, Decode, b
  <2> QED
    BY <1>3, <1>4, <1>5, <2>1 DEF kind, required, read
<1> QED
  BY <1>6, <1>7

-----------------------------------------------------------------------------
\* The powers of two that the widths of fields need, one by one: the provers
\* know numbers such as 2^12 and nothing of 2^k.
Doubles(k) == 2^k \in Nat \ {0} /\ 2^(k + 1) = 2 * 2^k

LEMMA Powers == \A k \in 0 .. 23 : Doubles(k)
<1>1. Doubles(0) /\ Doubles(1) /\ Doubles(2) /\ Doubles(3) /\ Doubles(4) /\ Doubles(5)
  BY DEF Doubles
<1>2. Doubles(6) /\ Doubles(7) /\ Doubles(8) /\ Doubles(9) /\ Doubles(10) /\ Doubles(11)
  BY DEF Doubles
<1>3. Doubles(12) /\ Doubles(13) /\ Doubles(14) /\ Doubles(15) /\ Doubles(16) /\ Doubles(17)
  BY DEF Doubles
<1>4. Doubles(18) /\ Doubles(19) /\ Doubles(20) /\ Doubles(21) /\ Doubles(22) /\ Doubles(23)
  BY DEF Doubles
<1> QED
  BY <1>1, <1>2, <1>3, <1>4

LEMMA PowerType == \A k \in 0 .. 24 : 2^k \in Nat \ {0}
<1>1. 2^24 \in Nat \ {0}
  OBVIOUS
<1> SUFFICES ASSUME NEW k \in 0 .. 24 PROVE 2^k \in Nat \ {0}
  OBVIOUS
<1>2. k = 24 \/ k \in 0 .. 23
  OBVIOUS
<1> QED
  BY <1>1, <1>2, Powers DEF Doubles

\* What a division gives is known from any way to write the number.
LEMMA DivisionIs ==
    ASSUME NEW d \in Nat \ {0}, NEW q \in Nat, NEW r \in 0 .. d - 1
    PROVE  (q * d + r) \div d = q
  OBVIOUS

\* Halving the quotient is dividing by twice as much.
LEMMA HalfQuotient ==
    ASSUME NEW v \in Nat, NEW d \in Nat \ {0}
    PROVE  /\ v \div d \in Nat /\ v \div (2 * d) \in Nat
           /\ v \div d = 2 * (v \div (2 * d)) + ((v \div d) % 2)
<1> DEFINE q == v \div d
           r == v % d
           h == q \div 2
           t == q % 2
<1>1. q \in Nat /\ r \in 0 .. d - 1 /\ v = q * d + r
  OBVIOUS
<1> HIDE DEF q, r
<1>2. h \in Nat /\ t \in {0, 1} /\ q = 2 * h + t
  BY <1>1
<1> HIDE DEF h, t
<1>3. v = h * (2 * d) + (t * d + r)
  BY <1>1, <1>2
<1>4. 2 * d \in Nat \ {0} /\ t * d + r \in 0 .. 2 * d - 1
  BY <1>1, <1>2
<1>5. v \div (2 * d) = h
  BY <1>2, <1>3, <1>4, DivisionIs
<1> QED
  BY <1>1, <1>2, <1>5 DEF q, t

\* The bits of a number are bits, as many as asked for.
LEMMA BitsOfType ==
    ASSUME NEW w \in 0 .. 24, NEW v \in Nat
    PROVE  BitsOf(v, w) \in [1 .. w -> {0, 1}]
<1>1. \A i \in 1 .. w : (v \div 2^(w - i)) % 2 \in {0, 1}
  <2> SUFFICES ASSUME NEW i \in 1 .. w PROVE (v \div 2^(w - i)) % 2 \in {0, 1}
    OBVIOUS
  <2> DEFINE d == 2^(w - i)
  <2>1. d \in Nat \ {0}
    <3>1. w - i \in 0 .. 24
      OBVIOUS
    <3> QED
      BY <3>1, PowerType
  <2> HIDE DEF d
  <2>2. v \div d \in Nat
    BY <2>1, HalfQuotient
  <2>3. (v \div d) % 2 \in {0, 1}
    BY <2>2
  <2> QED
    BY <2>3 DEF d
<1> QED
  BY <1>1 DEF BitsOf

\* A number that fits is read back from its bits: no bit of it is cut off and none
\* changes its place (wire.c:46-60 against 101-112).
LEMMA NumberOfBits ==
    ASSUME NEW w \in 1 .. 24, NEW v \in Nat, v < 2^w
    PROVE  NumberOf(BitsOf(v, w)) = v
<1> DEFINE bits == BitsOf(v, w)
           D(i) == 2^(w - i)
<1>1. bits \in [1 .. w -> {0, 1}] /\ \A i \in 1 .. w : bits[i] = (v \div D(i)) % 2
  BY BitsOfType DEF BitsOf
<1>2. /\ \A i \in 0 .. w : D(i) \in Nat \ {0}
      /\ \A i \in 1 .. w : D(i - 1) = 2 * D(i)
  <2>1. ASSUME NEW i \in 0 .. w PROVE D(i) \in Nat \ {0}
    <3>1. w - i \in 0 .. 24
      OBVIOUS
    <3> QED
      BY <3>1, PowerType
  <2>2. ASSUME NEW i \in 1 .. w PROVE D(i - 1) = 2 * D(i)
    <3>1. w - i \in 0 .. 23 /\ (w - i) + 1 = w - (i - 1)
      OBVIOUS
    <3>2. 2^((w - i) + 1) = 2 * 2^(w - i)
      BY <3>1, Powers DEF Doubles
    <3> QED
      BY <3>1, <3>2
  <2> QED
    BY <2>1, <2>2
<1>3. D(0) > v /\ D(w) = 1
  <2>1. w - 0 = w /\ w - w = 0 /\ 2^0 = 1
    OBVIOUS
  <2> QED
    BY <2>1
<1> HIDE DEF bits, D
<1>4. bits \in Seq({0, 1}) /\ Len(bits) = w
  BY <1>1, FunctionIsSequence
<1>5. PICK f : NumbersOf(f, bits) /\ NumberOf(bits) = f[w]
  BY <1>4, NumberIsLast
<1>6. f[0] = 0 /\ \A i \in 1 .. w : f[i] = 2 * f[i - 1] + bits[i]
  BY <1>4, <1>5 DEF NumbersOf
<1> DEFINE T == {i \in Nat : i \in 0 .. w => f[i] = v \div D(i)}
<1>7. 0 \in T
  <2> DEFINE d == D(0)
  <2>1. d \in Nat \ {0} /\ v < d
    BY <1>2, <1>3
  <2> HIDE DEF d
  <2>2. v \div d = 0
    BY <2>1
  <2> QED
    BY <1>6, <2>2 DEF d
<1>8. ASSUME NEW i \in Nat, i \in T PROVE i + 1 \in T
  <2> SUFFICES ASSUME i + 1 \in 0 .. w PROVE f[i + 1] = v \div D(i + 1)
    OBVIOUS
  <2>1. i + 1 \in 1 .. w /\ i \in 0 .. w /\ (i + 1) - 1 = i
    OBVIOUS
  <2>2. f[i] = v \div D(i) /\ D(i) = 2 * D(i + 1) /\ D(i + 1) \in Nat \ {0}
    BY <1>2, <1>8, <2>1
  <2>3. f[i + 1] = 2 * f[i] + ((v \div D(i + 1)) % 2)
    BY <1>1, <1>6, <2>1
  <2>4. v \div D(i + 1) = 2 * (v \div (2 * D(i + 1))) + ((v \div D(i + 1)) % 2)
    BY <2>2, HalfQuotient
  <2> QED
    BY <2>2, <2>3, <2>4
<1> HIDE DEF T
<1>9. w \in T
  BY <1>7, <1>8, AllNumbers
<1>10. f[w] = v \div 1
  BY <1>3, <1>9 DEF T
<1> QED
  BY <1>5, <1>10 DEF bits

\* And bits are those of the number they make: no number has two forms of one width.
LEMMA BitsOfNumber ==
    ASSUME NEW w \in 1 .. 24, NEW bits \in [1 .. w -> {0, 1}]
    PROVE  /\ NumberOf(bits) \in Nat /\ NumberOf(bits) < 2^w
           /\ BitsOf(NumberOf(bits), w) = bits
<1> DEFINE D(i) == 2^(w - i)
           P(i) == 2^i
           v == NumberOf(bits)
<1>1. /\ \A i \in 0 .. w : P(i) \in Nat \ {0}
      /\ \A i \in 1 .. w : P(i) = 2 * P(i - 1)
      /\ P(0) = 1
  <2>1. ASSUME NEW i \in 1 .. w PROVE P(i) = 2 * P(i - 1)
    <3>1. i - 1 \in 0 .. 23 /\ (i - 1) + 1 = i
      OBVIOUS
    <3> QED
      BY <3>1, Powers DEF Doubles
  <2>2. P(0) = 1
    OBVIOUS
  <2>3. \A i \in 0 .. w : P(i) \in Nat \ {0}
    <3>1. \A i \in 0 .. w : i \in 0 .. 24
      OBVIOUS
    <3> QED
      BY <3>1, PowerType
  <2> QED
    BY <2>1, <2>2, <2>3
<1>2. bits \in Seq({0, 1}) /\ Len(bits) = w
  BY FunctionIsSequence
<1>3. PICK f : NumbersOf(f, bits) /\ v = f[w]
  BY <1>2, NumberIsLast
<1>4. /\ f \in [0 .. w -> Nat] /\ f[0] = 0
      /\ \A i \in 1 .. w : f[i] = 2 * f[i - 1] + bits[i] /\ bits[i] \in {0, 1}
  BY <1>2, <1>3 DEF NumbersOf
<1> HIDE DEF P, v
\* How far f has come at i, and what is left to come.
<1> DEFINE T == {i \in Nat : i \in 0 .. w => f[i] < P(i)}
<1>5. \A i \in 0 .. w : f[i] < P(i)
  <2>1. 0 \in T
    BY <1>1, <1>4
  <2>2. ASSUME NEW i \in Nat, i \in T PROVE i + 1 \in T
    <3> SUFFICES ASSUME i + 1 \in 0 .. w PROVE f[i + 1] < P(i + 1)
      OBVIOUS
    <3>1. i + 1 \in 1 .. w /\ i \in 0 .. w /\ (i + 1) - 1 = i
      OBVIOUS
    <3>2. /\ f[i] < P(i) /\ f[i] \in Nat /\ P(i) \in Nat /\ P(i + 1) = 2 * P(i)
          /\ f[i + 1] = 2 * f[i] + bits[i + 1] /\ bits[i + 1] \in {0, 1}
      <4>1. f[i] < P(i)
        BY <2>2, <3>1
      <4>2. f[i] \in Nat /\ P(i) \in Nat
        BY <1>1, <1>4, <3>1
      <4>3. P(i + 1) = 2 * P((i + 1) - 1) /\ f[i + 1] = 2 * f[(i + 1) - 1] + bits[i + 1]
            /\ bits[i + 1] \in {0, 1}
        BY <1>1, <1>4, <3>1
      <4> QED
        BY <3>1, <4>1, <4>2, <4>3
    <3> QED
      BY <3>2
  <2> HIDE DEF T
  <2>3. \A i \in Nat : i \in T
    BY <2>1, <2>2, AllNumbers
  <2> QED
    BY <2>3 DEF T
<1> DEFINE U == {i \in Nat : i \in 0 .. w => f[w - i] = v \div P(i)}
<1>6. \A i \in 0 .. w : f[w - i] = v \div P(i)
  <2>1. 0 \in U
    <3>1. w - 0 = w /\ v \in Nat
      BY <1>3, <1>4
    <3> QED
      BY <1>1, <1>3, <3>1
  <2>2. ASSUME NEW i \in Nat, i \in U PROVE i + 1 \in U
    <3> SUFFICES ASSUME i + 1 \in 0 .. w PROVE f[w - (i + 1)] = v \div P(i + 1)
      OBVIOUS
    <3> DEFINE k == w - i
               d == P(i)
    <3>1. i + 1 \in 1 .. w /\ i \in 0 .. w /\ (i + 1) - 1 = i /\ k \in 1 .. w
          /\ k - 1 = w - (i + 1) /\ k - 1 \in 0 .. w
      OBVIOUS
    <3>2. f[k] = v \div d /\ d \in Nat \ {0} /\ P(i + 1) = 2 * d /\ v \in Nat
      BY <1>1, <1>3, <1>4, <2>2, <3>1
    <3>3. f[k] = 2 * f[k - 1] + bits[k] /\ bits[k] \in {0, 1} /\ f[k - 1] \in Nat
      BY <1>4, <3>1
    <3> HIDE DEF k, d
    <3>4. v \div d = 2 * (v \div (2 * d)) + ((v \div d) % 2) /\ v \div (2 * d) \in Nat
      BY <3>2, HalfQuotient
    <3>5. f[k - 1] = v \div (2 * d)
      BY SMTT(30), <3>2, <3>3, <3>4
    <3> QED
      BY <3>1, <3>2, <3>5
  <2> HIDE DEF U
  <2>3. \A i \in Nat : i \in U
    BY <2>1, <2>2, AllNumbers
  <2> QED
    BY <2>3 DEF U
<1>7. \A i \in 1 .. w : (v \div 2^(w - i)) % 2 = bits[i]
  <2> SUFFICES ASSUME NEW i \in 1 .. w PROVE (v \div 2^(w - i)) % 2 = bits[i]
    OBVIOUS
  <2>1. w - i \in 0 .. w /\ w - (w - i) = i /\ i - 1 \in 0 .. w
    OBVIOUS
  <2>2. f[i] = v \div P(w - i)
    BY <1>6, <2>1
  <2>3. f[i] = 2 * f[i - 1] + bits[i] /\ bits[i] \in {0, 1} /\ f[i - 1] \in Nat
    BY <1>4, <2>1
  <2>4. f[i] % 2 = bits[i]
    BY <2>3
  <2> QED
    BY <2>2, <2>4 DEF P
<1>8. BitsOf(v, w) = bits
  <2>1. BitsOf(v, w) = [i \in 1 .. w |-> bits[i]]
    BY <1>7 DEF BitsOf
  <2> QED
    BY <2>1
<1>9. v \in Nat /\ v < 2^w
  <2>1. w \in 0 .. w
    OBVIOUS
  <2>2. f[w] < P(w) /\ f[w] \in Nat
    BY <1>4, <1>5, <2>1
  <2> QED
    BY <1>3, <2>2 DEF P
<1> QED
  BY <1>8, <1>9 DEF v

-----------------------------------------------------------------------------
\* The bits from a position on are read as the number they were written from.
LEMMA ReadBack ==
    ASSUME NEW w \in 1 .. 24, NEW v \in Nat, v < 2^w, NEW data, NEW at,
           \A i \in 1 .. w : Bit(data, at + i - 1) = BitsOf(v, w)[i]
    PROVE  ReadU(data, at, w) = v
<1> DEFINE bits == [i \in 1 .. w |-> Bit(data, at + i - 1)]
<1>1. BitsOf(v, w) \in [1 .. w -> {0, 1}]
  <2>1. w \in 0 .. 24
    OBVIOUS
  <2> QED
    BY <2>1, BitsOfType
<1>2. bits = BitsOf(v, w)
  BY <1>1
<1>3. ReadU(data, at, w) = NumberOf(bits)
  BY DEF ReadU
<1> HIDE DEF bits
<1> QED
  BY <1>2, <1>3, NumberOfBits

LEMMA HalfIs == \A x \in Half : x \in Nat /\ x < 2^16
<1> DEFINE n == 65535
<1>1. n \in Nat /\ n < 2^16
  OBVIOUS
<1>2. Half = 0 .. n
  BY DEF Half
<1> HIDE DEF n
<1> QED
  BY ONLY <1>1, <1>2

\* A value that fits its field is read back whole, sign and all.
LEMMA FieldReadBack ==
    ASSUME NEW field \in Fields, field.width \in 1 .. 24 \cup {32},
           NEW v \in MemberType(field), Fits(v, field), NEW data, NEW at \in Nat,
           \A b \in 1 .. field.width : Bit(data, at + b - 1) = FieldBits(v, field)[b]
    PROVE  ReadField(data, at, field) = v
<1> DEFINE w == field.width
<1>1. CASE w = 32
  <2> DEFINE s == BitsOf(v[1], 16)
             t == BitsOf(v[2], 16)
  <2>1. v \in Half \X Half
    BY <1>1 DEF MemberType
  <2>2. v[1] \in Nat /\ v[1] < 2^16 /\ v[2] \in Nat /\ v[2] < 2^16 /\ v = <<v[1], v[2]>>
    BY SMTT(30), <2>1, HalfIs
  <2>3. s \in [1 .. 16 -> {0, 1}] /\ t \in [1 .. 16 -> {0, 1}]
    <3>1. 16 \in 0 .. 24
      OBVIOUS
    <3> QED
      BY <2>2, <3>1, BitsOfType
  <2>4. FieldBits(v, field) = s \o t
    BY <1>1 DEF FieldBits
  <2> HIDE DEF s, t
  <2>5. s \in Seq({0, 1}) /\ Len(s) = 16 /\ t \in Seq({0, 1}) /\ Len(t) = 16
    <3> DEFINE B == {0, 1}
               n == 16
    <3>1. s \in [1 .. n -> B] /\ t \in [1 .. n -> B] /\ n \in Nat
      BY <2>3
    <3> HIDE DEF B, n
    <3>2. s \in Seq(B) /\ Len(s) = n
      BY <3>1, FunctionIsSequence
    <3>3. t \in Seq(B) /\ Len(t) = n
      BY <3>1, FunctionIsSequence
    <3> QED
      BY <3>2, <3>3 DEF B, n
  <2>6. /\ \A i \in 1 .. 16 : (s \o t)[i] = s[i]
        /\ \A i \in 1 .. 16 : (s \o t)[16 + i] = t[i]
    <3> DEFINE B == {0, 1}
    <3>1. s \in Seq(B) /\ t \in Seq(B)
      BY <2>5
    <3> HIDE DEF B
    <3>2. \A i \in 1 .. Len(s) + Len(t) :
             (s \o t)[i] = IF i <= Len(s) THEN s[i] ELSE t[i - Len(s)]
      BY <3>1, ConcatProperties
    <3>3. ASSUME NEW i \in 1 .. 16 PROVE (s \o t)[i] = s[i]
      <4>1. i \in 1 .. Len(s) + Len(t) /\ i <= Len(s)
        BY <2>5
      <4> QED
        BY <3>2, <4>1
    <3>4. ASSUME NEW i \in 1 .. 16 PROVE (s \o t)[16 + i] = t[i]
      <4> DEFINE k == 16 + i
      <4>1. k \in 1 .. Len(s) + Len(t) /\ ~(k <= Len(s)) /\ k - Len(s) = i
        BY <2>5
      <4> HIDE DEF k
      <4>2. (s \o t)[k] = t[k - Len(s)]
        BY <3>2, <4>1
      <4> QED
        BY <4>1, <4>2 DEF k
    <3> QED
      BY <3>3, <3>4
  <2>7. \A i \in 1 .. 16 : Bit(data, at + i - 1) = s[i]
    <3> SUFFICES ASSUME NEW i \in 1 .. 16 PROVE Bit(data, at + i - 1) = s[i]
      OBVIOUS
    <3>1. i \in 1 .. w
      BY <1>1
    <3> QED
      BY ZenonT(60), <2>4, <2>6, <3>1
  <2>8. \A i \in 1 .. 16 : Bit(data, (at + 16) + i - 1) = t[i]
    <3> SUFFICES ASSUME NEW i \in 1 .. 16 PROVE Bit(data, (at + 16) + i - 1) = t[i]
      OBVIOUS
    <3>1. 16 + i \in 1 .. w /\ (at + 16) + i - 1 = at + (16 + i) - 1
      BY <1>1
    <3> QED
      BY ZenonT(60), <2>4, <2>6, <3>1
  <2>9. ReadU(data, at, 16) = v[1] /\ ReadU(data, at + 16, 16) = v[2]
    <3>1. 16 \in 1 .. 24
      OBVIOUS
    <3> QED
      BY <2>2, <2>7, <2>8, <3>1, ReadBack DEF s, t
  <2> QED
    BY <1>1, <2>2, <2>9 DEF ReadField
<1>2. CASE w # 32 /\ ~field.signed
  <2>1. w \in 1 .. 24 /\ v \in Nat /\ v < 2^w
    BY <1>2 DEF MemberType, Fits
  <2>2. FieldBits(v, field) = BitsOf(v, w)
    BY <1>2, <2>1 DEF FieldBits
  <2>3. ReadU(data, at, w) = v
    BY <2>1, <2>2, ReadBack
  <2> QED
    BY <1>2, <2>3 DEF ReadField
<1>3. CASE w # 32 /\ field.signed
  <2> DEFINE half == 2^(w - 1)
             u == IF v < 0 THEN 2^w + v ELSE v
  <2>1. w \in 1 .. 24 /\ v \in Int /\ v \in -half .. half - 1
    BY <1>3 DEF MemberType, Fits
  <2>2. half \in Nat \ {0} /\ 2^w = 2 * half
    <3>1. w - 1 \in 0 .. 23 /\ (w - 1) + 1 = w
      BY <2>1
    <3> QED
      BY <3>1, Powers DEF Doubles
  <2>3. FieldBits(v, field) = BitsOf(u, w)
    BY <1>3 DEF FieldBits
  <2> DEFINE all == 2^w
  <2>4. u \in Nat /\ u < all /\ (v < 0 => u >= half /\ u - all = v) /\ (~(v < 0) => ~(u >= half) /\ u = v)
    <3>1. u = IF v < 0 THEN all + v ELSE v
      OBVIOUS
    <3>2. all = 2 * half
      BY <2>2
    <3> HIDE DEF half, u, all
    <3> QED
      BY <2>1, <2>2, <3>1, <3>2
  <2> HIDE DEF u
  <2>5. ReadU(data, at, w) = u
    BY <2>1, <2>3, <2>4, ReadBack
  <2>6. ReadField(data, at, field) = IF u >= half THEN u - all ELSE u
    BY <1>3, <2>5 DEF ReadField, ReadS
  <2> HIDE DEF half, all
  <2> QED
    BY <2>4, <2>6
<1> QED
  BY <1>1, <1>2, <1>3

-----------------------------------------------------------------------------
\* The layouts written out field by field, source_ref with the others.
Layout(major, kind) ==
    CASE kind = "PRESENCE" ->
           IF major = STABLE_MAJOR
           THEN <<Unsigned("source_ref", 32), Unsigned("capability_tag", 24), Unsigned("ttl", 8)>>
           ELSE <<Unsigned("source_ref", 32), Unsigned("machine_class", 8),
                  Unsigned("capability_tag", 24), Unsigned("ttl", 8)>>
      [] kind = "HAZARD" ->
           <<Unsigned("source_ref", 32), Unsigned("hazard_class", 8), Unsigned("severity", 3),
             Unsigned("confidence", 7), Signed("x", 12), Signed("y", 12), Signed("z", 10),
             Unsigned("radius", 10), Unsigned("ttl", 8)>>
      [] kind = "REQUEST" ->
           <<Unsigned("source_ref", 32), Unsigned("request_class", 8), Unsigned("target_ref", 32),
             Signed("x", 12), Signed("y", 12), Unsigned("radius", 10), Unsigned("ttl", 8)>>
      [] kind = "AUTHORITY_CLAIM" ->
           <<Unsigned("source_ref", 32), Unsigned("authority_class", 6),
             Unsigned("jurisdiction", 12), Unsigned("credential_ref", 32),
             Unsigned("validity", 8)>>
      [] kind = "DEGRADED_STATE" ->
           <<Unsigned("source_ref", 32), Unsigned("affected_capability", 8),
             Unsigned("health", 7), Unsigned("severity", 3), Unsigned("ttl", 8)>>
      [] kind = "TRANSPORT_OFFER" ->
           <<Unsigned("source_ref", 32), Unsigned("migration_ref", 32),
             Unsigned("transport_id", 8), Unsigned("profile_id", 8),
             Unsigned("endpoint_token", 32), Unsigned("validity", 8)>>
      [] kind = "TRANSPORT_ACCEPT" ->
           <<Unsigned("source_ref", 32), Unsigned("migration_ref", 32),
             Unsigned("transport_id", 8), Unsigned("profile_id", 8), Unsigned("session_ref", 32)>>

Leads(x, b, t) == Len(t) = Len(b) + 1 /\ t[1] = x /\ \A k \in 1 .. Len(b) : t[k + 1] = b[k]

LEMMA LedIs ==
    ASSUME NEW T, NEW x \in T, NEW b \in Seq(T), NEW t \in Seq(T), Leads(x, b, t)
    PROVE  <<x>> \o b = t
<1>1. /\ Len(<<x>> \o b) = Len(b) + 1 /\ (<<x>> \o b)[1] = x
      /\ \A k \in 1 .. Len(b) : (<<x>> \o b)[k + 1] = b[k]
  BY LedBy
<1>2. <<x>> \o b \in Seq(T) /\ Len(b) \in Nat
  <2>1. <<x>> \in Seq(T)
    OBVIOUS
  <2> QED
    BY <2>1, ConcatType
<1> DEFINE s == <<x>> \o b
<1>3. ASSUME NEW i \in 1 .. Len(s) PROVE s[i] = t[i]
  <2> HIDE DEF s
  <2>1. CASE i = 1
    BY <1>1, <2>1 DEF Leads, s
  <2>2. CASE i # 1
    <3>1. i - 1 \in 1 .. Len(b) /\ (i - 1) + 1 = i
      BY <1>1, <1>2, <2>2 DEF s
    <3> QED
      BY <1>1, <3>1 DEF Leads, s
  <2> QED
    BY <2>1, <2>2
<1> HIDE DEF s
<1>4. s \in Seq(T) /\ Len(s) = Len(t)
  BY <1>1, <1>2 DEF s, Leads
<1>5. s = t
  BY <1>3, <1>4, SeqEqual
<1> QED
  BY <1>5 DEF s

LEMMA LayoutIs ==
    ASSUME NEW major, NEW kind \in Kind
    PROVE  LayoutWritten(major, kind) = Layout(major, kind) /\ Layout(major, kind) \in Seq(Fields)
<1> DEFINE F == Fields
           x == Unsigned("source_ref", 32)
           t == Layout(major, kind)
<1>1. x \in F
  BY FieldType DEF FieldName
<1>2. CASE kind = "PRESENCE" /\ major = STABLE_MAJOR
  <2> DEFINE b == <<Unsigned("capability_tag", 24), Unsigned("ttl", 8)>>
  <2>1. b \in Seq(F) /\ t \in Seq(F)
    BY <1>2, FieldType DEF FieldName, Layout
  <2>2. Leads(x, b, t)
    BY <1>2 DEF Layout, Leads
  <2>3. LayoutWritten(major, kind) = <<x>> \o (<<>> \o b)
    BY <1>2 DEF LayoutWritten
  <2> HIDE DEF b, x, F, t
  <2>4. <<>> \o b = b
    BY <2>1
  <2>5. <<x>> \o b = t
    BY <1>1, <2>1, <2>2, LedIs
  <2> QED
    BY <2>1, <2>3, <2>4, <2>5 DEF F, t
<1>3. CASE kind = "PRESENCE" /\ major # STABLE_MAJOR
  <2> DEFINE y == Unsigned("machine_class", 8)
             b == <<Unsigned("capability_tag", 24), Unsigned("ttl", 8)>>
             u == <<Unsigned("machine_class", 8), Unsigned("capability_tag", 24), Unsigned("ttl", 8)>>
  <2>1. b \in Seq(F) /\ u \in Seq(F) /\ t \in Seq(F) /\ y \in F
    BY <1>3, FieldType DEF FieldName, Layout
  <2>2. Leads(x, u, t) /\ Leads(y, b, u)
    BY <1>3 DEF Layout, Leads
  <2>3. LayoutWritten(major, kind) = <<x>> \o (<<y>> \o b)
    BY <1>3 DEF LayoutWritten
  <2> HIDE DEF b, x, y, u, F, t
  <2>4. <<y>> \o b = u
    BY <2>1, <2>2, LedIs
  <2>5. <<x>> \o u = t
    BY <1>1, <2>1, <2>2, LedIs
  <2> QED
    BY <2>1, <2>3, <2>4, <2>5 DEF F, t
<1>4. CASE kind = "HAZARD"
  <2> DEFINE b == <<Unsigned("hazard_class", 8), Unsigned("severity", 3), Unsigned("confidence", 7),
                    Signed("x", 12), Signed("y", 12), Signed("z", 10),
                    Unsigned("radius", 10), Unsigned("ttl", 8)>>
  <2>1. b \in Seq(F) /\ t \in Seq(F)
    BY <1>4, FieldType DEF FieldName, Layout
  <2>2. Leads(x, b, t)
    BY <1>4 DEF Layout, Leads
  <2>3. LayoutWritten(major, kind) = <<x>> \o b
    BY <1>4 DEF LayoutWritten
  <2> HIDE DEF b, x, F, t
  <2>4. <<x>> \o b = t
    BY <1>1, <2>1, <2>2, LedIs
  <2> QED
    BY <2>1, <2>3, <2>4 DEF F, t
<1>5. CASE kind = "REQUEST"
  <2> DEFINE b == <<Unsigned("request_class", 8), Unsigned("target_ref", 32),
                    Signed("x", 12), Signed("y", 12), Unsigned("radius", 10), Unsigned("ttl", 8)>>
  <2>1. b \in Seq(F) /\ t \in Seq(F)
    BY <1>5, FieldType DEF FieldName, Layout
  <2>2. Leads(x, b, t)
    BY <1>5 DEF Layout, Leads
  <2>3. LayoutWritten(major, kind) = <<x>> \o b
    BY <1>5 DEF LayoutWritten
  <2> HIDE DEF b, x, F, t
  <2>4. <<x>> \o b = t
    BY <1>1, <2>1, <2>2, LedIs
  <2> QED
    BY <2>1, <2>3, <2>4 DEF F, t
<1>6. CASE kind = "AUTHORITY_CLAIM"
  <2> DEFINE b == <<Unsigned("authority_class", 6), Unsigned("jurisdiction", 12),
                    Unsigned("credential_ref", 32), Unsigned("validity", 8)>>
  <2>1. b \in Seq(F) /\ t \in Seq(F)
    BY <1>6, FieldType DEF FieldName, Layout
  <2>2. Leads(x, b, t)
    BY <1>6 DEF Layout, Leads
  <2>3. LayoutWritten(major, kind) = <<x>> \o b
    BY <1>6 DEF LayoutWritten
  <2> HIDE DEF b, x, F, t
  <2>4. <<x>> \o b = t
    BY <1>1, <2>1, <2>2, LedIs
  <2> QED
    BY <2>1, <2>3, <2>4 DEF F, t
<1>7. CASE kind = "DEGRADED_STATE"
  <2> DEFINE b == <<Unsigned("affected_capability", 8), Unsigned("health", 7),
                    Unsigned("severity", 3), Unsigned("ttl", 8)>>
  <2>1. b \in Seq(F) /\ t \in Seq(F)
    BY <1>7, FieldType DEF FieldName, Layout
  <2>2. Leads(x, b, t)
    BY <1>7 DEF Layout, Leads
  <2>3. LayoutWritten(major, kind) = <<x>> \o b
    BY <1>7 DEF LayoutWritten
  <2> HIDE DEF b, x, F, t
  <2>4. <<x>> \o b = t
    BY <1>1, <2>1, <2>2, LedIs
  <2> QED
    BY <2>1, <2>3, <2>4 DEF F, t
<1>8. CASE kind = "TRANSPORT_OFFER"
  <2> DEFINE b == <<Unsigned("migration_ref", 32), Unsigned("transport_id", 8),
                    Unsigned("profile_id", 8), Unsigned("endpoint_token", 32),
                    Unsigned("validity", 8)>>
  <2>1. b \in Seq(F) /\ t \in Seq(F)
    BY <1>8, FieldType DEF FieldName, Layout
  <2>2. Leads(x, b, t)
    BY <1>8 DEF Layout, Leads
  <2>3. LayoutWritten(major, kind) = <<x>> \o b
    BY <1>8 DEF LayoutWritten
  <2> HIDE DEF b, x, F, t
  <2>4. <<x>> \o b = t
    BY <1>1, <2>1, <2>2, LedIs
  <2> QED
    BY <2>1, <2>3, <2>4 DEF F, t
<1>9. CASE kind = "TRANSPORT_ACCEPT"
  <2> DEFINE b == <<Unsigned("migration_ref", 32), Unsigned("transport_id", 8),
                    Unsigned("profile_id", 8), Unsigned("session_ref", 32)>>
  <2>1. b \in Seq(F) /\ t \in Seq(F)
    BY <1>9, FieldType DEF FieldName, Layout
  <2>2. Leads(x, b, t)
    BY <1>9 DEF Layout, Leads
  <2>3. LayoutWritten(major, kind) = <<x>> \o b
    BY <1>9 DEF LayoutWritten
  <2> HIDE DEF b, x, F, t
  <2>4. <<x>> \o b = t
    BY <1>1, <2>1, <2>2, LedIs
  <2> QED
    BY <2>1, <2>3, <2>4 DEF F, t
<1> QED
  BY <1>2, <1>3, <1>4, <1>5, <1>6, <1>7, <1>8, <1>9 DEF Kind

-----------------------------------------------------------------------------
\* No layout names a field twice.
LEMMA NamesDiffer ==
    ASSUME NEW major, NEW kind \in Kind
    PROVE  LET layout == Layout(major, kind)
           IN  /\ \A i, j \in 1 .. Len(layout) : layout[i].name = layout[j].name => i = j
               /\ \A i \in 1 .. Len(layout) : layout[i].width \in 1 .. 24 \cup {32}
<1> DEFINE t == Layout(major, kind)
           n == Len(t)
           Good == /\ \A i, j \in 1 .. n : t[i].name = t[j].name => i = j
                   /\ \A i \in 1 .. n : t[i].width \in 1 .. 24 \cup {32}
<1>1. ASSUME kind = "PRESENCE" /\ major = STABLE_MAJOR PROVE Good
  <2>1. n = 3
    BY <1>1 DEF Layout
  <2>2. /\ t[1].name = "source_ref" /\ t[2].name = "capability_tag"
        /\ t[3].name = "ttl"
    BY <1>1 DEF Layout, Unsigned, Signed
  <2>3. \A i \in 1 .. n : t[i].width \in 1 .. 24 \cup {32}
    BY <1>1 DEF Layout, Unsigned, Signed
  <2> HIDE DEF t, n
  <2> QED
    BY <2>1, <2>2, <2>3
<1>2. ASSUME kind = "PRESENCE" /\ major # STABLE_MAJOR PROVE Good
  <2>1. n = 4
    BY <1>2 DEF Layout
  <2>2. /\ t[1].name = "source_ref" /\ t[2].name = "machine_class"
        /\ t[3].name = "capability_tag" /\ t[4].name = "ttl"
    BY <1>2 DEF Layout, Unsigned, Signed
  <2>3. \A i \in 1 .. n : t[i].width \in 1 .. 24 \cup {32}
    BY <1>2 DEF Layout, Unsigned, Signed
  <2> HIDE DEF t, n
  <2> QED
    BY <2>1, <2>2, <2>3
<1>3. ASSUME kind = "HAZARD" PROVE Good
  <2>1. n = 9
    BY <1>3 DEF Layout
  <2>2. /\ t[1].name = "source_ref" /\ t[2].name = "hazard_class"
        /\ t[3].name = "severity" /\ t[4].name = "confidence"
        /\ t[5].name = "x" /\ t[6].name = "y"
        /\ t[7].name = "z" /\ t[8].name = "radius"
        /\ t[9].name = "ttl"
    BY <1>3 DEF Layout, Unsigned, Signed
  <2>3. \A i \in 1 .. n : t[i].width \in 1 .. 24 \cup {32}
    BY <1>3 DEF Layout, Unsigned, Signed
  <2> HIDE DEF t, n
  <2> QED
    BY <2>1, <2>2, <2>3
<1>4. ASSUME kind = "REQUEST" PROVE Good
  <2>1. n = 7
    BY <1>4 DEF Layout
  <2>2. /\ t[1].name = "source_ref" /\ t[2].name = "request_class"
        /\ t[3].name = "target_ref" /\ t[4].name = "x"
        /\ t[5].name = "y" /\ t[6].name = "radius"
        /\ t[7].name = "ttl"
    BY <1>4 DEF Layout, Unsigned, Signed
  <2>3. \A i \in 1 .. n : t[i].width \in 1 .. 24 \cup {32}
    BY <1>4 DEF Layout, Unsigned, Signed
  <2> HIDE DEF t, n
  <2> QED
    BY <2>1, <2>2, <2>3
<1>5. ASSUME kind = "AUTHORITY_CLAIM" PROVE Good
  <2>1. n = 5
    BY <1>5 DEF Layout
  <2>2. /\ t[1].name = "source_ref" /\ t[2].name = "authority_class"
        /\ t[3].name = "jurisdiction" /\ t[4].name = "credential_ref"
        /\ t[5].name = "validity"
    BY <1>5 DEF Layout, Unsigned, Signed
  <2>3. \A i \in 1 .. n : t[i].width \in 1 .. 24 \cup {32}
    BY <1>5 DEF Layout, Unsigned, Signed
  <2> HIDE DEF t, n
  <2> QED
    BY <2>1, <2>2, <2>3
<1>6. ASSUME kind = "DEGRADED_STATE" PROVE Good
  <2>1. n = 5
    BY <1>6 DEF Layout
  <2>2. /\ t[1].name = "source_ref" /\ t[2].name = "affected_capability"
        /\ t[3].name = "health" /\ t[4].name = "severity"
        /\ t[5].name = "ttl"
    BY <1>6 DEF Layout, Unsigned, Signed
  <2>3. \A i \in 1 .. n : t[i].width \in 1 .. 24 \cup {32}
    BY <1>6 DEF Layout, Unsigned, Signed
  <2> HIDE DEF t, n
  <2> QED
    BY <2>1, <2>2, <2>3
<1>7. ASSUME kind = "TRANSPORT_OFFER" PROVE Good
  <2>1. n = 6
    BY <1>7 DEF Layout
  <2>2. /\ t[1].name = "source_ref" /\ t[2].name = "migration_ref"
        /\ t[3].name = "transport_id" /\ t[4].name = "profile_id"
        /\ t[5].name = "endpoint_token" /\ t[6].name = "validity"
    BY <1>7 DEF Layout, Unsigned, Signed
  <2>3. \A i \in 1 .. n : t[i].width \in 1 .. 24 \cup {32}
    BY <1>7 DEF Layout, Unsigned, Signed
  <2> HIDE DEF t, n
  <2> QED
    BY <2>1, <2>2, <2>3
<1>8. ASSUME kind = "TRANSPORT_ACCEPT" PROVE Good
  <2>1. n = 5
    BY <1>8 DEF Layout
  <2>2. /\ t[1].name = "source_ref" /\ t[2].name = "migration_ref"
        /\ t[3].name = "transport_id" /\ t[4].name = "profile_id"
        /\ t[5].name = "session_ref"
    BY <1>8 DEF Layout, Unsigned, Signed
  <2>3. \A i \in 1 .. n : t[i].width \in 1 .. 24 \cup {32}
    BY <1>8 DEF Layout, Unsigned, Signed
  <2> HIDE DEF t, n
  <2> QED
    BY <2>1, <2>2, <2>3
<1> HIDE DEF Good
<1>9. Good
  BY <1>1, <1>2, <1>3, <1>4, <1>5, <1>6, <1>7, <1>8 DEF Kind
<1> QED
  BY <1>9 DEF Good

-----------------------------------------------------------------------------
\* The octets of an object sent at a major, bit for bit.
AllBits(major, o) ==
    LET layout == LayoutWritten(major, o.kind) IN BodyBits(o.body, layout, Len(layout))

CarriesBody(data, major, o) ==
    \A k \in 3 .. Required(major, o), b \in 0 .. 7 :
       BitOf(data[k], b) = IF NewBit(16, AllBits(major, o), 8 * (k - 1) + b) THEN 1 ELSE 0

Carries(data, major, o) ==
    /\ data[1] = HeaderEncode(HeaderOf(major, o))[1]
    /\ data[2] = HeaderEncode(HeaderOf(major, o))[2]
    /\ CarriesBody(data, major, o)

\* A successful encode call leaves them, whatever memory held.
LEMMA EncodeCarries ==
    ASSUME NEW major, NEW o, NEW n \in Nat, NEW m \in [1 .. n -> 0 .. 255],
           o.priority \in Nat, NEW capacity \in 0 .. n,
           EncodeAtMajor(major, o, m, capacity).status = "OK"
    PROVE  /\ Carries(EncodeAtMajor(major, o, m, capacity).memory, major, o)
           /\ Required(major, o) \in 10 .. 17 /\ AllFit(major, o)
<1> DEFINE result == EncodeAtMajor(major, o, m, capacity)
           required == Required(major, o)
           layout == LayoutWritten(major, o.kind)
           W == FieldsWritten(major, o)
           headed == Headed(major, o, m)
           bodied == Bodied(major, o, m)
<1>1. result.status = CodecAnswer(major, o, capacity)
  BY EncodeAnswers
<1>2. required # 0 /\ ~(capacity < required) /\ AllFit(major, o)
  BY <1>1 DEF CodecAnswer
<1>3. required \in 10 .. 17 /\ major \in {0, 1} /\ o.kind \in Kind
  BY <1>2, RequiredType
<1>4. HeaderFits(HeaderOf(major, o))
  BY <1>2, <1>3, HeaderOfFits DEF AllFit, EXPERIMENTAL_MAJOR, STABLE_MAJOR
<1>5. result = IF W = DOMAIN layout
               THEN [status |-> "OK", memory |-> bodied, written |-> required]
               ELSE IF ~Fits(o.body[layout[Cardinality(W) + 1].name], layout[Cardinality(W) + 1])
               THEN Refusal("RANGE", bodied)
               ELSE Refusal("BUFFER_TOO_SMALL", bodied)
  BY <1>2, <1>4, EncodeCases
<1>6. result.status = "OK"
  OBVIOUS
<1> HIDE DEF result, required, layout, W, headed, bodied
<1>7. W = DOMAIN layout /\ result.memory = bodied
  BY <1>5, <1>6 DEF Refusal
<1>8. Cardinality(W) = Len(layout)
  <2>1. layout \in Seq(Fields) /\ Cardinality(W) \in 0 .. Len(layout) /\ W = 1 .. Cardinality(W)
    BY <1>3, FieldsWrittenAreFirst DEF layout, W
  <2>2. 1 .. Cardinality(W) = 1 .. Len(layout) /\ Len(layout) \in Nat
    BY <1>7, <2>1
  <2> DEFINE c == Cardinality(W)
             l == Len(layout)
  <2>3. c \in 0 .. l /\ l \in Nat /\ 1 .. c = 1 .. l
    BY <2>1, <2>2
  <2> HIDE DEF c, l
  <2>4. l = 0 \/ l \in 1 .. c
    BY <2>3
  <2>5. c = l
    BY <2>3, <2>4
  <2> QED
    BY <2>5 DEF c, l
<1>9. bodied = OrBits(headed, 16, AllBits(major, o))
  BY <1>8 DEF bodied, Bodied, headed, AllBits, layout, W
<1>10. required <= n
  BY <1>2, <1>3
<1>11. /\ headed \in [1 .. n -> 0 .. 255]
       /\ \A k \in 3 .. n : headed[k] = IF k <= required THEN 0 ELSE m[k]
  <2>1. Required(major, o) # 0 /\ Required(major, o) <= n
    BY <1>2, <1>10 DEF required
  <2>2. /\ Headed(major, o, m) \in [1 .. n -> 0 .. 255]
        /\ Headed(major, o, m)[1] = HeaderEncode(HeaderOf(major, o))[1]
        /\ Headed(major, o, m)[2] = HeaderEncode(HeaderOf(major, o))[2]
        /\ \A k \in 3 .. n : Headed(major, o, m)[k] = IF k <= Required(major, o) THEN 0 ELSE m[k]
    BY SMTT(30), <1>4, <2>1, HeadedType
  <2> QED
    BY <2>2 DEF headed, required
<1>12. /\ bodied[1] = HeaderEncode(HeaderOf(major, o))[1]
       /\ bodied[2] = HeaderEncode(HeaderOf(major, o))[2]
  BY SMTT(60), <1>2, <1>4, <1>10, BodiedType DEF bodied, required
<1>13. ASSUME NEW k \in 3 .. required, NEW b \in 0 .. 7
       PROVE  BitOf(bodied[k], b) = IF NewBit(16, AllBits(major, o), 8 * (k - 1) + b) THEN 1 ELSE 0
  <2>1. k \in 1 .. n /\ k \in 3 .. n /\ k <= required
    BY <1>3, <1>10
  <2>2. headed[k] = 0
    BY <1>11, <2>1
  <2>3. headed \in [1 .. n -> 0 .. 255]
    BY <1>11
  <2> DEFINE bits == AllBits(major, o)
  <2> HIDE DEF bits
  <2>4. headed[k] = 0 => BitOf(OrBits(headed, 16, bits)[k], b) =
                            IF NewBit(16, bits, 8 * (k - 1) + b) THEN 1 ELSE 0
    BY ZenonT(30), <2>1, <2>3, OrBitsWritten
  <2> QED
    BY <1>9, <2>2, <2>4 DEF bits
<1> QED
  BY <1>2, <1>3, <1>7, <1>12, <1>13 DEF Carries, CarriesBody, result, required

\* Only the octets of the object matter.
LEMMA CarriesLocal ==
    ASSUME NEW data, NEW other, NEW major, NEW o,
           CarriesBody(data, major, o), \A k \in 3 .. Required(major, o) : other[k] = data[k]
    PROVE  CarriesBody(other, major, o)
  BY DEF CarriesBody

LEMMA CarriesBit ==
    ASSUME NEW data, NEW major, NEW o, Required(major, o) \in 10 .. 17, CarriesBody(data, major, o),
           NEW p \in 16 .. 8 * Required(major, o) - 1
    PROVE  Bit(data, p) = IF NewBit(16, AllBits(major, o), p) THEN 1 ELSE 0
<1> DEFINE required == Required(major, o)
           k == p \div 8 + 1
           b == p % 8
<1>1. required \in 10 .. 17 /\ p \in 16 .. 8 * required - 1
  OBVIOUS
<1> HIDE DEF required
<1>2. k \in 3 .. required /\ b \in 0 .. 7 /\ p = 8 * (k - 1) + b
  BY <1>1
<1> HIDE DEF k, b
<1>3. Bit(data, 8 * (k - 1) + b) = BitOf(data[k], b)
  <2>1. k \in Nat \ {0}
    BY <1>2
  <2> QED
    BY <1>2, <2>1, BitAt
<1>4. BitOf(data[k], b) = IF NewBit(16, AllBits(major, o), 8 * (k - 1) + b) THEN 1 ELSE 0
  BY <1>2 DEF CarriesBody, required
<1> QED
  BY <1>2, <1>3, <1>4

\* The header that is written is the header that is read, also with the flag set in it.
LEMMA HeaderFlagged ==
    ASSUME NEW data, NEW major \in {EXPERIMENTAL_MAJOR, STABLE_MAJOR}, NEW o, o.kind \in Kind,
           o.priority \in 0 .. 3, NEW flag \in {0, 1},
           data[1] = HeaderEncode(HeaderOf(major, o))[1],
           data[2] = HeaderEncode(HeaderOf(major, o))[2] + flag
    PROVE  /\ HeaderDecode(data).major_version = major
           /\ HeaderDecode(data).priority = o.priority
           /\ HeaderDecode(data).extension_present = flag
           /\ KindIn(data) = o.kind
<1> DEFINE kind == o.kind
           c == KindToCode(kind).category
           q == KindToCode(kind).opcode
           p == o.priority
<1>1. /\ kind = "PRESENCE" => KindToCode(kind) = [category |-> 0, opcode |-> 0]
      /\ kind = "HAZARD" => KindToCode(kind) = [category |-> 3, opcode |-> 1]
      /\ kind = "REQUEST" => KindToCode(kind) = [category |-> 5, opcode |-> 1]
      /\ kind = "AUTHORITY_CLAIM" => KindToCode(kind) = [category |-> 1, opcode |-> 1]
      /\ kind = "DEGRADED_STATE" => KindToCode(kind) = [category |-> 6, opcode |-> 1]
      /\ kind = "TRANSPORT_OFFER" => KindToCode(kind) = [category |-> 8, opcode |-> 0]
      /\ kind = "TRANSPORT_ACCEPT" => KindToCode(kind) = [category |-> 8, opcode |-> 1]
  <2> HIDE DEF kind
  <2> QED
    BY DEF KindToCode
<1>2. /\ CodeToKind(0, 0) = "PRESENCE" /\ CodeToKind(3, 1) = "HAZARD"
      /\ CodeToKind(5, 1) = "REQUEST" /\ CodeToKind(1, 1) = "AUTHORITY_CLAIM"
      /\ CodeToKind(6, 1) = "DEGRADED_STATE" /\ CodeToKind(8, 0) = "TRANSPORT_OFFER"
      /\ CodeToKind(8, 1) = "TRANSPORT_ACCEPT"
  BY DEF CodeToKind
<1>3. kind \in Kind
  OBVIOUS
<1>4. data[1] = major * 16 + c /\ data[2] = q * 8 + p * 2 + flag
  <2>1. /\ HeaderEncode(HeaderOf(major, o))[1] = major * 16 + c
        /\ HeaderEncode(HeaderOf(major, o))[2] = q * 8 + p * 2 + 0
    BY DEF HeaderEncode, HeaderOf
  <2>2. q * 8 + p * 2 + 0 = q * 8 + p * 2
    <3>1. q \in Nat /\ p \in Nat
      BY <1>1, <1>3 DEF Kind
    <3> HIDE DEF q, p
    <3> QED
      BY <3>1
  <2> QED
    BY <2>1, <2>2
<1> HIDE DEF kind
<1>5. c \in 0 .. 8 /\ q \in 0 .. 1 /\ CodeToKind(c, q) = kind
  BY <1>1, <1>2, <1>3 DEF Kind
<1>6. major \in 0 .. 1 /\ p \in 0 .. 3
  BY DEF EXPERIMENTAL_MAJOR, STABLE_MAJOR
<1> HIDE DEF c, q, p
<1>7. /\ (major * 16 + c) \div 16 = major /\ (major * 16 + c) % 16 = c
  BY <1>5, <1>6
<1>8. /\ (q * 8 + p * 2 + flag) \div 8 = q /\ ((q * 8 + p * 2 + flag) \div 2) % 4 = p
      /\ (q * 8 + p * 2 + flag) % 2 = flag
  <2>1. /\ q = 0 \/ q = 1
        /\ p = 0 \/ p = 1 \/ p = 2 \/ p = 3
        /\ flag = 0 \/ flag = 1
    BY <1>5, <1>6
  <2> QED
    BY <2>1
<1>9. /\ HeaderDecode(data).major_version = major /\ HeaderDecode(data).category = c
      /\ HeaderDecode(data).opcode = q /\ HeaderDecode(data).priority = p
      /\ HeaderDecode(data).extension_present = flag
  BY <1>4, <1>7, <1>8 DEF HeaderDecode
<1> QED
  BY <1>5, <1>9 DEF KindIn, kind, p

LEMMA HeaderCarried ==
    ASSUME NEW data, NEW major \in {EXPERIMENTAL_MAJOR, STABLE_MAJOR}, NEW o, o.kind \in Kind,
           o.priority \in 0 .. 3,
           data[1] = HeaderEncode(HeaderOf(major, o))[1],
           data[2] = HeaderEncode(HeaderOf(major, o))[2]
    PROVE  /\ HeaderDecode(data).major_version = major
           /\ HeaderDecode(data).priority = o.priority
           /\ HeaderDecode(data).extension_present = 0
           /\ KindIn(data) = o.kind
<1> DEFINE second == HeaderEncode(HeaderOf(major, o))[2]
<1>1. second = second + 0
  <2>1. second \in Nat
    BY DEF HeaderEncode, HeaderOf, KindToCode, Kind
  <2> HIDE DEF second
  <2> QED
    BY <2>1
<1>2. data[2] = second + 0
  BY <1>1
<1> QED
  BY <1>2, HeaderFlagged

-----------------------------------------------------------------------------
\* Fields lie behind the header, each behind those before it.
LEMMA PositionsGrow ==
    ASSUME NEW layout, NEW n \in Nat, \A i \in 1 .. n : layout[i].width \in Nat
    PROVE  \A i \in 1 .. n : /\ PositionOf(layout, i) \in Nat /\ 16 <= PositionOf(layout, i)
                             /\ PositionOf(layout, i + 1) = PositionOf(layout, i) + layout[i].width
                             /\ PositionOf(layout, i + 1) <= PositionOf(layout, n + 1)
<1> DEFINE P(i) == PositionOf(layout, i)
<1>1. /\ P(1) = 16
      /\ \A i \in 1 .. n + 1 : P(i) \in Nat
      /\ \A i \in 1 .. n : P(i + 1) = P(i) + layout[i].width
  BY PositionSteps
<1> HIDE DEF P
<1> DEFINE S == {k \in Nat : k <= n => \A i \in 1 .. k : 16 <= P(i) /\ P(i + 1) <= P(k + 1)}
           T == {k \in Nat : k <= n => 16 <= P(k + 1)}
<1>2. 0 \in T
  BY <1>1
<1>3. ASSUME NEW k \in Nat, k \in T PROVE k + 1 \in T
  <2> SUFFICES ASSUME k + 1 <= n PROVE 16 <= P((k + 1) + 1)
    OBVIOUS
  <2>1. k + 1 \in 1 .. n /\ k + 1 \in 1 .. n + 1
    OBVIOUS
  <2>2. P((k + 1) + 1) = P(k + 1) + layout[k + 1].width /\ layout[k + 1].width \in Nat
        /\ P(k + 1) \in Nat
    BY <1>1, <2>1
  <2>3. 16 <= P(k + 1)
    BY <1>3
  <2> QED
    BY <2>2, <2>3
<1>4. Nat \subseteq T
  <2> HIDE DEF T
  <2> QED
    BY <1>2, <1>3, AllNumbers
<1>5. 0 \in S
  OBVIOUS
<1>6. ASSUME NEW k \in Nat, k \in S PROVE k + 1 \in S
  <2> SUFFICES ASSUME k + 1 <= n, NEW i \in 1 .. k + 1
               PROVE  16 <= P(i) /\ P(i + 1) <= P((k + 1) + 1)
    OBVIOUS
  <2>1. k + 1 \in 1 .. n /\ k + 1 \in 1 .. n + 1
    OBVIOUS
  <2>2. P((k + 1) + 1) = P(k + 1) + layout[k + 1].width /\ layout[k + 1].width \in Nat
        /\ P(k + 1) \in Nat
    BY <1>1, <2>1
  <2>3. CASE i \in 1 .. k
    <3>1. 16 <= P(i) /\ P(i + 1) <= P(k + 1)
      BY <1>6, <2>3
    <3>2. P(i + 1) \in Nat
      <4>1. i + 1 \in 1 .. n + 1
        OBVIOUS
      <4> QED
        BY <1>1, <4>1
    <3> QED
      BY <2>2, <3>1, <3>2
  <2>4. CASE i = k + 1
    <3>1. k \in T
      BY <1>4
    <3>2. 16 <= P(k + 1)
      BY <3>1
    <3>3. P((k + 1) + 1) \in Nat
      BY <2>2
    <3> QED
      BY <2>4, <3>2, <3>3
  <2> QED
    BY <2>3, <2>4
<1>7. n \in S
  <2> HIDE DEF S
  <2> QED
    BY <1>5, <1>6, AllNumbers
<1> HIDE DEF T
<1>8. \A i \in 1 .. n : 16 <= P(i) /\ P(i + 1) <= P(n + 1)
  BY <1>7
<1>9. \A i \in 1 .. n : i \in 1 .. n + 1
  OBVIOUS
<1> QED
  BY <1>1, <1>8, <1>9 DEF P

\* What the writers append for a value that fits are bits.
LEMMA FieldBitsAreBits ==
    ASSUME NEW field \in Fields, field.width \in 1 .. 24 \cup {32},
           NEW v \in MemberType(field), Fits(v, field)
    PROVE  \A b \in 1 .. field.width : FieldBits(v, field)[b] \in {0, 1}
<1> DEFINE w == field.width
<1>1. CASE w = 32
  <2> DEFINE s == BitsOf(v[1], 16)
             t == BitsOf(v[2], 16)
             B == {0, 1}
             n == 16
  <2>1. v[1] \in Nat /\ v[2] \in Nat
    <3>1. v \in Half \X Half
      BY <1>1 DEF MemberType
    <3> QED
      BY <3>1, HalfIs
  <2>2. s \in [1 .. n -> B] /\ t \in [1 .. n -> B]
    <3>1. 16 \in 0 .. 24
      OBVIOUS
    <3> QED
      BY <2>1, <3>1, BitsOfType
  <2>3. FieldBits(v, field) = s \o t
    BY <1>1 DEF FieldBits
  <2>4. n \in Nat
    OBVIOUS
  <2> HIDE DEF s, t, B, n
  <2>5. s \in Seq(B) /\ Len(s) = n
    BY <2>2, <2>4, FunctionIsSequence
  <2>6. t \in Seq(B) /\ Len(t) = n
    BY <2>2, <2>4, FunctionIsSequence
  <2>7. s \o t \in Seq(B) /\ Len(s \o t) = n + n
    BY <2>5, <2>6, ConcatType
  <2>8. 1 .. w = 1 .. n + n
    BY <1>1 DEF n
  <2>9. \A b \in 1 .. w : (s \o t)[b] \in B
    <3> DEFINE c == s \o t
    <3> HIDE DEF c
    <3>1. c \in Seq(B) /\ Len(c) = n + n
      BY <2>7 DEF c
    <3>2. \A b \in 1 .. Len(c) : c[b] \in B
      BY <3>1
    <3> QED
      BY <2>8, <3>1, <3>2 DEF c
  <2> QED
    BY <2>3, <2>9 DEF B
<1>2. CASE w # 32 /\ ~field.signed
  <2>1. w \in 0 .. 24 /\ v \in Nat
    BY <1>2 DEF MemberType
  <2>2. FieldBits(v, field) = BitsOf(v, w)
    BY <1>2, <2>1 DEF FieldBits
  <2>3. BitsOf(v, w) \in [1 .. w -> {0, 1}]
    BY <2>1, BitsOfType
  <2> QED
    BY <2>2, <2>3
<1>3. CASE w # 32 /\ field.signed
  <2> DEFINE half == 2^(w - 1)
             u == IF v < 0 THEN 2^w + v ELSE v
  <2>1. w \in 1 .. 24 /\ v \in Int /\ v \in -half .. half - 1
    BY <1>3 DEF MemberType, Fits
  <2>2. half \in Nat \ {0} /\ 2^w = 2 * half
    <3>1. w - 1 \in 0 .. 23 /\ (w - 1) + 1 = w
      BY <2>1
    <3> QED
      BY <3>1, Powers DEF Doubles
  <2>3. FieldBits(v, field) = BitsOf(u, w)
    BY <1>3 DEF FieldBits
  <2> DEFINE all == 2^w
  <2>4. u \in Nat
    <3>1. u = IF v < 0 THEN all + v ELSE v
      OBVIOUS
    <3>2. all = 2 * half
      BY <2>2
    <3> HIDE DEF half, u, all
    <3> QED
      BY <2>1, <2>2, <3>1, <3>2
  <2> HIDE DEF u
  <2>5. w \in 0 .. 24
    BY <2>1
  <2>6. BitsOf(u, w) \in [1 .. w -> {0, 1}]
    BY <2>4, <2>5, BitsOfType
  <2> QED
    BY <2>3, <2>6
<1> QED
  BY <1>1, <1>2, <1>3

\* Only a PRESENCE is laid out differently at the Stable major.
LEMMA SameLayout ==
    ASSUME NEW major, NEW kind \in Kind, ~(kind = "PRESENCE" /\ major = STABLE_MAJOR)
    PROVE  Layout(major, kind) = Layout(EXPERIMENTAL_MAJOR, kind)
<1>1. CASE kind = "PRESENCE"
  BY <1>1 DEF Layout, EXPERIMENTAL_MAJOR, STABLE_MAJOR
<1>2. CASE kind # "PRESENCE"
  <2>1. /\ kind = "HAZARD" => Layout(major, kind) = Layout(EXPERIMENTAL_MAJOR, kind)
        /\ kind = "REQUEST" => Layout(major, kind) = Layout(EXPERIMENTAL_MAJOR, kind)
        /\ kind = "AUTHORITY_CLAIM" => Layout(major, kind) = Layout(EXPERIMENTAL_MAJOR, kind)
    BY DEF Layout
  <2>2. /\ kind = "DEGRADED_STATE" => Layout(major, kind) = Layout(EXPERIMENTAL_MAJOR, kind)
        /\ kind = "TRANSPORT_OFFER" => Layout(major, kind) = Layout(EXPERIMENTAL_MAJOR, kind)
        /\ kind = "TRANSPORT_ACCEPT" => Layout(major, kind) = Layout(EXPERIMENTAL_MAJOR, kind)
    BY DEF Layout
  <2> QED
    BY <1>2, <2>1, <2>2 DEF Kind
<1> QED
  BY <1>1, <1>2

\* What the Stable major carries of a kind, the Experimental one carries too.
LEMMA LayoutsNest ==
    ASSUME NEW major, NEW kind \in Kind
    PROVE  \A i \in 1 .. Len(Layout(major, kind)) :
              \E j \in 1 .. Len(Layout(EXPERIMENTAL_MAJOR, kind)) :
                 Layout(EXPERIMENTAL_MAJOR, kind)[j] = Layout(major, kind)[i]
<1>1. CASE kind = "PRESENCE" /\ major = STABLE_MAJOR
  <2> DEFINE s == Layout(major, kind)
             t == Layout(EXPERIMENTAL_MAJOR, kind)
  <2>1. Len(s) = 3 /\ Len(t) = 4
    BY <1>1 DEF Layout, EXPERIMENTAL_MAJOR, STABLE_MAJOR
  <2>2. s[1] = t[1] /\ s[2] = t[3] /\ s[3] = t[4]
    BY <1>1 DEF Layout, EXPERIMENTAL_MAJOR, STABLE_MAJOR
  <2> HIDE DEF s, t
  <2>3. \A i \in 1 .. 3 : i = 1 \/ i = 2 \/ i = 3
    OBVIOUS
  <2>4. 1 \in 1 .. 4 /\ 3 \in 1 .. 4 /\ 4 \in 1 .. 4
    OBVIOUS
  <2> QED
    BY <2>1, <2>2, <2>3, <2>4 DEF s, t
<1>2. CASE ~(kind = "PRESENCE" /\ major = STABLE_MAJOR)
  <2>1. Layout(major, kind) = Layout(EXPERIMENTAL_MAJOR, kind)
    BY <1>2, SameLayout
  <2> QED
    BY <2>1
<1> QED
  BY <1>1, <1>2

LEMMA ReadAsWritten ==
    ASSUME NEW major, NEW kind
    PROVE  LayoutRead(major, kind) = LayoutWritten(major, kind)
  BY DEF LayoutRead, LayoutWritten

LEMMA LayoutNotEmpty ==
    ASSUME NEW major, NEW kind \in Kind
    PROVE  Layout(major, kind) # <<>>
<1>1. /\ kind = "PRESENCE" => Layout(major, kind) # <<>>
      /\ kind = "HAZARD" => Layout(major, kind) # <<>>
      /\ kind = "REQUEST" => Layout(major, kind) # <<>>
      /\ kind = "AUTHORITY_CLAIM" => Layout(major, kind) # <<>>
      /\ kind = "DEGRADED_STATE" => Layout(major, kind) # <<>>
      /\ kind = "TRANSPORT_OFFER" => Layout(major, kind) # <<>>
      /\ kind = "TRANSPORT_ACCEPT" => Layout(major, kind) # <<>>
  BY DEF Layout
<1> QED
  BY <1>1 DEF Kind

-----------------------------------------------------------------------------
LEMMA WidthIsNumber == \A x : x \in 1 .. 24 \cup {32} => x \in Nat
  OBVIOUS

\* The value the body has for field i of a layout is of the member's type.
LEMMA ValueType ==
    ASSUME NEW major, NEW o, o.kind \in Kind, WellTyped(o),
           NEW i \in 1 .. Len(LayoutWritten(major, o.kind))
    PROVE  LET field == LayoutWritten(major, o.kind)[i]
           IN  o.body[field.name] \in MemberType(field) /\ field.name \in Members(o.kind)
<1> DEFINE kind == o.kind
           s == Layout(major, kind)
           t == Layout(EXPERIMENTAL_MAJOR, kind)
<1>1. LayoutWritten(major, kind) = s /\ LayoutRead(EXPERIMENTAL_MAJOR, kind) = t
  BY LayoutIs, ReadAsWritten
<1>2. t \in Seq(Fields) /\ DOMAIN t = 1 .. Len(t)
  <2>1. t \in Seq(Fields)
    BY LayoutIs
  <2> HIDE DEF t
  <2> QED
    BY <2>1
<1>3. \A j \in 1 .. Len(t) : o.body[t[j].name] \in MemberType(t[j])
  BY <1>1, <1>2 DEF WellTyped
<1>4. Members(kind) = {t[j].name : j \in 1 .. Len(t)}
  BY <1>1, <1>2 DEF Members
<1>5. PICK j \in 1 .. Len(t) : t[j] = s[i]
  BY <1>1, LayoutsNest
<1> HIDE DEF s, t
<1> QED
  BY <1>1, <1>3, <1>4, <1>5

\* What the codec knows of the layout of an object it can send.
LEMMA LayoutFacts ==
    ASSUME NEW major, NEW kind \in Kind, EncodedSizeAtMajor(major, kind) # 0
    PROVE  LET layout == LayoutWritten(major, kind)
               n      == Len(layout)
               end    == PositionOf(layout, n + 1)
           IN  /\ n \in Nat \ {0} /\ DOMAIN layout = 1 .. n
               /\ end \in Nat /\ 16 <= end /\ end <= 8 * EncodedSizeAtMajor(major, kind)
               /\ \A i \in 1 .. n :
                     /\ layout[i] \in Fields /\ layout[i].width \in 1 .. 24 \cup {32}
                     /\ PositionOf(layout, i) \in Nat /\ 16 <= PositionOf(layout, i)
                     /\ PositionOf(layout, i + 1) = PositionOf(layout, i) + layout[i].width
                     /\ PositionOf(layout, i + 1) <= end
                     /\ \A j \in 1 .. n : layout[i].name = layout[j].name => i = j
<1> DEFINE layout == LayoutWritten(major, kind)
           n == Len(layout)
           P(i) == PositionOf(layout, i)
           end == P(n + 1)
           size == EncodedSizeAtMajor(major, kind)
<1>1. layout \in Seq(Fields) /\ layout = Layout(major, kind)
  BY LayoutIs
<1>2. \A i \in 1 .. n : /\ layout[i].width \in 1 .. 24 \cup {32}
                        /\ \A j \in 1 .. n : layout[i].name = layout[j].name => i = j
  BY <1>1, NamesDiffer
<1>3. \A i \in 1 .. n : P(i + 1) <= 8 * size
  BY LayoutsFit
<1>4. layout # <<>>
  <2> DEFINE t == Layout(major, kind)
  <2>1. t # <<>>
    BY LayoutNotEmpty
  <2> QED
    BY <1>1, <2>1
<1> HIDE DEF layout, size
<1>5. n \in Nat \ {0} /\ DOMAIN layout = 1 .. n /\ \A i \in 1 .. n : layout[i] \in Fields
  BY <1>1, <1>4
<1>6. \A i \in 1 .. n : layout[i].width \in Nat
  <2> SUFFICES ASSUME NEW i \in 1 .. n PROVE layout[i].width \in Nat
    OBVIOUS
  <2>1. layout[i].width \in 1 .. 24 \cup {32}
    BY <1>2
  <2> QED
    BY Zenon, <2>1, WidthIsNumber
<1> HIDE DEF n
<1>7. \A i \in 1 .. n : /\ P(i) \in Nat /\ 16 <= P(i)
                        /\ P(i + 1) = P(i) + layout[i].width /\ P(i + 1) <= P(n + 1)
  BY <1>5, <1>6, PositionsGrow
<1>8. end \in Nat /\ 16 <= end /\ end <= 8 * size
  <2>1. n \in 1 .. n
    BY <1>5
  <2>2. P(n) \in Nat /\ 16 <= P(n) /\ end = P(n) + layout[n].width /\ layout[n].width \in Nat
    BY <1>6, <1>7, <2>1
  <2>3. end <= 8 * size
    BY <1>3, <2>1
  <2> HIDE DEF P
  <2> QED
    BY <2>2, <2>3
<1> QED
  BY <1>2, <1>5, <1>7, <1>8 DEF n, layout, size

\* Every field is read back as it was sent.
LEMMA FieldCarried ==
    ASSUME NEW major, NEW o, o.kind \in Kind, WellTyped(o), AllFit(major, o),
           Required(major, o) \in 10 .. 17, NEW data, CarriesBody(data, major, o),
           NEW i \in 1 .. Len(LayoutWritten(major, o.kind))
    PROVE  LET layout == LayoutWritten(major, o.kind)
           IN  ReadField(data, PositionOf(layout, i), layout[i]) = o.body[layout[i].name]
<1> DEFINE layout == LayoutWritten(major, o.kind)
           n == Len(layout)
           field == layout[i]
           at == PositionOf(layout, i)
           end == PositionOf(layout, n + 1)
           v == o.body[field.name]
           w == field.width
           required == Required(major, o)
           bits == AllBits(major, o)
<1>1. required \in 10 .. 17 /\ required = EncodedSizeAtMajor(major, o.kind)
  BY DEF Required
<1>2. /\ n \in Nat /\ DOMAIN layout = 1 .. n /\ end \in Nat /\ end <= 8 * required
      /\ field \in Fields /\ w \in 1 .. 24 \cup {32}
      /\ at \in Nat /\ 16 <= at /\ at + w <= end
      /\ \A j \in 1 .. n : layout[j].width \in Nat
  <2>1. EncodedSizeAtMajor(major, o.kind) # 0
    BY <1>1
  <2>2. /\ n \in Nat /\ DOMAIN layout = 1 .. n /\ end \in Nat
        /\ end <= 8 * EncodedSizeAtMajor(major, o.kind)
        /\ \A j \in 1 .. n :
              /\ layout[j] \in Fields /\ layout[j].width \in 1 .. 24 \cup {32}
              /\ PositionOf(layout, j) \in Nat /\ 16 <= PositionOf(layout, j)
              /\ PositionOf(layout, j + 1) = PositionOf(layout, j) + layout[j].width
              /\ PositionOf(layout, j + 1) <= end
    BY <2>1, LayoutFacts
  <2> HIDE DEF layout, n, required
  <2>3. i \in 1 .. n
    BY DEF n, layout
  <2>4. /\ field \in Fields /\ w \in 1 .. 24 \cup {32}
        /\ at \in Nat /\ 16 <= at
        /\ PositionOf(layout, i + 1) = at + w /\ PositionOf(layout, i + 1) <= end
    BY <2>2, <2>3
  <2> HIDE DEF field, at, end, w
  <2>5. \A j \in 1 .. n : layout[j].width \in Nat
    <3> SUFFICES ASSUME NEW j \in 1 .. n PROVE layout[j].width \in Nat
      OBVIOUS
    <3>1. layout[j].width \in 1 .. 24 \cup {32}
      BY <2>2
    <3> QED
      BY Zenon, <3>1, WidthIsNumber
  <2> QED
    BY <1>1, <2>2, <2>4, <2>5
<1>3. v \in MemberType(field)
  BY ValueType
<1>4. Fits(v, field)
  BY <1>2 DEF AllFit
<1>5. /\ Len(bits) = end - 16
      /\ \A b \in 1 .. w : bits[at - 16 + b] = FieldBits(v, field)[b]
  <2>1. n \in 0 .. n
    BY <1>2
  <2>2. /\ Len(BodyBits(o.body, layout, n)) = PositionOf(layout, n + 1) - 16
        /\ \A j \in 1 .. n : FieldAt(BodyBits(o.body, layout, n), o.body, layout, j)
    <3> HIDE DEF layout, n
    <3> QED
      BY <1>2, <2>1, BodyBitsLength
  <2>3. bits = BodyBits(o.body, layout, n)
    BY DEF AllBits
  <2> HIDE DEF bits
  <2> QED
    BY <2>2, <2>3 DEF FieldAt
<1>6. \A b \in 1 .. w : FieldBits(v, field)[b] \in {0, 1}
  BY <1>2, <1>3, <1>4, FieldBitsAreBits
<1>7. ASSUME NEW b \in 1 .. w
      PROVE  Bit(data, at + b - 1) = FieldBits(v, field)[b]
  <2> DEFINE p == at + b - 1
  <2>1. p \in 16 .. 8 * required - 1 /\ p \in 16 .. 16 + Len(bits) - 1 /\ p - 16 + 1 = at - 16 + b
    <3> DEFINE l == Len(bits)
    <3>1. /\ w \in Nat /\ at \in Nat /\ 16 <= at /\ at + w <= end /\ end \in Nat
          /\ end <= 8 * required /\ l = end - 16 /\ b \in 1 .. w /\ required \in 10 .. 17
      BY <1>1, <1>2, <1>5
    <3> HIDE DEF required, at, end, w, l
    <3> QED
      BY <3>1 DEF l
  <2> HIDE DEF p
  <2>2. Bit(data, p) = IF NewBit(16, bits, p) THEN 1 ELSE 0
    BY <2>1, CarriesBit
  <2>3. NewBit(16, bits, p) <=> bits[at - 16 + b] = 1
    <3> HIDE DEF bits, at
    <3> QED
      BY <2>1 DEF NewBit
  <2>4. bits[at - 16 + b] = FieldBits(v, field)[b]
    BY <1>5
  <2> HIDE DEF bits
  <2> QED
    BY <1>6, <2>2, <2>3, <2>4 DEF p
<1> HIDE DEF at, field, v, w
<1>8. ReadField(data, at, field) = v
  <2>1. \A b \in 1 .. field.width : Bit(data, at + b - 1) = FieldBits(v, field)[b]
    BY <1>7 DEF w
  <2>2. field \in Fields /\ field.width \in 1 .. 24 \cup {32} /\ at \in Nat
    BY <1>2 DEF w
  <2> QED
    BY <1>3, <1>4, <2>1, <2>2, FieldReadBack
<1> QED
  BY <1>8 DEF at, field, v

-----------------------------------------------------------------------------
\* The way back: a field that is read fits, and is written as the bits it was read from.
HasBits(data, at, w) == \A i \in 1 .. w : Bit(data, at + i - 1) \in {0, 1}
ReadsBits(data, at, w) ==
    /\ ReadU(data, at, w) \in Nat /\ ReadU(data, at, w) < 2^w
    /\ \A i \in 1 .. w : BitsOf(ReadU(data, at, w), w)[i] = Bit(data, at + i - 1)

LEMMA ReadUFits ==
    ASSUME NEW w \in 1 .. 24, NEW data, NEW at, HasBits(data, at, w)
    PROVE  ReadsBits(data, at, w)
<1> DEFINE bits == [i \in 1 .. w |-> Bit(data, at + i - 1)]
<1>1. bits \in [1 .. w -> {0, 1}]
  BY DEF HasBits
<1>2. ReadU(data, at, w) = NumberOf(bits)
  BY DEF ReadU
<1>3. \A i \in 1 .. w : bits[i] = Bit(data, at + i - 1)
  OBVIOUS
<1> HIDE DEF bits
<1> QED
  BY <1>1, <1>2, <1>3, BitsOfNumber DEF ReadsBits

LEMMA ConcatHalves ==
    ASSUME NEW s \in [1 .. 16 -> {0, 1}], NEW t \in [1 .. 16 -> {0, 1}]
    PROVE  /\ \A i \in 1 .. 16 : (s \o t)[i] = s[i]
           /\ \A i \in 1 .. 16 : (s \o t)[16 + i] = t[i]
<1> DEFINE B == {0, 1}
           n == 16
<1>1. s \in [1 .. n -> B] /\ t \in [1 .. n -> B] /\ n \in Nat
  OBVIOUS
<1> HIDE DEF B, n
<1>2. s \in Seq(B) /\ Len(s) = n
  BY <1>1, FunctionIsSequence
<1>3. t \in Seq(B) /\ Len(t) = n
  BY <1>1, FunctionIsSequence
<1>4. \A i \in 1 .. Len(s) + Len(t) :
         (s \o t)[i] = IF i <= Len(s) THEN s[i] ELSE t[i - Len(s)]
  BY <1>2, <1>3, ConcatProperties
<1>5. ASSUME NEW i \in 1 .. 16 PROVE (s \o t)[i] = s[i]
  <2>1. i \in 1 .. Len(s) + Len(t) /\ i <= Len(s)
    BY <1>2, <1>3 DEF n
  <2> QED
    BY <1>4, <2>1
<1>6. ASSUME NEW i \in 1 .. 16 PROVE (s \o t)[16 + i] = t[i]
  <2> DEFINE k == 16 + i
  <2>1. k \in 1 .. Len(s) + Len(t) /\ ~(k <= Len(s)) /\ k - Len(s) = i
    BY <1>2, <1>3 DEF n
  <2> HIDE DEF k
  <2>2. (s \o t)[k] = t[k - Len(s)]
    BY <1>4, <2>1
  <2> QED
    BY <2>1, <2>2 DEF k
<1> QED
  BY <1>5, <1>6

LEMMA FieldOfBits ==
    ASSUME NEW field \in Fields, field.width \in 1 .. 24 \cup {32}, NEW data, NEW at \in Nat,
           \A b \in 1 .. field.width : Bit(data, at + b - 1) \in {0, 1}
    PROVE  /\ Fits(ReadField(data, at, field), field)
           /\ \A b \in 1 .. field.width :
                 FieldBits(ReadField(data, at, field), field)[b] = Bit(data, at + b - 1)
<1> DEFINE w == field.width
           v == ReadField(data, at, field)
<1>1. CASE w = 32
  <2> DEFINE s == BitsOf(ReadU(data, at, 16), 16)
             t == BitsOf(ReadU(data, at + 16, 16), 16)
  <2>1. \A i \in 1 .. 16 : Bit(data, at + i - 1) \in {0, 1}
    <3>1. \A i \in 1 .. 16 : i \in 1 .. w
      BY <1>1
    <3> QED
      BY <3>1
  <2>2. \A i \in 1 .. 16 : Bit(data, (at + 16) + i - 1) \in {0, 1}
    <3> SUFFICES ASSUME NEW i \in 1 .. 16 PROVE Bit(data, (at + 16) + i - 1) \in {0, 1}
      OBVIOUS
    <3>1. 16 + i \in 1 .. w /\ (at + 16) + i - 1 = at + (16 + i) - 1
      BY <1>1
    <3> QED
      BY <3>1
  <2>3. 16 \in 1 .. 24 /\ 16 \in 0 .. 24
    OBVIOUS
  <2>4. /\ ReadU(data, at, 16) \in Nat
        /\ \A i \in 1 .. 16 : s[i] = Bit(data, at + i - 1)
    <3>1. HasBits(data, at, 16)
      BY <2>1 DEF HasBits
    <3>2. ReadsBits(data, at, 16)
      BY <2>3, <3>1, ReadUFits
    <3> QED
      BY <3>2 DEF ReadsBits
  <2>5. /\ ReadU(data, at + 16, 16) \in Nat
        /\ \A i \in 1 .. 16 : t[i] = Bit(data, (at + 16) + i - 1)
    <3>1. HasBits(data, at + 16, 16)
      BY <2>2 DEF HasBits
    <3>2. ReadsBits(data, at + 16, 16)
      BY <2>3, <3>1, ReadUFits
    <3> QED
      BY <3>2 DEF ReadsBits
  <2>6. s \in [1 .. 16 -> {0, 1}] /\ t \in [1 .. 16 -> {0, 1}]
    BY <2>3, <2>4, <2>5, BitsOfType
  <2>7. v = <<ReadU(data, at, 16), ReadU(data, at + 16, 16)>>
    BY <1>1 DEF ReadField
  <2>8. FieldBits(v, field) = s \o t /\ Fits(v, field)
    <3>1. v[1] = ReadU(data, at, 16) /\ v[2] = ReadU(data, at + 16, 16)
      <4> DEFINE x == ReadU(data, at, 16)
                 y == ReadU(data, at + 16, 16)
      <4>1. v = <<x, y>>
        BY <2>7
      <4> HIDE DEF v, x, y
      <4>2. v[1] = x /\ v[2] = y
        BY <4>1
      <4> QED
        BY <4>2 DEF x, y
    <3>2. FieldBits(v, field) = BitsOf(v[1], 16) \o BitsOf(v[2], 16)
      <4> HIDE DEF v
      <4> QED
        BY Zenon, <1>1 DEF FieldBits
    <3>3. Fits(v, field)
      <4> HIDE DEF v
      <4> QED
        BY Zenon, <1>1 DEF Fits
    <3> QED
      BY <3>1, <3>2, <3>3
  <2> HIDE DEF s, t, v
  <2>9. /\ \A i \in 1 .. 16 : (s \o t)[i] = s[i]
        /\ \A i \in 1 .. 16 : (s \o t)[16 + i] = t[i]
    BY ZenonT(30), <2>6, ConcatHalves
  <2>10. ASSUME NEW b \in 1 .. 32 PROVE (s \o t)[b] = Bit(data, at + b - 1)
    <3>1. CASE b \in 1 .. 16
      BY <2>4, <2>9, <3>1
    <3>2. CASE b \notin 1 .. 16
      <4> DEFINE i == b - 16
      <4>1. i \in 1 .. 16 /\ b = 16 + i /\ (at + 16) + i - 1 = at + b - 1
        BY <3>2
      <4> HIDE DEF i
      <4>2. (s \o t)[16 + i] = t[i] /\ t[i] = Bit(data, (at + 16) + i - 1)
        BY <2>5, <2>9, <4>1
      <4> QED
        BY <4>1, <4>2
    <3> QED
      BY <3>1, <3>2
  <2> QED
    BY <1>1, <2>8, <2>10 DEF v
<1>2. CASE w \in 1 .. 24
  <2> DEFINE e == ReadU(data, at, w)
             d == 2^(w - 1)
  <2>1. /\ e \in Nat /\ e < 2^w
        /\ \A i \in 1 .. w : BitsOf(e, w)[i] = Bit(data, at + i - 1)
    <3>1. HasBits(data, at, w)
      BY DEF HasBits
    <3> HIDE DEF w
    <3>2. ReadsBits(data, at, w)
      BY <1>2, <3>1, ReadUFits
    <3> QED
      BY <3>2 DEF ReadsBits
  <2>2. w # 32
    BY <1>2
  <2>3. d \in Nat \ {0} /\ 2^w = 2 * d
    <3> DEFINE k == w - 1
    <3>1. k \in 0 .. 23 /\ w = k + 1
      BY <1>2
    <3> HIDE DEF k, w
    <3>2. Doubles(k)
      BY <3>1, Powers
    <3> QED
      BY <3>1, <3>2 DEF Doubles, k
  <2>4. CASE field.signed
    <3>1. v = IF e >= d THEN e - 2^w ELSE e
      BY <2>2, <2>4 DEF ReadField, ReadS
    <3>2. /\ Fits(v, field) <=> v \in -d .. d - 1
          /\ FieldBits(v, field) = IF v < 0 THEN BitsOf(2^w + v, w) ELSE BitsOf(v, w)
      <4> HIDE DEF v
      <4> QED
        BY <2>2, <2>4 DEF Fits, FieldBits
    <3> DEFINE p == 2^w
    <3>3. p = 2 * d /\ e < p /\ v = IF e >= d THEN e - p ELSE e
      BY <2>1, <2>3, <3>1
    <3> HIDE DEF e, d, p, v
    <3>4. v \in -d .. d - 1 /\ (IF v < 0 THEN p + v ELSE v) = e
      BY <2>1, <2>3, <3>3
    <3>5. FieldBits(v, field) = BitsOf(e, w)
      <4>1. FieldBits(v, field) = BitsOf(IF v < 0 THEN p + v ELSE v, w)
        BY <3>2 DEF p
      <4> QED
        BY <3>4, <4>1
    <3> QED
      BY <2>1, <3>2, <3>4, <3>5 DEF v
  <2>5. CASE ~field.signed
    <3>1. v = e
      BY <2>2, <2>5 DEF ReadField
    <3>2. ~(e < 0)
      <4> HIDE DEF e
      <4> QED
        BY <2>1
    <3> HIDE DEF v, e
    <3>3. Fits(v, field) <=> v < 2^w
      BY <2>2, <2>5 DEF Fits
    <3>4. FieldBits(v, field) = BitsOf(v, w)
      BY <2>2, <3>1, <3>2 DEF FieldBits
    <3> QED
      BY <2>1, <3>1, <3>3, <3>4 DEF v
  <2>6. field.signed \in BOOLEAN
    BY DEF Fields
  <2> QED
    BY <2>4, <2>5, <2>6
<1> QED
  BY <1>1, <1>2

-----------------------------------------------------------------------------
\* Each member that the layout carries is the field that was read for it, and the
\* others are zero.
Reads(read, data, major, kind) ==
    LET layout == LayoutWritten(major, kind)
    IN  /\ read = [name \in Members(kind) |-> read[name]]
        /\ \A i \in 1 .. Len(layout) :
              /\ layout[i].name \in Members(kind)
              /\ read[layout[i].name] = ReadField(data, PositionOf(layout, i), layout[i])
        /\ \A name \in Members(kind) :
              (~ \E i \in 1 .. Len(layout) : layout[i].name = name) => read[name] = 0

LEMMA ObjectReads ==
    ASSUME NEW major \in {EXPERIMENTAL_MAJOR, STABLE_MAJOR}, NEW kind \in Kind, NEW required,
           required = EncodedSizeAtMajor(major, kind), required # 0, NEW data, NEW priority
    PROVE  LET read == ReadObject(data, major, kind, priority, required)
           IN  /\ read = [kind |-> kind, priority |-> priority, body |-> read.body]
               /\ Reads(read.body, data, major, kind)
<1> DEFINE layout == LayoutWritten(major, kind)
           n == Len(layout)
           read == ReadObject(data, major, kind, priority, required)
           Placed(j) == [field |-> layout[j], at |-> PositionOf(layout, j)]
           Read(name) == {f \in FieldsRead[major][kind] :
                             f.field.name = name /\ f.at + f.field.width <= 8 * required}
           Value(name) == IF Read(name) = {} THEN 0
                          ELSE CHOOSE v \in {ReadField(data, f.at, f.field) : f \in Read(name)} : TRUE
<1>1. /\ n \in Nat /\ DOMAIN layout = 1 .. n
      /\ \A j \in 1 .. n : PositionOf(layout, j) + layout[j].width <= 8 * required
      /\ \A j, k \in 1 .. n : layout[j].name = layout[k].name => j = k
  <2> DEFINE end == PositionOf(layout, n + 1)
             P(j) == PositionOf(layout, j)
             w(j) == layout[j].width
  <2>1. required \in Nat
    <3> DEFINE x == [kind |-> kind]
    <3>1. Required(major, x) \in {0} \cup 10 .. 17
      BY RequiredType
    <3>2. Required(major, x) = required
      BY DEF Required
    <3> HIDE DEF x
    <3> QED
      BY <3>1, <3>2
  <2>2. /\ n \in Nat /\ DOMAIN layout = 1 .. n
        /\ end \in Nat /\ end <= 8 * required
        /\ \A j \in 1 .. n :
              /\ P(j) \in Nat /\ P(j + 1) = P(j) + w(j) /\ P(j + 1) <= end /\ w(j) \in Nat
              /\ \A k \in 1 .. n : layout[j].name = layout[k].name => j = k
    <3>1. /\ n \in Nat /\ DOMAIN layout = 1 .. n
          /\ end \in Nat /\ end <= 8 * EncodedSizeAtMajor(major, kind)
          /\ \A j \in 1 .. n :
                /\ layout[j].width \in 1 .. 24 \cup {32}
                /\ P(j) \in Nat /\ P(j + 1) = P(j) + layout[j].width /\ P(j + 1) <= end
                /\ \A k \in 1 .. n : layout[j].name = layout[k].name => j = k
      BY SMTT(30), LayoutFacts
    <3> HIDE DEF layout, n, end, P
    <3> QED
      BY Zenon, <3>1, WidthIsNumber DEF w
  <2> HIDE DEF layout, n, end, P, w
  <2>3. ASSUME NEW j \in 1 .. n PROVE P(j) + w(j) <= 8 * required
    BY SMTT(30), <2>1, <2>2
  <2> QED
    BY <2>2, <2>3 DEF P, w
<1>2. FieldsRead[major][kind] = {Placed(j) : j \in 1 .. n}
  <2>1. LayoutRead(major, kind) = layout
    BY ReadAsWritten
  <2>2. FieldsRead[major][kind] = PlacedFields(LayoutRead(major, kind))
    BY DEF FieldsRead
  <2> HIDE DEF layout, n
  <2> QED
    BY <1>1, <2>1, <2>2 DEF PlacedFields
<1>3. \A j \in 1 .. n : Placed(j).field = layout[j] /\ Placed(j).at = PositionOf(layout, j)
  OBVIOUS
<1>4. ReadObject(data, major, kind, priority, required) =
         [kind |-> kind, priority |-> priority, body |-> [name \in Members(kind) |-> Value(name)]]
  BY DEF ReadObject
<1>5. ASSUME NEW i \in 1 .. n PROVE layout[i].name \in Members(kind)
  <2> DEFINE s == Layout(major, kind)
             t == Layout(EXPERIMENTAL_MAJOR, kind)
  <2>1. layout = s /\ LayoutRead(EXPERIMENTAL_MAJOR, kind) = t
    BY LayoutIs, ReadAsWritten
  <2>2. t \in Seq(Fields)
    BY LayoutIs
  <2>3. PICK j \in 1 .. Len(t) : t[j] = s[i]
    BY <2>1, LayoutsNest
  <2> HIDE DEF s, t, layout
  <2>4. DOMAIN t = 1 .. Len(t)
    BY <2>2
  <2>5. Members(kind) = {t[k].name : k \in 1 .. Len(t)}
    BY <2>1, <2>4 DEF Members
  <2> QED
    BY <2>1, <2>3, <2>5
<1> HIDE DEF layout, n, Placed
<1>6. ASSUME NEW i \in 1 .. n
      PROVE  Value(layout[i].name) = ReadField(data, PositionOf(layout, i), layout[i])
  <2>1. Read(layout[i].name) = {Placed(i)}
    <3>1. Placed(i) \in Read(layout[i].name)
      BY <1>1, <1>2, <1>3
    <3>2. ASSUME NEW f \in Read(layout[i].name) PROVE f = Placed(i)
      <4>1. PICK j \in 1 .. n : f = Placed(j)
        BY <1>2
      <4>2. layout[j].name = layout[i].name
        BY <1>3, <4>1
      <4> QED
        BY <1>1, <4>1, <4>2
    <3> HIDE DEF Read
    <3> QED
      BY <3>1, <3>2
  <2> DEFINE V == {ReadField(data, f.at, f.field) : f \in Read(layout[i].name)}
  <2>2. V = {ReadField(data, PositionOf(layout, i), layout[i])}
    <3> HIDE DEF Read
    <3> QED
      BY <1>3, <2>1
  <2>3. Value(layout[i].name) = CHOOSE v \in V : TRUE
    <3> HIDE DEF Read
    <3>1. Read(layout[i].name) # {}
      BY <2>1
    <3> QED
      BY <3>1
  <2> HIDE DEF V, Value
  <2> QED
    BY <2>2, <2>3
<1>7. ASSUME NEW name, ~ \E i \in 1 .. n : layout[i].name = name PROVE Value(name) = 0
  <2>1. Read(name) = {}
    <3> SUFFICES ASSUME NEW f \in Read(name) PROVE FALSE
      OBVIOUS
    <3>1. PICK j \in 1 .. n : f = Placed(j)
      BY <1>2
    <3> QED
      BY <1>3, <1>7, <3>1
  <2> QED
    BY <2>1
<1> HIDE DEF Value
<1>8. /\ read = [kind |-> kind, priority |-> priority, body |-> read.body]
      /\ read.body = [name \in Members(kind) |-> Value(name)]
  <2> HIDE DEF read
  <2> QED
    BY <1>4 DEF read
<1> HIDE DEF read
<1>9. Reads(read.body, data, major, kind)
  BY <1>5, <1>6, <1>7, <1>8 DEF Reads, layout, n
<1> QED
  BY <1>8, <1>9 DEF read

-----------------------------------------------------------------------------
\* What a decoder is to make of an object: the members the layout does not carry
\* are zero.
Sent(major, o) ==
    LET layout == LayoutWritten(major, o.kind)
    IN  [kind |-> o.kind, priority |-> o.priority,
         body |-> [name \in Members(o.kind) |->
                      IF \E i \in 1 .. Len(layout) : layout[i].name = name
                      THEN o.body[name] ELSE 0]]

LEMMA ObjectCarried ==
    ASSUME NEW major \in {EXPERIMENTAL_MAJOR, STABLE_MAJOR}, NEW o, o.kind \in Kind,
           WellTyped(o), AllFit(major, o),
           Required(major, o) \in 10 .. 17, NEW data, CarriesBody(data, major, o)
    PROVE  ReadObject(data, major, o.kind, o.priority, Required(major, o)) = Sent(major, o)
<1> DEFINE kind == o.kind
           layout == LayoutWritten(major, kind)
           required == Required(major, o)
           read == ReadObject(data, major, kind, o.priority, required)
           Carry(name) == \E i \in 1 .. Len(layout) : layout[i].name = name
<1>1. /\ read = [kind |-> kind, priority |-> o.priority, body |-> read.body]
      /\ Reads(read.body, data, major, kind)
  <2> DEFINE q == o.priority
  <2>1. required = EncodedSizeAtMajor(major, kind) /\ required # 0
    BY DEF Required
  <2> HIDE DEF required, kind, q
  <2> QED
    BY <2>1, ObjectReads DEF q, kind
<1>2. \A i \in 1 .. Len(layout) :
         ReadField(data, PositionOf(layout, i), layout[i]) = o.body[layout[i].name]
  BY FieldCarried
<1> HIDE DEF read
<1>3. read.body = [name \in Members(kind) |-> read.body[name]]
  BY <1>1 DEF Reads
<1>4. \A name \in Members(kind) : read.body[name] = IF Carry(name) THEN o.body[name] ELSE 0
  BY <1>1, <1>2 DEF Reads
<1>5. read.body = [name \in Members(kind) |-> IF Carry(name) THEN o.body[name] ELSE 0]
  BY <1>3, <1>4
<1> QED
  BY <1>1, <1>5 DEF Sent, read

\* The member of a Stable PRESENCE that is not carried, and no other, reads as zero.
WithoutClass(o) == [o EXCEPT !.body = [o.body EXCEPT !["machine_class"] = 0]]

LEMMA SentIs ==
    ASSUME NEW major \in {EXPERIMENTAL_MAJOR, STABLE_MAJOR}, NEW o, o.kind \in Kind, WellTyped(o)
    PROVE  Sent(major, o) = IF major = STABLE_MAJOR /\ o.kind = "PRESENCE"
                            THEN WithoutClass(o) ELSE o
<1> DEFINE kind == o.kind
           s == Layout(major, kind)
           t == Layout(EXPERIMENTAL_MAJOR, kind)
           Carry(name) == \E i \in 1 .. Len(s) : s[i].name = name
<1>1. LayoutWritten(major, kind) = s /\ LayoutRead(EXPERIMENTAL_MAJOR, kind) = t
  BY LayoutIs, ReadAsWritten
<1>2. DOMAIN t = 1 .. Len(t)
  <2>1. t \in Seq(Fields)
    BY LayoutIs
  <2> HIDE DEF t
  <2> QED
    BY <2>1
<1>3. Members(kind) = {t[i].name : i \in 1 .. Len(t)}
  <2> HIDE DEF t
  <2> QED
    BY <1>1, <1>2 DEF Members
<1>4. Sent(major, o) = [kind |-> kind, priority |-> o.priority,
                        body |-> [name \in Members(kind) |-> IF Carry(name) THEN o.body[name] ELSE 0]]
  <2> HIDE DEF s
  <2> QED
    BY <1>1 DEF Sent
<1>5. /\ o = [kind |-> kind, priority |-> o.priority, body |-> o.body]
      /\ o.body = [name \in Members(kind) |-> o.body[name]]
  BY DEF WellTyped
<1>6. CASE kind = "PRESENCE" /\ major = STABLE_MAJOR
  <2>1. /\ Len(s) = 3 /\ s[1].name = "source_ref" /\ s[2].name = "capability_tag"
        /\ s[3].name = "ttl"
    BY <1>6 DEF Layout, Unsigned
  <2>2. /\ Len(t) = 4 /\ t[1].name = "source_ref" /\ t[2].name = "machine_class"
        /\ t[3].name = "capability_tag" /\ t[4].name = "ttl"
    BY <1>6 DEF Layout, Unsigned, EXPERIMENTAL_MAJOR, STABLE_MAJOR
  <2> HIDE DEF s, t
  <2>3. Members(kind) = {"source_ref", "machine_class", "capability_tag", "ttl"}
    BY <1>3, <2>2
  <2>4. /\ Carry("source_ref") /\ Carry("capability_tag") /\ Carry("ttl")
        /\ ~Carry("machine_class")
    BY <2>1
  <2> HIDE DEF Carry
  <2>5. \A name \in Members(kind) : Carry(name) <=> name # "machine_class"
    BY <2>3, <2>4
  <2>6. [name \in Members(kind) |-> IF Carry(name) THEN o.body[name] ELSE 0] =
           [o.body EXCEPT !["machine_class"] = 0]
    BY <1>5, <2>3, <2>5
  <2>7. WithoutClass(o) =
           [kind |-> kind, priority |-> o.priority, body |-> [o.body EXCEPT !["machine_class"] = 0]]
    BY <1>5 DEF WithoutClass
  <2> QED
    BY <1>4, <1>6, <2>6, <2>7
<1>7. CASE ~(kind = "PRESENCE" /\ major = STABLE_MAJOR)
  <2>1. s = t
    BY <1>7, SameLayout
  <2> HIDE DEF s, t
  <2>2. \A name \in Members(kind) : Carry(name)
    BY <1>3, <2>1
  <2> HIDE DEF Carry
  <2>3. [name \in Members(kind) |-> IF Carry(name) THEN o.body[name] ELSE 0] = o.body
    BY <1>5, <2>2
  <2> QED
    BY <1>4, <1>5, <1>7, <2>3
<1> QED
  BY <1>6, <1>7

-----------------------------------------------------------------------------
\* From its whole length on an object is decoded, also when something follows and the flag
\* says so; of less the decoder waits for more.
LEMMA DecodeFlagged ==
    ASSUME NEW major, NEW o, WellTyped(o), AllFit(major, o), o.priority \in Nat,
           Required(major, o) \in 10 .. 17, NEW octets, Carries(octets, major, o),
           NEW data, Len(data) \in Nat, NEW flag \in {0, 1},
           Len(data) >= 1 => data[1] = octets[1],
           Len(data) >= 2 => data[2] = octets[2] + flag,
           \A k \in 3 .. Required(major, o) : k <= Len(data) => data[k] = octets[k],
           NEW entry, flag = 1 => entry # "decode", NEW old
    PROVE  /\ Received(entry, data, old) =
                 IF Len(data) >= Required(major, o)
                 THEN [status |-> "OK", object |-> Sent(major, o), consumed |-> Required(major, o)]
                 ELSE Undecoded("TRUNCATED", old)
           /\ Len(data) >= 2 => HeaderDecode(data).extension_present = flag
<1> DEFINE kind == o.kind
           required == Required(major, o)
           layout == LayoutWritten(major, kind)
           n == Len(layout)
           l == Len(data)
           read == ReadObject(data, major, kind, o.priority, required)
           b == DecodeBody(data, old)
<1>1. major \in {EXPERIMENTAL_MAJOR, STABLE_MAJOR} /\ kind \in Kind
  BY RequiredType DEF EXPERIMENTAL_MAJOR, STABLE_MAJOR
<1>2. CASE l < 2
  <2>1. Received(entry, data, old) = Undecoded("TRUNCATED", old)
    BY <1>2 DEF Received, Decode, DecodeBody, COMMON_HEADER_SIZE
  <2>2. ~(l >= required)
    <3> HIDE DEF l, required
    <3> QED
      BY <1>2 DEF l, required
  <2>3. ~(l >= 2)
    <3> HIDE DEF l
    <3> QED
      BY <1>2 DEF l
  <2> HIDE DEF l, required
  <2> QED
    BY <2>1, <2>2, <2>3 DEF l, required
<1>3. CASE ~(l < 2)
  <2>1. data[1] = octets[1] /\ data[2] = octets[2] + flag
    <3>1. l >= 1 /\ l >= 2
      <4> HIDE DEF l
      <4> QED
        BY <1>3 DEF l
    <3> QED
      BY <3>1
  <2>2. o.priority \in 0 .. 3
    <3>1. o.priority <= 3
      BY DEF AllFit
    <3> DEFINE p == o.priority
    <3>2. p \in Nat /\ p <= 3
      BY <3>1
    <3> HIDE DEF p
    <3>3. p \in 0 .. 3
      BY <3>2
    <3> QED
      BY <3>3 DEF p
  <2>3. /\ HeaderDecode(data).major_version = major
        /\ HeaderDecode(data).priority = o.priority
        /\ HeaderDecode(data).extension_present = flag
        /\ KindIn(data) = kind
    <3>1. /\ data[1] = HeaderEncode(HeaderOf(major, o))[1]
          /\ data[2] = HeaderEncode(HeaderOf(major, o))[2] + flag
      BY <2>1 DEF Carries
    <3> QED
      BY <1>1, <2>2, <3>1, HeaderFlagged
  <2>4. Received(entry, data, old) = b
    <3>1. ~(Len(data) < COMMON_HEADER_SIZE)
      BY <1>3 DEF COMMON_HEADER_SIZE
    <3>2. entry = "decode" => flag = 0
      OBVIOUS
    <3> HIDE DEF b
    <3> QED
      BY <2>3, <3>1, <3>2 DEF Received, Decode, b
  <2>5. RequiredIn(data) = required
    BY <2>3 DEF RequiredIn, Required
  <2>6. required # 0
    OBVIOUS
  <2>7. b = IF l < required THEN Undecoded("TRUNCATED", old)
            ELSE IF EndOfFields(major, kind) > 8 * required THEN Undecoded("TRUNCATED", read)
            ELSE IF ~PaddingIsZero(data, major, kind, required) THEN Undecoded("NONCANONICAL", read)
            ELSE [status |-> "OK", object |-> read, consumed |-> required]
    <3>1. ~(Len(data) < COMMON_HEADER_SIZE)
      BY <1>3 DEF COMMON_HEADER_SIZE
    <3>2. EncodedSizeAtMajor(major, kind) = required
      BY DEF Required
    <3>3. CodeToKind(HeaderDecode(data).category, HeaderDecode(data).opcode) = kind
      BY <2>3 DEF KindIn
    <3> HIDE DEF required, kind
    <3> QED
      BY <1>1, <2>3, <2>6, <3>1, <3>2, <3>3 DEF DecodeBody, required
  <2>8. CASE l < required
    <3>1. ~(l >= required)
      <4>1. required \in 10 .. 17
        OBVIOUS
      <4> HIDE DEF l, required
      <4> QED
        BY <2>8, <4>1 DEF l
    <3> QED
      BY <2>3, <2>4, <2>7, <2>8, <3>1
  <2>9. CASE ~(l < required)
    <3>1. required \in 10 .. 17 /\ l >= required
      <4>1. required \in 10 .. 17
        OBVIOUS
      <4> HIDE DEF l, required
      <4> QED
        BY <2>9, <4>1 DEF l
    <3>2. \A k \in 3 .. required : data[k] = octets[k]
      <4>1. \A k \in 3 .. required : k <= l
        <5>1. l \in Nat
          OBVIOUS
        <5> HIDE DEF l, required
        <5> QED
          BY <3>1, <5>1
      <4> QED
        BY <4>1
    <3>3. CarriesBody(data, major, o)
      <4> HIDE DEF required
      <4>1. CarriesBody(octets, major, o)
        BY DEF Carries
      <4> QED
        BY <3>2, <4>1, CarriesLocal DEF required
    <3>4. read = Sent(major, o)
      BY <1>1, <3>3, ObjectCarried
    <3>5. LayoutRead(major, kind) = layout
      BY ReadAsWritten
    <3>6. EndOfFields(major, kind) = PositionOf(layout, n + 1)
      BY <3>5 DEF EndOfFields
    <3> DEFINE end == PositionOf(layout, n + 1)
               bits == AllBits(major, o)
    <3>7. /\ n \in Nat /\ end \in Nat /\ 16 <= end /\ end <= 8 * required
          /\ \A i \in 1 .. n : layout[i].width \in Nat
      <4>1. EncodedSizeAtMajor(major, kind) # 0
        BY DEF Required
      <4>2. /\ n \in Nat /\ end \in Nat /\ 16 <= end /\ end <= 8 * EncodedSizeAtMajor(major, kind)
            /\ \A i \in 1 .. n : layout[i].width \in 1 .. 24 \cup {32}
        BY <1>1, <4>1, LayoutFacts
      <4> HIDE DEF n, end, layout
      <4>3. \A i \in 1 .. n : layout[i].width \in Nat
        BY Zenon, <4>2, WidthIsNumber
      <4> QED
        BY <4>2, <4>3 DEF Required
    <3>8. Len(bits) = end - 16
      <4>1. n \in 0 .. n
        BY <3>7
      <4>2. Len(BodyBits(o.body, layout, n)) = end - 16
        <5> HIDE DEF layout, n, end
        <5>1. \A m \in 0 .. n : Len(BodyBits(o.body, layout, m)) = PositionOf(layout, m + 1) - 16
          BY ONLY <3>7, BodyBitsLength
        <5> QED
          BY <4>1, <5>1 DEF end
      <4> QED
        BY <4>2 DEF AllBits
    <3>9. PaddingIsZero(data, major, kind, required)
      <4> SUFFICES ASSUME NEW p \in end .. 8 * required - 1 PROVE Bit(data, p) = 0
        BY <3>6 DEF PaddingIsZero
      <4> DEFINE m == Len(bits)
      <4>1. p \in 16 .. 8 * required - 1 /\ ~(p \in 16 .. 16 + m - 1)
        <5>1. m = end - 16
          BY <3>8
        <5> HIDE DEF m, end, required
        <5> QED
          BY <3>1, <3>7, <5>1
      <4>2. ~NewBit(16, bits, p)
        BY <4>1 DEF NewBit
      <4> HIDE DEF bits
      <4>3. Bit(data, p) = IF NewBit(16, bits, p) THEN 1 ELSE 0
        BY <3>3, <4>1, CarriesBit DEF bits
      <4> QED
        BY <4>2, <4>3
    <3>10. ~(EndOfFields(major, kind) > 8 * required)
      <4> HIDE DEF end, required
      <4>1. EndOfFields(major, kind) = end
        BY <3>6 DEF end
      <4> QED
        BY <3>1, <3>7, <4>1
    <3> HIDE DEF read, b, l, end, layout, n, bits
    <3>11. b = [status |-> "OK", object |-> read, consumed |-> required]
      BY <2>7, <2>9, <3>9, <3>10
    <3> QED
      BY <2>3, <2>4, <3>1, <3>4, <3>11 DEF l
  <2> QED
    BY <2>8, <2>9
<1> QED
  BY <1>2, <1>3

LEMMA DecodeCarried ==
    ASSUME NEW major, NEW o, WellTyped(o), AllFit(major, o), o.priority \in Nat,
           Required(major, o) \in 10 .. 17, NEW octets, Carries(octets, major, o),
           NEW data, Len(data) \in Nat, \A k \in 1 .. Len(data) : data[k] = octets[k],
           NEW entry, NEW old
    PROVE  Received(entry, data, old) =
              IF Len(data) >= Required(major, o)
              THEN [status |-> "OK", object |-> Sent(major, o), consumed |-> Required(major, o)]
              ELSE Undecoded("TRUNCATED", old)
<1> DEFINE l == Len(data)
           second == HeaderEncode(HeaderOf(major, o))[2]
<1>1. second = second + 0
  <2>1. o.kind \in Kind
    BY RequiredType
  <2>2. second \in Nat
    BY <2>1 DEF HeaderEncode, HeaderOf, KindToCode, Kind
  <2> HIDE DEF second
  <2> QED
    BY <2>2
<1>2. octets[2] = octets[2] + 0
  BY <1>1 DEF Carries
<1>3. /\ l >= 1 => 1 \in 1 .. l
      /\ l >= 2 => 2 \in 1 .. l
      /\ \A k \in 3 .. Required(major, o) : k <= l => k \in 1 .. l
  <2>1. l \in Nat
    OBVIOUS
  <2>2. \A k \in 3 .. Required(major, o) : k \in Nat /\ k >= 1
    OBVIOUS
  <2> HIDE DEF l
  <2> QED
    BY <2>1, <2>2
<1>4. /\ l >= 1 => data[1] = octets[1]
      /\ l >= 2 => data[2] = octets[2] + 0
      /\ \A k \in 3 .. Required(major, o) : k <= l => data[k] = octets[k]
  BY <1>2, <1>3
<1> QED
  BY <1>4, DecodeFlagged

-----------------------------------------------------------------------------
\* The encoder's table has the codes the decoder's table took the kind from.
LEMMA KindIsCode ==
    ASSUME NEW c, NEW q, CodeToKind(c, q) \in Kind
    PROVE  KindToCode(CodeToKind(c, q)) = [category |-> c, opcode |-> q]
<1> DEFINE kind == CodeToKind(c, q)
<1>1. \/ kind = "PRESENCE" /\ c = 0 /\ q = 0
      \/ kind = "HAZARD" /\ c = 3 /\ q = 1
      \/ kind = "REQUEST" /\ c = 5 /\ q = 1
      \/ kind = "AUTHORITY_CLAIM" /\ c = 1 /\ q = 1
      \/ kind = "DEGRADED_STATE" /\ c = 6 /\ q = 1
      \/ kind = "TRANSPORT_OFFER" /\ c = 8 /\ q = 0
      \/ kind = "TRANSPORT_ACCEPT" /\ c = 8 /\ q = 1
  BY DEF CodeToKind, Kind
<1> HIDE DEF kind
<1>2. /\ KindToCode("PRESENCE") = [category |-> 0, opcode |-> 0]
      /\ KindToCode("HAZARD") = [category |-> 3, opcode |-> 1]
      /\ KindToCode("REQUEST") = [category |-> 5, opcode |-> 1]
      /\ KindToCode("AUTHORITY_CLAIM") = [category |-> 1, opcode |-> 1]
      /\ KindToCode("DEGRADED_STATE") = [category |-> 6, opcode |-> 1]
      /\ KindToCode("TRANSPORT_OFFER") = [category |-> 8, opcode |-> 0]
      /\ KindToCode("TRANSPORT_ACCEPT") = [category |-> 8, opcode |-> 1]
  BY DEF KindToCode
<1> QED
  BY <1>1, <1>2 DEF kind

\* Every bit before the end of the fields is of some field.
LEMMA PositionsCover ==
    ASSUME NEW layout, NEW n \in Nat, \A i \in 1 .. n : layout[i].width \in Nat,
           NEW p \in Nat, 16 <= p, p < PositionOf(layout, n + 1)
    PROVE  \E i \in 1 .. n : PositionOf(layout, i) <= p /\ p < PositionOf(layout, i + 1)
<1> DEFINE P(i) == PositionOf(layout, i)
           U == {k \in Nat : (k <= n /\ p < P(k + 1)) => \E i \in 1 .. k : P(i) <= p /\ p < P(i + 1)}
<1>1. P(1) = 16 /\ \A i \in 1 .. n + 1 : P(i) \in Nat
  BY PositionSteps
<1> HIDE DEF P
<1>2. 0 \in U
  BY <1>1
<1>3. ASSUME NEW k \in Nat, k \in U PROVE k + 1 \in U
  <2> SUFFICES ASSUME k + 1 <= n, p < P((k + 1) + 1)
               PROVE  \E i \in 1 .. k + 1 : P(i) <= p /\ p < P(i + 1)
    OBVIOUS
  <2>1. CASE p < P(k + 1)
    <3>1. PICK i \in 1 .. k : P(i) <= p /\ p < P(i + 1)
      BY <1>3, <2>1
    <3> QED
      BY <3>1
  <2>2. CASE ~(p < P(k + 1))
    <3>1. k + 1 \in 1 .. n + 1 /\ k + 1 \in 1 .. k + 1
      OBVIOUS
    <3>2. P(k + 1) \in Nat
      BY <1>1, <3>1
    <3>3. P(k + 1) <= p
      BY <2>2, <3>2
    <3> QED
      BY <3>1, <3>3
  <2> QED
    BY <2>1, <2>2
<1>4. n \in U
  <2> HIDE DEF U
  <2> QED
    BY <1>2, <1>3, AllNumbers
<1> QED
  BY <1>4 DEF P

-----------------------------------------------------------------------------
BodyIsBack(data, major, kind, priority, required) ==
    LET o      == ReadObject(data, major, kind, priority, required)
        layout == LayoutWritten(major, kind)
    IN  /\ \A i \in DOMAIN layout : Fits(o.body[layout[i].name], layout[i])
        /\ \A p \in 16 .. 8 * required - 1 :
              Bit(data, p) = IF NewBit(16, AllBits(major, o), p) THEN 1 ELSE 0

\* Octets whose padding is zero hold the bits of the object that is read from them,
\* and the object fits.
LEMMA BodyReadBack ==
    ASSUME NEW major \in {EXPERIMENTAL_MAJOR, STABLE_MAJOR}, NEW kind \in Kind, NEW required,
           required = EncodedSizeAtMajor(major, kind), required \in 10 .. 17,
           NEW data, NEW priority,
           \A p \in 16 .. 8 * required - 1 : Bit(data, p) \in {0, 1},
           PaddingIsZero(data, major, kind, required)
    PROVE  BodyIsBack(data, major, kind, priority, required)
<1> DEFINE o == ReadObject(data, major, kind, priority, required)
           layout == LayoutWritten(major, kind)
           n == Len(layout)
           P(i) == PositionOf(layout, i)
           end == PositionOf(layout, n + 1)
           w(i) == layout[i].width
           v(i) == o.body[layout[i].name]
           bits == AllBits(major, o)
<1>1. /\ n \in Nat /\ DOMAIN layout = 1 .. n
      /\ end \in Nat /\ 16 <= end /\ end <= 8 * required
      /\ \A i \in 1 .. n :
            /\ layout[i] \in Fields /\ w(i) \in 1 .. 24 \cup {32} /\ w(i) \in Nat
            /\ P(i) \in Nat /\ 16 <= P(i) /\ P(i + 1) = P(i) + w(i) /\ P(i + 1) <= end
  <2>1. EncodedSizeAtMajor(major, kind) # 0
    OBVIOUS
  <2>2. /\ n \in Nat /\ DOMAIN layout = 1 .. n
        /\ end \in Nat /\ 16 <= end /\ end <= 8 * EncodedSizeAtMajor(major, kind)
        /\ \A i \in 1 .. n :
              /\ layout[i] \in Fields /\ layout[i].width \in 1 .. 24 \cup {32}
              /\ P(i) \in Nat /\ 16 <= P(i) /\ P(i + 1) = P(i) + layout[i].width /\ P(i + 1) <= end
    BY SMTT(90), <2>1, LayoutFacts
  <2> HIDE DEF layout, n, end, P
  <2> QED
    BY Zenon, <2>2, WidthIsNumber DEF w
<1>2. /\ o = [kind |-> kind, priority |-> priority, body |-> o.body]
      /\ Reads(o.body, data, major, kind)
  <2>1. required # 0
    OBVIOUS
  <2> QED
    BY <2>1, ObjectReads
<1>3. o.kind = kind
  BY DEF ReadObject
<1>4. bits = BodyBits(o.body, layout, n)
  <2> HIDE DEF o
  <2> QED
    BY <1>3 DEF AllBits
<1>5. /\ Len(bits) = end - 16
      /\ \A i \in 1 .. n : FieldAt(bits, o.body, layout, i)
  <2>1. n \in 0 .. n /\ \A i \in 1 .. n : layout[i].width \in Nat
    BY <1>1
  <2>2. /\ Len(BodyBits(o.body, layout, n)) = PositionOf(layout, n + 1) - 16
        /\ \A j \in 1 .. n : FieldAt(BodyBits(o.body, layout, n), o.body, layout, j)
    <3> HIDE DEF layout, n
    <3> QED
      BY <1>1, <2>1, BodyBitsLength
  <2> HIDE DEF bits, o
  <2> QED
    BY <1>4, <2>2
<1>6. ASSUME NEW i \in 1 .. n
      PROVE  /\ Fits(v(i), layout[i])
             /\ \A b \in 1 .. w(i) : bits[P(i) - 16 + b] = Bit(data, P(i) + b - 1)
  <2> DEFINE field == layout[i]
             at == P(i)
  <2>1. /\ field \in Fields /\ field.width \in 1 .. 24 \cup {32} /\ at \in Nat
        /\ 16 <= at /\ at + field.width <= 8 * required /\ field.width \in Nat
    <3> DEFINE x == w(i)
    <3>1. /\ x \in Nat /\ at \in Nat /\ 16 <= at /\ P(i + 1) = at + x /\ P(i + 1) <= end
          /\ end \in Nat /\ end <= 8 * required
      BY <1>1
    <3> HIDE DEF x, at, end, P
    <3>2. at + x <= 8 * required
      BY <3>1
    <3> QED
      BY <1>1, <3>1, <3>2 DEF x, at
  <2>2. \A b \in 1 .. field.width : Bit(data, at + b - 1) \in {0, 1}
    <3> DEFINE x == field.width
    <3> SUFFICES ASSUME NEW b \in 1 .. x PROVE Bit(data, at + b - 1) \in {0, 1}
      OBVIOUS
    <3>1. x \in Nat /\ at \in Nat /\ 16 <= at /\ at + x <= 8 * required
      BY <2>1
    <3> HIDE DEF x, at
    <3>2. at + b - 1 \in 16 .. 8 * required - 1
      BY <3>1
    <3> QED
      BY <3>2
  <2>3. v(i) = ReadField(data, at, field)
    <3> HIDE DEF o
    <3> QED
      BY <1>2 DEF Reads
  <2>4. FieldAt(bits, o.body, layout, i)
    BY <1>5
  <2> HIDE DEF field, at
  <2>5. /\ Fits(ReadField(data, at, field), field)
        /\ \A b \in 1 .. field.width :
              FieldBits(ReadField(data, at, field), field)[b] = Bit(data, at + b - 1)
    BY <2>1, <2>2, FieldOfBits
  <2> HIDE DEF bits, o, layout, v
  <2>6. \A b \in 1 .. field.width : bits[at - 16 + b] = FieldBits(v(i), field)[b]
    BY <2>4 DEF FieldAt, v, field, at
  <2>7. Fits(v(i), field)
    BY <2>3, <2>5
  <2>8. \A b \in 1 .. field.width : bits[at - 16 + b] = Bit(data, at + b - 1)
    BY <2>3, <2>5, <2>6
  <2> QED
    BY <2>7, <2>8 DEF field, at
<1>7. \A i \in DOMAIN layout : Fits(o.body[layout[i].name], layout[i])
  BY <1>1, <1>6
<1>8. EndOfFields(major, kind) = end
  <2>1. LayoutRead(major, kind) = layout
    BY ReadAsWritten
  <2> QED
    BY <2>1 DEF EndOfFields
<1>9. ASSUME NEW p \in 16 .. 8 * required - 1
      PROVE  Bit(data, p) = IF NewBit(16, bits, p) THEN 1 ELSE 0
  <2>1. p \in Nat /\ 16 <= p
    OBVIOUS
  <2>2. CASE p < end
    <3>1. \A i \in 1 .. n : layout[i].width \in Nat
      BY <1>1
    <3>2. PICK i \in 1 .. n : P(i) <= p /\ p < P(i + 1)
      <4> HIDE DEF layout, n
      <4> QED
        BY <1>1, <2>1, <2>2, <3>1, PositionsCover
    <3> DEFINE at == P(i)
               x == w(i)
               b == p - at + 1
    <3>3. at \in Nat /\ x \in Nat /\ at <= p /\ p < at + x
      <4>1. P(i) <= p /\ p < P(i + 1) /\ P(i + 1) = P(i) + w(i) /\ P(i) \in Nat /\ w(i) \in Nat
        BY <1>1, <3>2
      <4> QED
        BY <4>1
    <3>4. \A c \in 1 .. x : bits[at - 16 + c] = Bit(data, at + c - 1)
      BY <1>6
    <3>5. Len(bits) = end - 16 /\ end \in Nat /\ 16 <= end
      BY <1>1, <1>5
    <3>6. b \in 1 .. x /\ at - 16 + b = p - 16 + 1 /\ at + b - 1 = p
      <4> HIDE DEF at, x
      <4> QED
        BY <2>1, <3>3
    <3>7. p \in 16 .. 16 + Len(bits) - 1
      <4> HIDE DEF end, bits
      <4> QED
        BY <2>1, <2>2, <3>5
    <3> HIDE DEF b, at, x, bits
    <3>8. bits[p - 16 + 1] = Bit(data, p)
      BY <3>4, <3>6
    <3>9. Bit(data, p) \in {0, 1}
      OBVIOUS
    <3> QED
      BY <3>7, <3>8, <3>9 DEF NewBit
  <2>3. CASE ~(p < end)
    <3>1. p \in end .. 8 * required - 1 /\ ~(p \in 16 .. 16 + (end - 16) - 1)
      <4>1. end \in Nat /\ 16 <= end /\ end <= 8 * required
        BY <1>1
      <4> HIDE DEF end
      <4> QED
        BY <2>3, <4>1
    <3>2. Bit(data, p) = 0
      BY <1>8, <3>1 DEF PaddingIsZero
    <3>3. ~NewBit(16, bits, p)
      <4> HIDE DEF bits, end
      <4> QED
        BY <1>5, <3>1 DEF NewBit
    <3> QED
      BY <3>2, <3>3
  <2> QED
    BY <2>2, <2>3
<1> QED
  BY <1>7, <1>9 DEF BodyIsBack

-----------------------------------------------------------------------------
\* What a decode call has found when it succeeds.
LEMMA DecodeFinds ==
    ASSUME NEW entry, NEW data, NEW old, Received(entry, data, old).status = "OK"
    PROVE  LET major    == HeaderDecode(data).major_version
               kind     == KindIn(data)
               required == RequiredIn(data)
           IN  /\ major \in {EXPERIMENTAL_MAJOR, STABLE_MAJOR} /\ kind \in Kind
               /\ required \in 10 .. 17 /\ ~(Len(data) < required)
               /\ PaddingIsZero(data, major, kind, required)
               /\ Received(entry, data, old).object = ReadIn(data)
               /\ Received(entry, data, old).consumed = required
<1> DEFINE major == HeaderDecode(data).major_version
           kind == KindIn(data)
           required == RequiredIn(data)
           read == ReadIn(data)
           b == DecodeBody(data, old)
<1>1. b = IF Len(data) < COMMON_HEADER_SIZE THEN Undecoded("TRUNCATED", old)
          ELSE IF \/ major \notin {EXPERIMENTAL_MAJOR, STABLE_MAJOR}
                  \/ kind \notin Kind
                  \/ required = 0
               THEN Undecoded("UNSUPPORTED_SEMANTIC", old)
          ELSE IF Len(data) < required THEN Undecoded("TRUNCATED", old)
          ELSE IF EndOfFields(major, kind) > 8 * required THEN Undecoded("TRUNCATED", read)
          ELSE IF ~PaddingIsZero(data, major, kind, required) THEN Undecoded("NONCANONICAL", read)
          ELSE [status |-> "OK", object |-> read, consumed |-> required]
  BY DEF DecodeBody, KindIn, RequiredIn, ReadIn
<1>2. required \in {0} \cup 10 .. 17
  <2> DEFINE x == [kind |-> kind]
  <2>1. Required(major, x) \in {0} \cup 10 .. 17
    BY RequiredType
  <2>2. Required(major, x) = required
    BY DEF Required, RequiredIn
  <2> HIDE DEF required, x
  <2> QED
    BY <2>1, <2>2
<1>3. \A code, x : code # "OK" => Undecoded(code, x).status # "OK"
  BY DEF Undecoded
<1>4. Received(entry, data, old) = b
  <2>1. CASE entry = "decode"
    <3> HIDE DEF b
    <3> QED
      BY <1>3, <2>1 DEF Received, Decode, b
  <2>2. CASE entry # "decode"
    BY <2>2 DEF Received
  <2> QED
    BY <2>1, <2>2
<1> HIDE DEF major, kind, required, read, b
<1>5. b.status = "OK"
  BY <1>4
<1>6. /\ major \in {EXPERIMENTAL_MAJOR, STABLE_MAJOR} /\ kind \in Kind /\ required # 0
      /\ ~(Len(data) < required) /\ PaddingIsZero(data, major, kind, required)
      /\ b = [status |-> "OK", object |-> read, consumed |-> required]
  BY <1>1, <1>3, <1>5
<1>7. required \in 10 .. 17
  BY <1>2, <1>6
<1> QED
  BY <1>4, <1>6, <1>7 DEF major, kind, required, read

\* The first two octets are the header of what was read, extension bit aside.
LEMMA HeaderReadBack ==
    ASSUME NEW data, data[1] \in 0 .. 255, data[2] \in 0 .. 255, KindIn(data) \in Kind,
           NEW o, o.kind = KindIn(data), o.priority = HeaderDecode(data).priority
    PROVE  LET header == HeaderDecode(data)
               again  == HeaderEncode(HeaderOf(header.major_version, o))
           IN  /\ data[1] = again[1]
               /\ data[2] = again[2] + header.extension_present
               /\ o.priority \in 0 .. 3 /\ header.extension_present \in 0 .. 1
<1> DEFINE header == HeaderDecode(data)
           x == data[1]
           y == data[2]
<1>1. KindToCode(o.kind) = [category |-> header.category, opcode |-> header.opcode]
  BY KindIsCode DEF KindIn
<1>2. /\ HeaderOf(header.major_version, o).major_version = header.major_version
      /\ HeaderOf(header.major_version, o).category = header.category
      /\ HeaderOf(header.major_version, o).opcode = header.opcode
      /\ HeaderOf(header.major_version, o).priority = header.priority
      /\ HeaderOf(header.major_version, o).extension_present = 0
  <2> HIDE DEF header
  <2> QED
    BY <1>1 DEF HeaderOf, header
<1>3. /\ header.major_version = x \div 16 /\ header.category = x % 16
      /\ header.opcode = y \div 8 /\ header.priority = (y \div 2) % 4
      /\ header.extension_present = y % 2
  BY DEF HeaderDecode
<1>4. x \in 0 .. 255 /\ y \in 0 .. 255
  OBVIOUS
<1> DEFINE again == HeaderEncode(HeaderOf(header.major_version, o))
<1>5. /\ again[1] = (x \div 16) * 16 + (x % 16)
      /\ again[2] = (y \div 8) * 8 + ((y \div 2) % 4) * 2 + 0
  <2> HIDE DEF header, x, y
  <2> QED
    BY <1>2, <1>3 DEF HeaderEncode
<1>6. x = (x \div 16) * 16 + (x % 16)
  <2> HIDE DEF x
  <2> QED
    BY <1>4
<1>7. y = ((y \div 8) * 8 + ((y \div 2) % 4) * 2 + 0) + (y % 2)
      /\ (y \div 2) % 4 \in 0 .. 3 /\ y % 2 \in 0 .. 1
  <2> HIDE DEF y
  <2> QED
    BY <1>4
<1> HIDE DEF again, header, x, y
<1> QED
  BY <1>3, <1>5, <1>6, <1>7 DEF again, header, x, y

\* A successful decode is undone by encoding what it gave, into any memory with room.
EncodesBack(entry, data, old, m, capacity) ==
    LET r     == Received(entry, data, old)
        again == EncodeAtMajor(HeaderDecode(data).major_version, r.object, m, capacity)
    IN  /\ again.status = "OK" /\ again.written = r.consumed
        /\ again.memory \in [DOMAIN m -> 0 .. 255] /\ r.consumed \in DOMAIN m
        /\ r.consumed \in 10 .. 17 /\ r.consumed <= Len(data)
        /\ HeaderDecode(data).extension_present \in 0 .. 1
        /\ \A k \in 1 .. r.consumed :
              data[k] = again.memory[k] +
                           (IF k = 2 THEN HeaderDecode(data).extension_present ELSE 0)

LEMMA DecodedEncodesBack ==
    ASSUME NEW entry, NEW data, Len(data) \in Nat, \A k \in 1 .. Len(data) : data[k] \in 0 .. 255,
           NEW old, Received(entry, data, old).status = "OK",
           NEW n \in Nat, NEW m \in [1 .. n -> 0 .. 255], NEW capacity \in 0 .. n, 17 <= capacity
    PROVE  EncodesBack(entry, data, old, m, capacity)
<1> DEFINE header == HeaderDecode(data)
           major == header.major_version
           kind == KindIn(data)
           required == RequiredIn(data)
           r == Received(entry, data, old)
           o == r.object
           again == EncodeAtMajor(major, o, m, capacity)
           l == Len(data)
<1>1. /\ major \in {EXPERIMENTAL_MAJOR, STABLE_MAJOR} /\ kind \in Kind
      /\ required \in 10 .. 17 /\ ~(l < required) /\ PaddingIsZero(data, major, kind, required)
      /\ o = ReadIn(data) /\ r.consumed = required
  BY DecodeFinds
<1> HIDE DEF r
<1>2. l \in Nat /\ required <= l
  <2>1. l \in Nat
    OBVIOUS
  <2> HIDE DEF l, required
  <2> QED
    BY <1>1, <2>1
<1>3. o.kind = kind /\ o.priority = header.priority /\ Required(major, o) = required
  BY <1>1 DEF ReadIn, ReadObject, Required, RequiredIn
<1>4. ASSUME NEW p \in 16 .. 8 * required - 1 PROVE Bit(data, p) \in {0, 1}
  <2> DEFINE k == p \div 8 + 1
             b == p % 8
  <2>1. k \in 1 .. l /\ b \in 0 .. 7 /\ p = 8 * (k - 1) + b
    <3> HIDE DEF l, required
    <3> QED
      BY <1>1, <1>2
  <2> HIDE DEF k, b
  <2>2. k \in Nat \ {0}
    <3> HIDE DEF l
    <3> QED
      BY <1>2, <2>1
  <2>3. Bit(data, 8 * (k - 1) + b) = BitOf(data[k], b)
    BY <2>1, <2>2, BitAt
  <2>4. data[k] \in 0 .. 255
    BY <2>1
  <2>5. BitOf(data[k], b) \in {0, 1}
    BY <2>1, <2>4, BitsOfOctet
  <2> QED
    BY <2>1, <2>3, <2>5
<1> DEFINE layout == LayoutWritten(major, kind)
<1>5. /\ \A i \in DOMAIN layout : Fits(o.body[layout[i].name], layout[i])
      /\ \A p \in 16 .. 8 * required - 1 :
            Bit(data, p) = IF NewBit(16, AllBits(major, o), p) THEN 1 ELSE 0
  <2>1. o = ReadObject(data, major, kind, header.priority, required)
    BY <1>1 DEF ReadIn
  <2>2. required = EncodedSizeAtMajor(major, kind)
    BY DEF RequiredIn
  <2> DEFINE q == header.priority
  <2> HIDE DEF o, major, kind, required, q
  <2>3. BodyIsBack(data, major, kind, q, required)
    BY <1>1, <1>4, <2>2, BodyReadBack
  <2> QED
    BY <2>1, <2>3 DEF BodyIsBack, q, layout
<1>6. /\ data[1] = HeaderEncode(HeaderOf(major, o))[1]
      /\ data[2] = HeaderEncode(HeaderOf(major, o))[2] + header.extension_present
      /\ o.priority \in 0 .. 3 /\ header.extension_present \in 0 .. 1
  <2>1. 1 \in 1 .. l /\ 2 \in 1 .. l
    <3> HIDE DEF l, required
    <3> QED
      BY <1>1, <1>2
  <2>2. data[1] \in 0 .. 255 /\ data[2] \in 0 .. 255
    BY <2>1
  <2> HIDE DEF o
  <2> QED
    BY <1>1, <1>3, <2>2, HeaderReadBack
<1>7. AllFit(major, o)
  <2>1. o.priority <= 3
    <3> DEFINE q == o.priority
    <3>1. q \in 0 .. 3
      BY <1>6
    <3> HIDE DEF q
    <3>2. q <= 3
      BY <3>1
    <3> QED
      BY <3>2 DEF q
  <2> HIDE DEF o, major, kind
  <2> QED
    BY <1>3, <1>5, <2>1 DEF AllFit
<1>8. again.status = "OK"
  <2>1. again.status = CodecAnswer(major, o, capacity)
    BY EncodeAnswers
  <2>2. ~(capacity < required) /\ required # 0
    <3> HIDE DEF required
    <3> QED
      BY <1>1
  <2> HIDE DEF o, major, again, required
  <2> QED
    BY <1>3, <1>7, <2>1, <2>2 DEF CodecAnswer
<1>9. o.priority \in Nat
  <2> DEFINE q == o.priority
  <2>1. q \in 0 .. 3
    BY <1>6
  <2> HIDE DEF q
  <2>2. q \in Nat
    BY <2>1
  <2> QED
    BY <2>2 DEF q
<1>10. EncodesInto(again, major, o, m, capacity, n) /\ Carries(again.memory, major, o)
  <2> HIDE DEF o, major
  <2> QED
    BY <1>8, <1>9, EncodeAtMajorWrites, EncodeCarries
<1> HIDE DEF again
<1>11. again.written = required /\ again.memory \in [1 .. n -> 0 .. 255] /\ required <= n
  <2> HIDE DEF o, major, required
  <2>1. again.written = required /\ again.memory \in [1 .. n -> 0 .. 255] /\ required <= capacity
    BY <1>3, <1>8, <1>10 DEF EncodesInto
  <2> QED
    BY SMTT(30), <1>1, <2>1
<1>12. ASSUME NEW k \in 3 .. required PROVE data[k] = again.memory[k]
  <2>1. k \in 1 .. l /\ k \in 1 .. n /\ k \in Nat \ {0}
    <3> HIDE DEF l, required
    <3> QED
      BY <1>1, <1>2, <1>11
  <2>2. data[k] \in 0 .. 255 /\ again.memory[k] \in 0 .. 255
    BY <1>11, <2>1
  <2>3. ASSUME NEW b \in 0 .. 7 PROVE BitOf(data[k], b) = BitOf(again.memory[k], b)
    <3> DEFINE p == 8 * (k - 1) + b
    <3>1. p \in 16 .. 8 * required - 1
      <4> HIDE DEF required
      <4> QED
        BY <1>1
    <3>2. Bit(data, p) = BitOf(data[k], b)
      BY <2>1, BitAt
    <3> HIDE DEF o, major
    <3>3. BitOf(again.memory[k], b) = IF NewBit(16, AllBits(major, o), p) THEN 1 ELSE 0
      BY <1>3, <1>10 DEF Carries, CarriesBody
    <3> HIDE DEF p
    <3>4. Bit(data, p) = IF NewBit(16, AllBits(major, o), p) THEN 1 ELSE 0
      BY <1>5, <3>1
    <3> QED
      BY <3>2, <3>3, <3>4
  <2> QED
    BY ZenonT(30), <2>2, <2>3, SameBits
<1>13. data[1] = again.memory[1] /\ data[2] = again.memory[2] + header.extension_present
  <2> HIDE DEF o, major
  <2> QED
    BY <1>6, <1>10 DEF Carries
<1>14. ASSUME NEW k \in 1 .. required
       PROVE  data[k] = again.memory[k] + (IF k = 2 THEN header.extension_present ELSE 0)
  <2>1. k = 1 \/ k = 2 \/ k \in 3 .. required
    <3> HIDE DEF required
    <3> QED
      BY <1>1
  <2>2. CASE k = 2
    BY <1>13, <2>2
  <2>3. CASE k # 2
    <3>1. data[k] = again.memory[k]
      BY <1>12, <1>13, <2>1, <2>3
    <3>2. k \in 1 .. n
      <4> HIDE DEF required
      <4> QED
        BY <1>1, <1>11
    <3>3. again.memory[k] \in 0 .. 255
      BY ZenonT(30), <1>11, <3>2
    <3>4. \A z \in 0 .. 255 : z + 0 = z
      OBVIOUS
    <3>5. again.memory[k] + 0 = again.memory[k]
      BY Zenon, <3>3, <3>4
    <3> QED
      BY <2>3, <3>1, <3>5
  <2> QED
    BY <2>2, <2>3
<1>15. again.memory \in [DOMAIN m -> 0 .. 255] /\ required \in DOMAIN m
  <2>1. DOMAIN m = 1 .. n
    OBVIOUS
  <2>2. required \in 1 .. n
    <3> HIDE DEF required
    <3> QED
      BY <1>1, <1>11
  <2> QED
    BY <1>11, <2>1, <2>2
<1>16. /\ r.consumed = required /\ required \in 10 .. 17 /\ required <= Len(data)
       /\ header.extension_present \in 0 .. 1
  BY <1>1, <1>2, <1>6
<1>17. \A k \in 1 .. r.consumed :
          data[k] = again.memory[k] + (IF k = 2 THEN header.extension_present ELSE 0)
  BY Zenon, <1>14, <1>16
<1> HIDE DEF required
<1> QED
  BY ONLY ZenonT(60), <1>8, <1>11, <1>15, <1>16, <1>17 DEF EncodesBack, again, r, header

-----------------------------------------------------------------------------
\* Division by the number of values of a group, what `>>= 7` and `& 0x7f` do.
LEMMA Division ==
    ASSUME NEW a \in Nat
    PROVE  /\ a \div Group \in Nat
           /\ a % Group \in 0 .. Group - 1
           /\ a = (a \div Group) * Group + (a % Group)
           /\ a \div Group <= a
           /\ a \div Group = 0 <=> a < Group
  BY UvarintAssumption

\* A shifted number with one more group below it comes apart again.
LEMMA Recomposed ==
    ASSUME NEW q \in Nat, NEW r \in 0 .. Group - 1
    PROVE  /\ q * Group + r \in Nat
           /\ (q * Group + r) \div Group = q
           /\ (q * Group + r) % Group = r
  BY UvarintAssumption

\* A shift keeps the order of numbers.
LEMMA DivisionMonotone ==
    ASSUME NEW a \in Nat, NEW b \in Nat, a <= b
    PROVE  a \div Group <= b \div Group
  BY UvarintAssumption

\* The word is filled by whole groups, so a number may be shifted up by a group
\* exactly when it is at most the largest word shifted down (extension.c:77).
LEMMA WordIsWholeGroups ==
    /\ WordMax \div Group \in Nat
    /\ (WordMax + 1) \div Group = WordMax \div Group + 1
    /\ (WordMax \div Group) * Group + Group - 1 = WordMax
<1> DEFINE m == (WordMax + 1) \div Group
<1>1. /\ Group \in Nat /\ Group > 1 /\ WordMax \in Nat /\ m \in Nat
      /\ WordMax + 1 = m * Group + ((WordMax + 1) % Group)
  BY UvarintAssumption
<1>2. WordMax + 1 = m * Group
  BY <1>1, UvarintAssumption
<1>3. m > 0
  BY <1>1, <1>2
<1> HIDE DEF m
<1>4. PICK q \in Nat : m = q + 1
  BY <1>1, <1>3
<1>5. WordMax = q * Group + (Group - 1)
  BY <1>1, <1>2, <1>4
<1>6. WordMax \div Group = q
  BY <1>1, <1>5, Recomposed
<1> QED
  BY <1>1, <1>4, <1>5, <1>6 DEF m

-----------------------------------------------------------------------------
\* Shifting out one group at a time, as the loops of size and encode do.
LEMMA ShiftedOutSteps ==
    ASSUME NEW v \in Nat
    PROVE  /\ ShiftedOut(v, 0) = v
           /\ \A k \in 0 .. MaxGroups - 2 : ShiftedOut(v, k + 1) = ShiftedOut(v, k) \div Group
           /\ \A k \in 0 .. MaxGroups - 1 : ShiftedOut(v, k) \in Nat /\ ShiftedOut(v, k) <= v
<1> DEFINE s(k) == ShiftedOut(v, k)
<1>1. s(0) = v
  BY DEF ShiftedOut
<1>2. /\ s(1) = s(0) \div Group /\ s(2) = s(1) \div Group
      /\ s(3) = s(2) \div Group /\ s(4) = s(3) \div Group
  BY DEF ShiftedOut
<1> HIDE DEF s
<1>3. s(1) \in Nat /\ s(1) <= s(0)
  BY <1>1, <1>2, Division
<1>4. s(2) \in Nat /\ s(2) <= s(1)
  BY <1>2, <1>3, Division
<1>5. s(3) \in Nat /\ s(3) <= s(2)
  BY <1>2, <1>4, Division
<1>6. s(4) \in Nat /\ s(4) <= s(3)
  BY <1>2, <1>5, Division
<1>7. \A k \in 0 .. 3 : s(k + 1) = s(k) \div Group
  <2> SUFFICES ASSUME NEW k \in 0 .. 3 PROVE s(k + 1) = s(k) \div Group
    OBVIOUS
  <2> k \in {0, 1, 2, 3}
    OBVIOUS
  <2> QED
    BY <1>2
<1>8. \A k \in 0 .. 4 : s(k) \in Nat /\ s(k) <= v
  <2> SUFFICES ASSUME NEW k \in 0 .. 4 PROVE s(k) \in Nat /\ s(k) <= v
    OBVIOUS
  <2> k \in {0, 1, 2, 3, 4}
    OBVIOUS
  <2> QED
    BY <1>1, <1>3, <1>4, <1>5, <1>6
<1> QED
  BY <1>1, <1>7, <1>8 DEF s, MaxGroups

\* A word has nothing left after five groups.
LEMMA WordTakesFiveGroups ==
    ASSUME NEW v \in Word
    PROVE  ShiftedOut(v, MaxGroups - 1) \div Group = 0
<1> DEFINE w(k) == ShiftedOut(WordMax, k)
           s(k) == ShiftedOut(v, k)
<1>1. v \in Nat /\ WordMax \in Nat /\ v <= WordMax
  BY UvarintAssumption DEF Word
<1>2. /\ s(0) = v /\ w(0) = WordMax
      /\ \A k \in 0 .. 3 : s(k + 1) = s(k) \div Group /\ w(k + 1) = w(k) \div Group
      /\ \A k \in 0 .. 4 : s(k) \in Nat /\ w(k) \in Nat
  BY <1>1, ShiftedOutSteps DEF MaxGroups
<1>3. w(4) < Group
  BY <1>2, UvarintAssumption DEF MaxGroups
<1> HIDE DEF w, s
<1>4. \A k \in 0 .. 3 : s(k) <= w(k) => s(k + 1) <= w(k + 1)
  BY <1>2, DivisionMonotone
<1>5. s(1) <= w(1)
  BY <1>1, <1>2, <1>4
<1>6. s(2) <= w(2)
  BY <1>4, <1>5
<1>7. s(3) <= w(3)
  BY <1>4, <1>6
<1>8. s(4) <= w(4)
  BY <1>4, <1>7
<1>9. s(4) < Group /\ s(4) \in Nat
  BY <1>2, <1>3, <1>8, UvarintAssumption
<1> QED
  BY <1>9, Division DEF s, MaxGroups

\* The groups the encoder takes: the first number of them that leaves nothing.
TakesGroups(v, n) ==
    /\ ShiftedOut(v, n - 1) \div Group = 0
    /\ \A m \in 1 .. n - 1 : ShiftedOut(v, m - 1) \div Group # 0

\* The encoder's loop ends with the first octet that leaves nothing, and for a
\* word that is one of the first five (extension.c:44-55).
LEMMA GroupsAreFirst ==
    ASSUME NEW v \in Word
    PROVE  /\ UvarintGroups(v) \in 1 .. MaxGroups
           /\ TakesGroups(v, UvarintGroups(v))
           /\ \A n \in 1 .. MaxGroups : TakesGroups(v, n) => n = UvarintGroups(v)
<1> DEFINE z(k) == ShiftedOut(v, k) \div Group
<1>1. z(4) = 0
  BY WordTakesFiveGroups DEF MaxGroups
<1>2. \E n \in 1 .. 5 : z(n - 1) = 0 /\ \A m \in 1 .. n - 1 : z(m - 1) # 0
  <2> HIDE DEF z
  <2>1. CASE z(0) = 0
    BY <2>1
  <2>2. CASE z(0) # 0 /\ z(1) = 0
    <3>1. \A m \in 1 .. 1 : z(m - 1) # 0
      BY <2>2
    <3> WITNESS 2 \in 1 .. 5
    <3> QED
      BY <2>2, <3>1
  <2>3. CASE z(0) # 0 /\ z(1) # 0 /\ z(2) = 0
    <3>1. \A m \in 1 .. 2 : m = 1 \/ m = 2
      OBVIOUS
    <3> WITNESS 3 \in 1 .. 5
    <3> QED
      BY <2>3, <3>1
  <2>4. CASE z(0) # 0 /\ z(1) # 0 /\ z(2) # 0 /\ z(3) = 0
    <3>1. \A m \in 1 .. 3 : m = 1 \/ m = 2 \/ m = 3
      OBVIOUS
    <3> WITNESS 4 \in 1 .. 5
    <3> QED
      BY <2>4, <3>1
  <2>5. CASE z(0) # 0 /\ z(1) # 0 /\ z(2) # 0 /\ z(3) # 0
    <3>1. \A m \in 1 .. 4 : m = 1 \/ m = 2 \/ m = 3 \/ m = 4
      OBVIOUS
    <3> WITNESS 5 \in 1 .. 5
    <3> QED
      BY <1>1, <2>5, <3>1
  <2> QED
    BY <2>1, <2>2, <2>3, <2>4, <2>5
<1>3. \E n \in 1 .. MaxGroups : TakesGroups(v, n)
  BY <1>2 DEF TakesGroups, MaxGroups
<1>4. UvarintGroups(v) = CHOOSE n \in 1 .. MaxGroups : TakesGroups(v, n)
  BY DEF UvarintGroups, TakesGroups
<1>5. UvarintGroups(v) \in 1 .. MaxGroups /\ TakesGroups(v, UvarintGroups(v))
  BY <1>3, <1>4
<1>6. ASSUME NEW n \in 1 .. MaxGroups, TakesGroups(v, n)
      PROVE  n = UvarintGroups(v)
  <2> DEFINE u == UvarintGroups(v)
  <2>1. n \in Nat /\ u \in Nat /\ n >= 1 /\ u >= 1
    BY <1>5 DEF MaxGroups
  <2>2. ~(n < u) /\ ~(u < n)
    <3>1. n < u => n \in 1 .. u - 1
      BY <2>1
    <3>2. u < n => u \in 1 .. n - 1
      BY <2>1
    <3> QED
      BY <1>5, <1>6, <3>1, <3>2 DEF TakesGroups
  <2> QED
    BY <2>1, <2>2
<1> QED
  BY <1>5, <1>6

\* What the size function counts is what the encoder writes: the two loops of
\* the code have different conditions and agree on every word (extension.c:11-58).
THEOREM SizeIsLength ==
    ASSUME NEW v \in Word
    PROVE  /\ Len(UvarintEncode(v)) = UvarintSize(v)
           /\ UvarintSize(v) = UvarintGroups(v)
           /\ UvarintSize(v) \in 1 .. MaxGroups
<1> DEFINE n == UvarintGroups(v)
           s(k) == ShiftedOut(v, k)
<1>1. v \in Nat
  BY UvarintAssumption DEF Word
<1>2. n \in 1 .. 5 /\ TakesGroups(v, n)
  BY GroupsAreFirst DEF MaxGroups
<1>3. /\ \A k \in 0 .. 3 : s(k + 1) = s(k) \div Group
      /\ \A k \in 0 .. 4 : s(k) \in Nat
  BY <1>1, ShiftedOutSteps DEF MaxGroups
<1>4. s(n - 1) \div Group = 0 /\ \A m \in 1 .. n - 1 : s(m - 1) \div Group # 0
  BY <1>2 DEF TakesGroups
<1> HIDE DEF n, s
<1>5. \A k \in 0 .. 4 : s(k) >= Group <=> s(k) \div Group # 0
  BY <1>3, Division, UvarintAssumption
<1>6. \A k \in 0 .. 3 : s(k) >= Group <=> k <= n - 2
  <2>1. ASSUME NEW k \in 0 .. 3, k <= n - 2 PROVE s(k) >= Group
    <3>1. k + 1 \in 1 .. n - 1 /\ (k + 1) - 1 = k
      BY <1>2, <2>1
    <3> QED
      BY <1>4, <1>5, <3>1
  <2>2. \A k \in 0 .. 3 : s(k) < Group => s(k + 1) < Group
    <3> SUFFICES ASSUME NEW k \in 0 .. 3, s(k) < Group PROVE s(k + 1) < Group
      OBVIOUS
    <3>1. s(k + 1) = s(k) \div Group /\ s(k) \in Nat
      BY <1>3
    <3>2. s(k + 1) = 0
      BY <3>1, Division
    <3> QED
      BY <3>2, UvarintAssumption
  <2>3. s(n - 1) < Group
    <3>1. s(n - 1) \in Nat
      BY <1>2, <1>3
    <3> QED
      BY <1>4, <3>1, Division
  <2>4. \A k \in 0 .. 3 : k >= n - 1 => s(k) < Group
    <3>1. n \in {1, 2, 3, 4, 5}
      BY <1>2
    <3>2. /\ s(0) < Group => s(1) < Group
          /\ s(1) < Group => s(2) < Group
          /\ s(2) < Group => s(3) < Group
      BY <2>2
    <3>3. \A k \in 0 .. 3 : k \in {0, 1, 2, 3}
      OBVIOUS
    <3> QED
      BY <2>3, <3>1, <3>2, <3>3
  <2> QED
    BY <1>2, <1>3, <2>1, <2>4, UvarintAssumption
<1>7. {k \in 0 .. MaxGroups - 2 : s(k) >= Group} = 0 .. n - 2
  BY <1>2, <1>6 DEF MaxGroups
<1>8. Cardinality(0 .. n - 2) = n - 1
  BY <1>2, FS_Interval
<1>9. UvarintSize(v) = n
  <2>1. UvarintSize(v) = 1 + Cardinality({k \in 0 .. MaxGroups - 2 : s(k) >= Group})
    BY DEF UvarintSize, s
  <2>2. UvarintSize(v) = 1 + (n - 1)
    BY <1>7, <1>8, <2>1
  <2> QED
    BY <1>2, <2>2
<1>10. Len(UvarintEncode(v)) = n
  BY <1>2 DEF UvarintEncode, n
<1>11. n \in 1 .. MaxGroups
  BY <1>2 DEF MaxGroups
<1>12. n = UvarintGroups(v)
  BY DEF n
<1> QED
  BY <1>9, <1>10, <1>11, <1>12

\* Below the square of the group two octets are enough.
LEMMA TwoOctets ==
    ASSUME NEW v \in Word, v < Group * Group
    PROVE  Len(UvarintEncode(v)) \in {1, 2}
<1>1. v \in Nat /\ Group \in Nat /\ Group > 1
  BY UvarintAssumption DEF Word
<1> DEFINE q == v \div Group
           r == v % Group
<1>2. q \in Nat /\ r \in 0 .. Group - 1 /\ v = q * Group + r
  BY <1>1, Division
<1>3. q < Group
  <2> HIDE DEF q, r
  <2> SUFFICES ASSUME q >= Group PROVE FALSE
    BY <1>2, <1>1
  <2>1. q * Group >= Group * Group
    BY <1>2, <1>1
  <2> QED
    BY <1>1, <1>2, <2>1
<1>4. ShiftedOut(v, 0) = v /\ ShiftedOut(v, 1) = q
  BY DEF ShiftedOut
<1>5. ShiftedOut(v, 1) \div Group = 0
  <2> HIDE DEF q, r
  <2>1. q \div Group = 0
    BY <1>2, <1>3, Division
  <2> QED
    BY <1>4, <2>1
<1>6. TakesGroups(v, 1) \/ TakesGroups(v, 2)
  <2>1. CASE ShiftedOut(v, 0) \div Group = 0
    BY <2>1 DEF TakesGroups
  <2>2. CASE ShiftedOut(v, 0) \div Group # 0
    <3>1. \A m \in 1 .. 1 : ShiftedOut(v, m - 1) \div Group # 0
      BY <2>2
    <3> QED
      BY <1>5, <3>1 DEF TakesGroups
  <2> QED
    BY <2>1, <2>2
<1>7. UvarintGroups(v) \in {1, 2}
  BY <1>6, GroupsAreFirst DEF MaxGroups
<1> QED
  BY <1>7, SizeIsLength

\* The octets of an encoding: each a group with its continuation mark, the
\* last without (extension.c:60-67).
LEMMA EncodedOctets ==
    ASSUME NEW v \in Word
    PROVE  /\ UvarintEncode(v) \in Seq(Octet)
           /\ \A i \in 1 .. UvarintGroups(v) :
                 UvarintEncode(v)[i] = (ShiftedOut(v, UvarintGroups(v) - i) % Group)
                                           + (IF i < UvarintGroups(v) THEN Group ELSE 0)
<1> DEFINE n == UvarintGroups(v)
           octet(i) == (ShiftedOut(v, n - i) % Group) + (IF i < n THEN Group ELSE 0)
<1>1. v \in Nat /\ n \in 1 .. 5
  BY GroupsAreFirst, UvarintAssumption DEF Word, MaxGroups
<1> HIDE DEF n
<1>2. \A k \in 0 .. 4 : ShiftedOut(v, k) \in Nat
  BY <1>1, ShiftedOutSteps DEF MaxGroups
<1>3. \A i \in 1 .. n : octet(i) \in Octet
  <2> SUFFICES ASSUME NEW i \in 1 .. n PROVE octet(i) \in Octet
    OBVIOUS
  <2>1. n - i \in 0 .. 4
    BY <1>1
  <2>2. ShiftedOut(v, n - i) % Group \in 0 .. Group - 1
    BY <1>2, <2>1, Division
  <2> HIDE DEF octet
  <2>3. octet(i) \in 0 .. 2 * Group - 1
    <3>1. CASE i < n
      BY <2>2, <3>1, UvarintAssumption DEF octet
    <3>2. CASE ~(i < n)
      BY <2>2, <3>2, UvarintAssumption DEF octet
    <3> QED
      BY <3>1, <3>2
  <2> QED
    BY <2>3 DEF Octet
<1>4. UvarintEncode(v) = [i \in 1 .. n |-> octet(i)]
  BY DEF UvarintEncode, n
<1> QED
  BY <1>1, <1>3, <1>4 DEF n

-----------------------------------------------------------------------------
\* Whatever is shifted in, a number comes out: the word drops what leaves it.
LEMMA ShiftedInType ==
    ASSUME NEW acc \in Nat, NEW octet \in Nat
    PROVE  ShiftedIn(acc, octet) \in Word
<1> DEFINE m == WordMax \div Group + 1
           r == acc % m
<1>1. m \in Nat /\ m > 0 /\ (WordMax + 1) \div Group = m
  BY WordIsWholeGroups
<1>2. r \in Nat /\ r <= WordMax \div Group
  <2>1. WordMax \div Group \in Nat /\ m = WordMax \div Group + 1
    BY WordIsWholeGroups
  <2> HIDE DEF m
  <2>2. r \in 0 .. m - 1
    BY <1>1
  <2> QED
    BY <1>1, <2>1, <2>2
<1>3. Payload(octet) \in 0 .. Group - 1
  BY UvarintAssumption DEF Payload
<1> HIDE DEF r
<1>4. r * Group \in Nat /\ r * Group <= (WordMax \div Group) * Group
  BY <1>2, UvarintAssumption
<1>5. r * Group + Payload(octet) \in 0 .. WordMax
  BY <1>3, <1>4, WordIsWholeGroups, UvarintAssumption
<1> QED
  BY <1>1, <1>5 DEF ShiftedIn, Word, r

\* Where the range check passes nothing leaves the word at the top
\* (extension.c:77-79).
LEMMA ShiftedInExact ==
    ASSUME NEW acc \in Nat, acc <= WordMax \div Group, NEW octet \in Nat
    PROVE  ShiftedIn(acc, octet) = acc * Group + (octet % Group)
<1> DEFINE m == (WordMax + 1) \div Group
<1>1. m \in Nat /\ acc < m
  BY WordIsWholeGroups
<1>2. acc % m = acc
  BY <1>1
<1> QED
  BY <1>2 DEF ShiftedIn, Payload

\* One round of the decoder's loop.
LEMMA AccumulatedSteps ==
    ASSUME NEW data, NEW at
    PROVE  /\ Accumulated(data, at, 0) = 0
           /\ \A k \in 1 .. MaxGroups :
                 Accumulated(data, at, k) = ShiftedIn(Accumulated(data, at, k - 1), data[at + k])
<1>1. Accumulated(data, at, 0) = 0
  BY DEF Accumulated
<1>2. ASSUME NEW k \in 1 .. 5
      PROVE  Accumulated(data, at, k) = ShiftedIn(Accumulated(data, at, k - 1), data[at + k])
  <2>1. CASE k = 1
    BY <2>1 DEF Accumulated
  <2>2. CASE k = 2
    BY <2>2 DEF Accumulated
  <2>3. CASE k = 3
    BY <2>3 DEF Accumulated
  <2>4. CASE k = 4
    BY <2>4 DEF Accumulated
  <2>5. CASE k = 5
    BY <2>5 DEF Accumulated
  <2> QED
    BY <2>1, <2>2, <2>3, <2>4, <2>5
<1> QED
  BY <1>1, <1>2 DEF MaxGroups

\* What holds before the loop and is kept by each of its rounds.
LEMMA UpToFive ==
    ASSUME NEW n \in 0 .. MaxGroups, NEW S,
           0 \in S, \A k \in 1 .. n : k - 1 \in S => k \in S
    PROVE  0 .. n \subseteq S
<1>1. n \in 0 .. 5
  BY DEF MaxGroups
<1>2. n >= 1 => 1 \in S
  BY <1>1
<1>3. n >= 2 => 2 \in S
  BY <1>1, <1>2
<1>4. n >= 3 => 3 \in S
  BY <1>1, <1>3
<1>5. n >= 4 => 4 \in S
  BY <1>1, <1>4
<1>6. n >= 5 => 5 \in S
  BY <1>1, <1>5
<1>7. \A k \in 0 .. n : k \in {0, 1, 2, 3, 4, 5}
  BY <1>1
<1> QED
  BY <1>1, <1>2, <1>3, <1>4, <1>5, <1>6, <1>7

\* What the decoder's loop has gathered is a word.
LEMMA AccumulatedType ==
    ASSUME NEW data \in Seq(Octet), NEW at \in Nat, NEW n \in 0 .. MaxGroups,
           at + n <= Len(data)
    PROVE  Accumulated(data, at, n) \in Word
<1> DEFINE S == {k \in 0 .. n : Accumulated(data, at, k) \in Word}
<1>1. n \in 0 .. 5 /\ Len(data) \in Nat
  BY DEF MaxGroups
<1>2. 0 \in S
  BY <1>1, AccumulatedSteps, UvarintAssumption DEF Word
<1>3. ASSUME NEW k \in 1 .. n, k - 1 \in S PROVE k \in S
  <2>1. at + k \in 1 .. Len(data)
    BY <1>1
  <2>2. data[at + k] \in Nat
    BY <2>1, UvarintAssumption DEF Octet
  <2>3. Accumulated(data, at, k - 1) \in Nat
    BY <1>3, UvarintAssumption DEF Word
  <2>4. Accumulated(data, at, k) = ShiftedIn(Accumulated(data, at, k - 1), data[at + k])
    BY SMTT(30), <1>1, AccumulatedSteps DEF MaxGroups
  <2> QED
    BY <1>1, <2>2, <2>3, <2>4, ShiftedInType
<1> HIDE DEF S
<1>4. n \in S
  BY <1>1, <1>2, <1>3, UpToFive
<1> QED
  BY <1>4 DEF S

-----------------------------------------------------------------------------
\* A set of loop iterations that is not empty has a first one.
LEMMA FirstIteration ==
    ASSUME NEW S \in SUBSET (1 .. MaxGroups), S # {}
    PROVE  \E i \in S : \A j \in S : i <= j
<1>1. \A j \in S : j \in {1, 2, 3, 4, 5}
  BY DEF MaxGroups
<1>2. CASE 1 \in S
  BY <1>1, <1>2
<1>3. CASE 1 \notin S /\ 2 \in S
  BY <1>1, <1>3
<1>4. CASE 1 \notin S /\ 2 \notin S /\ 3 \in S
  BY <1>1, <1>4
<1>5. CASE 1 \notin S /\ 2 \notin S /\ 3 \notin S /\ 4 \in S
  BY <1>1, <1>5
<1>6. CASE S = {5}
  BY <1>6
<1> QED
  BY <1>1, <1>2, <1>3, <1>4, <1>5, <1>6

\* The decoder's loop is left in iteration i.
FirstHalt(data, at, i) ==
    /\ i \in 1 .. MaxGroups /\ at + i <= Len(data)
    /\ Halts(data, at, i)
    /\ \A j \in 1 .. i - 1 : ~Halts(data, at, j)

\* What it then answers.
Answer(data, at, i) ==
    IF Overflows(data, at, i) THEN Refused("RANGE")
    ELSE IF UvarintSize(Accumulated(data, at, i)) # i THEN Refused("NONCANONICAL")
    ELSE [status |-> "OK", value |-> Accumulated(data, at, i), used |-> i]

\* The loop is left in one of its iterations or runs out of octets, and the
\* answer is the one of that way out (extension.c:73-95).
LEMMA DecodeWaysOut ==
    ASSUME NEW data, NEW at \in Nat, Len(data) \in Nat
    PROVE  \/ \E i \in 1 .. MaxGroups :
                 FirstHalt(data, at, i) /\ UvarintDecode(data, at) = Answer(data, at, i)
           \/ /\ \A i \in 1 .. MaxGroups : at + i <= Len(data) => ~Halts(data, at, i)
              /\ UvarintDecode(data, at) = Refused(OutOfOctets(Len(data) - at))
<1> DEFINE size  == Len(data) - at
           halts == {i \in 1 .. MaxGroups : i <= size /\ Halts(data, at, i)}
           first == CHOOSE i \in halts : \A j \in halts : i <= j
<1>1. UvarintDecode(data, at) =
        IF halts = {} THEN Refused(OutOfOctets(size))
        ELSE [i \in halts |-> Answer(data, at, i)][first]
  BY DEF UvarintDecode, Answer
<1>2. \A i \in 1 .. MaxGroups : i <= size <=> at + i <= Len(data)
  BY DEF MaxGroups
<1>3. CASE halts = {}
  BY <1>1, <1>2, <1>3
<1>4. CASE halts # {}
  <2>1. halts \in SUBSET (1 .. MaxGroups)
    OBVIOUS
  <2>2. \E i \in halts : \A j \in halts : i <= j
    <3> HIDE DEF halts
    <3> QED
      BY <1>4, <2>1, FirstIteration
  <2>3. first \in halts /\ \A j \in halts : first <= j
    BY <2>2
  <2> HIDE DEF first
  <2>4. UvarintDecode(data, at) = Answer(data, at, first)
    BY <1>1, <1>4, <2>3 DEF first
  <2>5. first \in 1 .. 5 /\ at + first <= Len(data) /\ Halts(data, at, first)
    BY <1>2, <2>3 DEF MaxGroups
  <2>6. \A j \in 1 .. first - 1 : ~Halts(data, at, j)
    <3> SUFFICES ASSUME NEW j \in 1 .. first - 1 PROVE ~Halts(data, at, j)
      OBVIOUS
    <3>1. j \in 1 .. MaxGroups /\ j <= size /\ ~(first <= j)
      BY <2>5 DEF MaxGroups
    <3> QED
      BY <2>3, <3>1
  <2> QED
    BY <2>4, <2>5, <2>6 DEF FirstHalt, MaxGroups
<1> QED
  BY <1>3, <1>4

\* There is at most one first iteration.
LEMMA FirstHaltUnique ==
    ASSUME NEW data, NEW at, NEW i, NEW j, FirstHalt(data, at, i), FirstHalt(data, at, j)
    PROVE  i = j
<1>1. i \in 1 .. 5 /\ j \in 1 .. 5
  BY DEF FirstHalt, MaxGroups
<1>2. ~(i < j) /\ ~(j < i)
  <2>1. i < j => i \in 1 .. j - 1
    BY <1>1
  <2>2. j < i => j \in 1 .. i - 1
    BY <1>1
  <2> QED
    BY <2>1, <2>2 DEF FirstHalt
<1> QED
  BY <1>1, <1>2

LEMMA DecodeHalts ==
    ASSUME NEW data, NEW at \in Nat, Len(data) \in Nat, NEW i, FirstHalt(data, at, i)
    PROVE  UvarintDecode(data, at) = Answer(data, at, i)
<1>1. i \in 1 .. MaxGroups /\ at + i <= Len(data) /\ Halts(data, at, i)
  BY DEF FirstHalt
<1> QED
  BY <1>1, DecodeWaysOut, FirstHaltUnique

\* A decode call answers with a status, and uses at least one octet when it
\* succeeds, never more than there are (extension.c:73-95).
LEMMA UvarintDecodeType ==
    ASSUME NEW data \in Seq(Octet), NEW at \in 0 .. Len(data)
    PROVE  /\ UvarintDecode(data, at) \in
                 [status : {"OK", "TRUNCATED", "RANGE", "NONCANONICAL"},
                  value : Word, used : 0 .. MaxGroups]
           /\ at + UvarintDecode(data, at).used <= Len(data)
           /\ UvarintDecode(data, at).status = "OK" => UvarintDecode(data, at).used >= 1
<1> DEFINE d == UvarintDecode(data, at)
<1>1. at \in Nat /\ Len(data) \in Nat /\ at <= Len(data) /\ 0 \in Word
  BY UvarintAssumption DEF Word
<1>2. ASSUME NEW i \in 1 .. MaxGroups, FirstHalt(data, at, i), d = Answer(data, at, i)
      PROVE  /\ d \in [status : {"OK", "TRUNCATED", "RANGE", "NONCANONICAL"},
                       value : Word, used : 0 .. MaxGroups]
             /\ at + d.used <= Len(data)
             /\ d.status = "OK" => d.used >= 1
  <2>1. i \in 1 .. 5 /\ at + i <= Len(data)
    BY <1>2 DEF FirstHalt, MaxGroups
  <2>2. Accumulated(data, at, i) \in Word
    BY <1>1, <2>1, AccumulatedType DEF MaxGroups
  <2> QED
    BY <1>1, <1>2, <2>1, <2>2 DEF Answer, Refused, MaxGroups
<1>3. ASSUME d = Refused(OutOfOctets(Len(data) - at))
      PROVE  /\ d \in [status : {"OK", "TRUNCATED", "RANGE", "NONCANONICAL"},
                       value : Word, used : 0 .. MaxGroups]
             /\ at + d.used <= Len(data)
             /\ d.status = "OK" => d.used >= 1
  BY <1>1, <1>3 DEF Refused, OutOfOctets, MaxGroups
<1> QED
  BY <1>1, <1>2, <1>3, DecodeWaysOut

\* An octet is its payload and its continuation mark.
LEMMA OctetParts ==
    ASSUME NEW o \in Octet
    PROVE  o = (o % Group) + (IF More(o) THEN Group ELSE 0)
<1>1. o \in 0 .. 2 * Group - 1 /\ Group \in Nat /\ Group > 1
  BY UvarintAssumption DEF Octet
<1>2. CASE More(o)
  <2>1. o - Group \in 0 .. Group - 1 /\ o = 1 * Group + (o - Group)
    BY <1>1, <1>2 DEF More
  <2>2. o % Group = o - Group
    BY <2>1, Recomposed
  <2> QED
    BY <1>1, <1>2, <2>2
<1>3. CASE ~More(o)
  <2>1. o \in 0 .. Group - 1 /\ o = 0 * Group + o
    BY <1>1, <1>3 DEF More
  <2>2. o % Group = o
    BY <2>1, Recomposed
  <2> QED
    BY <1>1, <1>3, <2>2
<1> QED
  BY <1>2, <1>3

\* A successful call has left the loop at the first octet without a continuation
\* mark, has lost nothing on the way, and has checked the size (extension.c:73-90).
LEMMA DecodedRounds ==
    ASSUME NEW data \in Seq(Octet), NEW at \in 0 .. Len(data),
           UvarintDecode(data, at).status = "OK"
    PROVE  LET d == UvarintDecode(data, at)
           IN  /\ d.used \in 1 .. MaxGroups /\ at + d.used <= Len(data)
               /\ d.value = Accumulated(data, at, d.used) /\ d.value \in Word
               /\ UvarintSize(d.value) = d.used
               /\ \A k \in 1 .. d.used :
                     /\ data[at + k] \in Octet
                     /\ More(data[at + k]) <=> k < d.used
                     /\ Accumulated(data, at, k - 1) \in Nat
                     /\ Accumulated(data, at, k) =
                            Accumulated(data, at, k - 1) * Group + (data[at + k] % Group)
<1> DEFINE d == UvarintDecode(data, at)
           a(k) == Accumulated(data, at, k)
<1>1. at \in Nat /\ Len(data) \in Nat
  OBVIOUS
<1>2. PICK i \in 1 .. MaxGroups : FirstHalt(data, at, i) /\ d = Answer(data, at, i)
  BY <1>1, DecodeWaysOut DEF Refused, OutOfOctets
<1>3. /\ ~Overflows(data, at, i) /\ UvarintSize(a(i)) = i
      /\ d.value = a(i) /\ d.used = i
  BY <1>2 DEF Answer, Refused
<1>4. /\ i \in 1 .. 5 /\ at + i <= Len(data)
      /\ \A j \in 1 .. i - 1 : ~Halts(data, at, j)
      /\ Halts(data, at, i)
  BY <1>2 DEF FirstHalt, MaxGroups
<1> HIDE DEF d
<1>5. a(i) \in Word
  BY <1>1, <1>4, AccumulatedType DEF MaxGroups
<1>6. ASSUME NEW k \in 1 .. i
      PROVE  /\ data[at + k] \in Octet
             /\ More(data[at + k]) <=> k < i
             /\ a(k - 1) \in Nat
             /\ a(k) = a(k - 1) * Group + (data[at + k] % Group)
  <2>1. data[at + k] \in Octet /\ data[at + k] \in Nat
    <3>1. at + k \in 1 .. Len(data)
      BY <1>1, <1>4
    <3> QED
      BY <3>1, UvarintAssumption DEF Octet
  <2>2. a(k - 1) \in Nat
    <3>1. k - 1 \in 0 .. 5 /\ at + (k - 1) <= Len(data)
      BY <1>1, <1>4
    <3> QED
      BY SMTT(30), <1>1, <3>1, AccumulatedType, UvarintAssumption DEF MaxGroups, Word
  <2>3. ~Overflows(data, at, k) /\ (More(data[at + k]) <=> k < i)
    <3>1. CASE k = i
      BY <1>3, <1>4, <3>1 DEF Halts
    <3>2. CASE k # i
      <4>1. k \in 1 .. i - 1 /\ k < i
        BY <1>4, <3>2
      <4>2. ~Halts(data, at, k)
        BY <1>4, <4>1
      <4> QED
        BY <4>1, <4>2 DEF Halts
    <3> QED
      BY <3>1, <3>2
  <2>4. a(k - 1) <= WordMax \div Group
    BY <2>2, <2>3, WordIsWholeGroups DEF Overflows
  <2>5. a(k) = ShiftedIn(a(k - 1), data[at + k])
    <3>1. k \in 1 .. MaxGroups
      BY <1>4 DEF MaxGroups
    <3> QED
      BY <3>1, AccumulatedSteps
  <2> HIDE DEF a
  <2> QED
    BY <2>1, <2>2, <2>3, <2>4, <2>5, ShiftedInExact
<1> QED
  BY <1>3, <1>4, <1>5, <1>6 DEF d, MaxGroups

\* Only encodings decode: the octets of a successful call are those the encoder
\* writes for the value returned.  No padded form and no form of a number above
\* the largest word is accepted (extension.c:75-90).
THEOREM DecodedIsEncoding ==
    ASSUME NEW data \in Seq(Octet), NEW at \in 0 .. Len(data),
           UvarintDecode(data, at).status = "OK"
    PROVE  /\ UvarintDecode(data, at).value \in Word
           /\ UvarintDecode(data, at).used = Len(UvarintEncode(UvarintDecode(data, at).value))
           /\ \A k \in 1 .. UvarintDecode(data, at).used :
                 UvarintEncode(UvarintDecode(data, at).value)[k] = data[at + k]
<1> DEFINE v == UvarintDecode(data, at).value
           i == UvarintDecode(data, at).used
           a(k) == Accumulated(data, at, k)
<1>1. /\ i \in 1 .. 5 /\ v = a(i) /\ v \in Word /\ UvarintSize(v) = i
      /\ \A k \in 1 .. i :
            /\ data[at + k] \in Octet /\ (More(data[at + k]) <=> k < i)
            /\ a(k - 1) \in Nat
            /\ a(k) = a(k - 1) * Group + (data[at + k] % Group)
  BY DecodedRounds DEF MaxGroups
<1> HIDE DEF v, i, a
<1>2. UvarintGroups(v) = i /\ Len(UvarintEncode(v)) = i /\ i \in 1 .. 5
  BY <1>1, SizeIsLength
<1>3. ASSUME NEW k \in 1 .. i
      PROVE  /\ data[at + k] \in Octet
             /\ a(k) \div Group = a(k - 1) /\ a(k) % Group = data[at + k] % Group
  <2>1. /\ data[at + k] \in Octet /\ a(k - 1) \in Nat
        /\ a(k) = a(k - 1) * Group + (data[at + k] % Group)
    BY <1>1
  <2>2. data[at + k] \in Nat
    BY <2>1, UvarintAssumption DEF Octet
  <2>3. data[at + k] % Group \in 0 .. Group - 1
    BY <2>2, Division
  <2> QED
    BY <2>1, <2>3, Recomposed
<1>4. \A m \in 0 .. i - 1 : ShiftedOut(v, m) = a(i - m)
  <2> DEFINE S == {m \in 0 .. i - 1 : ShiftedOut(v, m) = a(i - m)}
  <2>1. v \in Nat
    BY <1>1, UvarintAssumption DEF Word
  <2>2. 0 \in S
    BY <1>1, <1>2, <2>1, ShiftedOutSteps
  <2>3. ASSUME NEW m \in 1 .. i - 1, m - 1 \in S PROVE m \in S
    <3>1. ShiftedOut(v, m) = ShiftedOut(v, m - 1) \div Group
      <4>1. m - 1 \in 0 .. MaxGroups - 2 /\ (m - 1) + 1 = m
        BY <1>2 DEF MaxGroups
      <4> QED
        BY <2>1, <4>1, ShiftedOutSteps
    <3>2. ShiftedOut(v, m - 1) = a(i - (m - 1))
      BY <2>3
    <3>3. i - (m - 1) \in 1 .. i /\ (i - (m - 1)) - 1 = i - m
      BY <1>2
    <3>4. a(i - (m - 1)) \div Group = a(i - m)
      BY <1>3, <3>3
    <3> QED
      BY <1>2, <3>1, <3>2, <3>4
  <2>4. i - 1 \in 0 .. MaxGroups
    BY <1>2 DEF MaxGroups
  <2> HIDE DEF S
  <2>5. 0 .. i - 1 \subseteq S
    BY <2>2, <2>3, <2>4, UpToFive
  <2> QED
    BY <2>5 DEF S
<1>5. ASSUME NEW k \in 1 .. i
      PROVE  UvarintEncode(v)[k] = data[at + k]
  <2>1. i - k \in 0 .. i - 1 /\ i - (i - k) = k
    BY <1>2
  <2>2. ShiftedOut(v, i - k) % Group = data[at + k] % Group
    BY <1>3, <1>4, <2>1
  <2>3. UvarintEncode(v)[k] = (ShiftedOut(v, i - k) % Group) + (IF k < i THEN Group ELSE 0)
    BY ZenonT(40), <1>1, <1>2, EncodedOctets
  <2>4. data[at + k] = (data[at + k] % Group) + (IF More(data[at + k]) THEN Group ELSE 0)
    BY <1>3, OctetParts
  <2>5. More(data[at + k]) <=> k < i
    BY <1>1
  <2> QED
    BY <2>2, <2>3, <2>4, <2>5
<1>6. v \in Word /\ i = Len(UvarintEncode(v))
  BY <1>1, <1>2
<1> QED
  BY <1>5, <1>6 DEF v, i

\* Every encoding decodes, whatever octets follow it: to the word it was made
\* from and to its own length (extension.c:73-90).
THEOREM EncodingIsDecoded ==
    ASSUME NEW v \in Word, NEW data \in Seq(Octet), NEW at \in Nat,
           at + Len(UvarintEncode(v)) <= Len(data),
           \A k \in 1 .. Len(UvarintEncode(v)) : data[at + k] = UvarintEncode(v)[k]
    PROVE  UvarintDecode(data, at) =
               [status |-> "OK", value |-> v, used |-> Len(UvarintEncode(v))]
<1> DEFINE n == UvarintGroups(v)
           s(k) == ShiftedOut(v, k)
           a(k) == Accumulated(data, at, k)
           octet(k) == (s(n - k) % Group) + (IF k < n THEN Group ELSE 0)
<1>1. v \in Nat /\ v <= WordMax /\ WordMax \in Nat /\ Len(data) \in Nat
  BY UvarintAssumption DEF Word
<1>2. n \in 1 .. 5 /\ TakesGroups(v, n) /\ Len(UvarintEncode(v)) = n /\ UvarintSize(v) = n
  BY GroupsAreFirst, SizeIsLength DEF MaxGroups
<1>3. s(n - 1) \div Group = 0
  BY <1>2 DEF TakesGroups
<1>4. \A k \in 1 .. n : data[at + k] = octet(k)
  BY <1>2, EncodedOctets
<1>5. /\ \A k \in 0 .. 3 : s(k + 1) = s(k) \div Group
      /\ \A k \in 0 .. 4 : s(k) \in Nat /\ s(k) <= v
      /\ s(0) = v
  BY <1>1, ShiftedOutSteps DEF MaxGroups
<1>6. at + n <= Len(data)
  BY <1>2
<1> HIDE DEF n, s
<1>7. ASSUME NEW k \in 1 .. n
      PROVE  /\ data[at + k] \in Nat
             /\ data[at + k] % Group = s(n - k) % Group
             /\ More(data[at + k]) <=> k < n
             /\ s(n - k) \in Nat /\ s(n - k) \div Group <= WordMax \div Group
  <2>1. n - k \in 0 .. 4 /\ s(n - k) \in Nat /\ s(n - k) <= WordMax
    <3>1. n - k \in 0 .. 4
      <4>1. n \in 1 .. 5
        BY <1>2
      <4> QED
        BY <4>1
    <3>2. s(n - k) \in Nat /\ s(n - k) <= v
      BY <1>5, <3>1
    <3> QED
      BY <1>1, <3>1, <3>2
  <2>2. s(n - k) \div Group <= WordMax \div Group
    BY <1>1, <2>1, DivisionMonotone
  <2> DEFINE r == s(n - k) % Group
  <2>3. r \in 0 .. Group - 1
    BY <2>1, Division
  <2>4. data[at + k] = r + (IF k < n THEN Group ELSE 0)
    BY <1>4
  <2> HIDE DEF r
  <2>5. CASE k < n
    <3>1. data[at + k] = 1 * Group + r
      BY <2>3, <2>4, <2>5, UvarintAssumption
    <3>2. data[at + k] % Group = r /\ data[at + k] \in Nat
      BY <2>3, <3>1, Recomposed
    <3>3. data[at + k] >= Group
      BY <2>3, <3>1, UvarintAssumption
    <3> QED
      BY <2>1, <2>2, <2>5, <3>2, <3>3 DEF More, r
  <2>6. CASE ~(k < n)
    <3>1. data[at + k] = 0 * Group + r
      BY <2>3, <2>4, <2>6, UvarintAssumption
    <3>2. data[at + k] % Group = r /\ data[at + k] \in Nat
      BY <2>3, <3>1, Recomposed
    <3>3. ~(data[at + k] >= Group)
      BY <2>3, <3>1, UvarintAssumption
    <3> QED
      BY <2>1, <2>2, <2>6, <3>2, <3>3 DEF More, r
  <2> QED
    BY <2>5, <2>6
<1>8. \A k \in 1 .. n : (IF k = 1 THEN 0 ELSE s(n - (k - 1))) = s(n - k) \div Group
  <2> SUFFICES ASSUME NEW k \in 1 .. n
               PROVE  (IF k = 1 THEN 0 ELSE s(n - (k - 1))) = s(n - k) \div Group
    OBVIOUS
  <2>1. CASE k = 1
    BY <1>3, <2>1
  <2>2. CASE k # 1
    <3>1. n - k \in 0 .. 3 /\ (n - k) + 1 = n - (k - 1)
      BY <1>2, <2>2
    <3> QED
      BY <1>5, <2>2, <3>1
  <2> QED
    BY <2>1, <2>2
<1>9. \A k \in 0 .. n : a(k) = IF k = 0 THEN 0 ELSE s(n - k)
  <2> DEFINE S == {k \in 0 .. n : a(k) = IF k = 0 THEN 0 ELSE s(n - k)}
  <2>1. 0 \in S
    BY <1>2, AccumulatedSteps
  <2>2. ASSUME NEW k \in 1 .. n, k - 1 \in S PROVE k \in S
    <3>1. a(k - 1) = IF k = 1 THEN 0 ELSE s(n - (k - 1))
      BY <1>2, <2>2
    <3>2. a(k - 1) = s(n - k) \div Group
      BY <1>8, <3>1
    <3>3. a(k) = ShiftedIn(a(k - 1), data[at + k])
      <4>1. k \in 1 .. MaxGroups
        BY <1>2 DEF MaxGroups
      <4> QED
        BY <4>1, AccumulatedSteps
    <3> HIDE DEF a
    <3>4. a(k) = (s(n - k) \div Group) * Group + (s(n - k) % Group)
      <4>1. s(n - k) \div Group \in Nat
        BY <1>7, Division
      <4> QED
        BY <1>7, <3>2, <3>3, <4>1, ShiftedInExact
    <3>5. a(k) = s(n - k)
      BY <1>7, <3>4, Division
    <3> QED
      BY <1>2, <3>5
  <2>3. n \in 0 .. MaxGroups
    BY <1>2 DEF MaxGroups
  <2> HIDE DEF S
  <2>4. 0 .. n \subseteq S
    BY <2>1, <2>2, <2>3, UpToFive
  <2> QED
    BY <2>4 DEF S
<1>10. \A k \in 1 .. n : ~Overflows(data, at, k)
  <2> SUFFICES ASSUME NEW k \in 1 .. n PROVE ~Overflows(data, at, k)
    OBVIOUS
  <2>1. k - 1 \in 0 .. n
    BY <1>2
  <2>2. a(k - 1) = s(n - k) \div Group
    BY <1>8, <1>9, <2>1
  <2>3. a(k - 1) \in Nat /\ a(k - 1) <= WordMax \div Group
    BY <1>7, <2>2, Division
  <2> QED
    BY <2>3, WordIsWholeGroups DEF Overflows
<1>11. FirstHalt(data, at, n)
  <2>1. \A k \in 1 .. n : Halts(data, at, k) <=> ~(k < n)
    BY <1>7, <1>10 DEF Halts
  <2>2. n \in 1 .. n /\ \A k \in 1 .. n - 1 : k \in 1 .. n /\ k < n
    BY <1>2
  <2> QED
    BY <1>2, <1>6, <2>1, <2>2 DEF FirstHalt, MaxGroups
<1>12. UvarintDecode(data, at) = Answer(data, at, n)
  BY <1>1, <1>11, DecodeHalts
<1>13. a(n) = v
  BY <1>2, <1>5, <1>9
<1>14. n \in 1 .. n
  BY <1>2
<1> QED
  BY <1>2, <1>10, <1>12, <1>13, <1>14 DEF Answer

\* The loop looks at nothing but the octets it takes, so the same octets in
\* another buffer give the same word.
LEMMA SameOctets ==
    ASSUME NEW data, NEW at \in Nat, NEW other, NEW from \in Nat, NEW n \in 0 .. MaxGroups,
           \A k \in 1 .. n : data[at + k] = other[from + k]
    PROVE  /\ \A k \in 0 .. n : Accumulated(data, at, k) = Accumulated(other, from, k)
           /\ \A k \in 1 .. n : Overflows(data, at, k) <=> Overflows(other, from, k)
           /\ \A k \in 1 .. n : Halts(data, at, k) <=> Halts(other, from, k)
<1> DEFINE S == {k \in 0 .. n : Accumulated(data, at, k) = Accumulated(other, from, k)}
<1>1. n \in 0 .. 5
  BY DEF MaxGroups
<1>2. 0 \in S
  BY <1>1, AccumulatedSteps
<1>3. ASSUME NEW k \in 1 .. n, k - 1 \in S PROVE k \in S
  <2>1. k \in 1 .. MaxGroups
    BY <1>1 DEF MaxGroups
  <2>2. Accumulated(data, at, k - 1) = Accumulated(other, from, k - 1)
    BY <1>3
  <2>3. /\ Accumulated(data, at, k) = ShiftedIn(Accumulated(data, at, k - 1), data[at + k])
        /\ Accumulated(other, from, k) =
              ShiftedIn(Accumulated(other, from, k - 1), other[from + k])
    BY <2>1, AccumulatedSteps
  <2> QED
    BY <1>1, <2>2, <2>3
<1> HIDE DEF S
<1>4. 0 .. n \subseteq S
  BY <1>2, <1>3, UpToFive
<1>5. \A k \in 0 .. n : Accumulated(data, at, k) = Accumulated(other, from, k)
  BY <1>4 DEF S
<1>6. \A k \in 1 .. n : Overflows(data, at, k) <=> Overflows(other, from, k)
  <2>1. \A k \in 1 .. n : k - 1 \in 0 .. n
    BY <1>1
  <2> QED
    BY <1>5, <2>1 DEF Overflows
<1> QED
  BY <1>5, <1>6 DEF Halts

\* The octets of a number that was read are the ones the encoder writes for it.
LEMMA DecodedWindow ==
    ASSUME NEW data \in Seq(Octet), NEW at \in 0 .. Len(data),
           UvarintDecode(data, at).status = "OK"
    PROVE  LET d == UvarintDecode(data, at)
           IN  /\ UvarintEncode(d.value) = SubSeq(data, at + 1, at + d.used)
               /\ UvarintEncode(d.value) \in Seq(Octet)
<1> DEFINE v == UvarintDecode(data, at).value
           u == UvarintDecode(data, at).used
           w == SubSeq(data, at + 1, at + u)
<1>1. /\ v \in Word /\ u = Len(UvarintEncode(v))
      /\ \A k \in 1 .. u : UvarintEncode(v)[k] = data[at + k]
  BY DecodedIsEncoding
<1>2. u \in Nat /\ at + u <= Len(data) /\ at \in Nat /\ Len(data) \in Nat
  BY DecodedRounds DEF MaxGroups
<1> HIDE DEF v, u
<1>3. UvarintEncode(v) \in Seq(Octet)
  BY <1>1, EncodedOctets
<1>4. w \in Seq(Octet) /\ Len(w) = u /\ \A k \in 1 .. u : w[k] = data[at + k]
  <2>1. \A k \in at + 1 .. at + u : data[k] \in Octet
    BY <1>2
  <2>2. /\ w \in Seq(Octet)
        /\ Len(w) = IF at + 1 <= at + u THEN (at + u) - (at + 1) + 1 ELSE 0
        /\ \A k \in 1 .. (at + u) - (at + 1) + 1 : w[k] = data[(at + 1) + k - 1]
    <3> DEFINE m == at + 1
               n == at + u
    <3>1. m \in Int /\ n \in Int /\ \A k \in m .. n : data[k] \in Octet
      BY <1>2, <2>1
    <3> HIDE DEF m, n
    <3>2. /\ SubSeq(data, m, n) \in Seq(Octet)
          /\ Len(SubSeq(data, m, n)) = IF m <= n THEN n - m + 1 ELSE 0
          /\ \A k \in 1 .. n - m + 1 : SubSeq(data, m, n)[k] = data[m + k - 1]
      BY <3>1, SubSeqProperties
    <3> QED
      BY <3>2 DEF m, n
  <2>3. /\ (at + u) - (at + 1) + 1 = u
        /\ (IF at + 1 <= at + u THEN u ELSE 0) = u
        /\ \A k \in 1 .. u : (at + 1) + k - 1 = at + k
    BY ONLY <1>2
  <2> HIDE DEF w
  <2>4. Len(w) = u /\ \A k \in 1 .. u : w[k] = data[(at + 1) + k - 1]
    BY ONLY <2>2, <2>3
  <2> QED
    BY ONLY <2>2, <2>3, <2>4
<1> HIDE DEF w
<1>5. UvarintEncode(v) = w
  BY SMTT(30), <1>1, <1>3, <1>4, SeqEqual
<1> QED
  BY <1>3, <1>5 DEF v, u, w

\* Two numbers in a row and as many octets as the second says: what the reader
\* takes for one extension (extension.c:409-443) is what the encoder writes.
ElementIsWindow(data, at, key, afterKey, size, afterSize) ==
    LET end == afterSize + size.value
    IN  /\ UvarintEncode(key.value) \o UvarintEncode(size.value) \o SubSeq(data, afterSize + 1, end)
             = SubSeq(data, at + 1, end)
        /\ SubSeq(data, at + 1, end) \in Seq(Octet)

LEMMA ElementWindow ==
    ASSUME NEW data \in Seq(Octet), NEW at \in 0 .. Len(data),
           NEW key, key = UvarintDecode(data, at), key.status = "OK",
           NEW afterKey, afterKey = at + key.used,
           NEW size, size = UvarintDecode(data, afterKey), size.status = "OK",
           NEW afterSize, afterSize = afterKey + size.used,
           afterSize + size.value <= Len(data)
    PROVE  ElementIsWindow(data, at, key, afterKey, size, afterSize)
<1> DEFINE end == afterSize + size.value
           l == Len(data)
           k == SubSeq(data, at + 1, afterKey)
           s == SubSeq(data, afterKey + 1, afterSize)
           v == SubSeq(data, afterSize + 1, end)
<1>1. at \in Nat /\ l \in Nat /\ at <= l
  OBVIOUS
<1>2. key.used \in Nat /\ at + key.used <= l
  BY DecodedRounds DEF MaxGroups
<1>3. afterKey \in 0 .. l /\ at <= afterKey
  BY <1>1, <1>2
<1>4. size.used \in Nat /\ afterKey + size.used <= l
  BY <1>3, DecodedRounds DEF MaxGroups
<1>5. size.value \in Nat
  BY <1>3, DecodedIsEncoding DEF Word
<1>6. /\ afterKey \in Nat /\ afterSize \in Nat /\ end \in Nat
      /\ afterKey <= afterSize /\ afterSize <= end /\ end <= l
  BY SMTT(30), <1>3, <1>4, <1>5
<1>7. UvarintEncode(key.value) = k
  BY DecodedWindow
<1>8. UvarintEncode(size.value) = s
  BY <1>3, DecodedWindow
<1> HIDE DEF end
<1>9. k \o s = SubSeq(data, at + 1, afterSize)
  <2>1. at + 1 \in 1 .. l + 1 /\ afterKey \in (at + 1) - 1 .. l /\ afterSize \in afterKey .. l
    BY <1>1, <1>3, <1>6
  <2> QED
    BY <2>1, ConcatAdjacentSubSeq
<1>10. SubSeq(data, at + 1, afterSize) \o v = SubSeq(data, at + 1, end)
  <2>1. at + 1 \in 1 .. l + 1 /\ afterSize \in (at + 1) - 1 .. l /\ end \in afterSize .. l
    BY <1>1, <1>3, <1>6
  <2> QED
    BY <2>1, ConcatAdjacentSubSeq
<1>11. SubSeq(data, at + 1, end) \in Seq(Octet)
  <2>1. \A i \in at + 1 .. end : data[i] \in Octet
    BY <1>1, <1>6
  <2> QED
    BY <1>1, <1>6, <2>1, SubSeqProperties
<1> QED
  BY ZenonT(40), <1>7, <1>8, <1>9, <1>10, <1>11 DEF end, ElementIsWindow
=============================================================================
