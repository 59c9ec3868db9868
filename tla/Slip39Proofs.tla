----------------------------- MODULE Slip39Proofs -----------------------------
(* Slip39, proved: whatever the share, one error never makes another share of  *)
(* it.  The induction over the rounds is DurationProofs' UpTo and Stepwise.     *)
EXTENDS Slip39, DurationProofs, FiniteSetTheorems

(* ------------------------------ a word's bits ---------------------------- *)

LEMMA Halves ==
    \A p, q \in Nat : p \div 2 = q \div 2 /\ (p % 2 = 1 <=> q % 2 = 1) => p = q
OBVIOUS

\* A word is told by its bits.
LEMMA BitsTell ==
    ASSUME NEW v \in Words, NEW w \in Words, Bits(v, 10) = Bits(w, 10)
    PROVE  v = w
<1>. v \in 0..1023 /\ w \in 0..1023
    BY DEF Words
<1>1. /\ 2^0 = 1 /\ 2^1 = 2 /\ 2^2 = 4 /\ 2^3 = 8 /\ 2^4 = 16
      /\ 2^5 = 32 /\ 2^6 = 64 /\ 2^7 = 128 /\ 2^8 = 256 /\ 2^9 = 512
    BY PowersOfTwo
<1>2. \A i \in 0..9 : (v \div 2^i) % 2 = 1 <=> (w \div 2^i) % 2 = 1
    <2>1. \A i \in 0..(10 - 1) : i \in Bits(v, 10) <=> (v \div 2^i) % 2 = 1
        BY Zenon DEF Bits
    <2>2. \A i \in 0..(10 - 1) : i \in Bits(w, 10) <=> (w \div 2^i) % 2 = 1
        BY Zenon DEF Bits
    <2>3. 10 - 1 = 9
        OBVIOUS
    <2>. QED BY ONLY <2>1, <2>2, <2>3, Bits(v, 10) = Bits(w, 10), Zenon
<1>3. v \div 1024 = w \div 1024
    BY ONLY v \in 0..1023, w \in 0..1023
<1>4. v \div 512 = w \div 512
    <2>1. (v \div 512) % 2 = 1 <=> (w \div 512) % 2 = 1
        BY ONLY <1>1, <1>2
    <2>2. (v \div 512) \div 2 = v \div 1024 /\ (w \div 512) \div 2 = w \div 1024
          /\ v \div 512 \in Nat /\ w \div 512 \in Nat
        BY ONLY v \in 0..1023, w \in 0..1023
    <2>. QED BY ONLY <1>3, <2>1, <2>2, Halves
<1>5. v \div 256 = w \div 256
    <2>1. (v \div 256) % 2 = 1 <=> (w \div 256) % 2 = 1
        BY ONLY <1>1, <1>2
    <2>2. (v \div 256) \div 2 = v \div 512 /\ (w \div 256) \div 2 = w \div 512
          /\ v \div 256 \in Nat /\ w \div 256 \in Nat
        BY ONLY v \in 0..1023, w \in 0..1023
    <2>. QED BY ONLY <1>4, <2>1, <2>2, Halves
<1>6. v \div 128 = w \div 128
    <2>1. (v \div 128) % 2 = 1 <=> (w \div 128) % 2 = 1
        BY ONLY <1>1, <1>2
    <2>2. (v \div 128) \div 2 = v \div 256 /\ (w \div 128) \div 2 = w \div 256
          /\ v \div 128 \in Nat /\ w \div 128 \in Nat
        BY ONLY v \in 0..1023, w \in 0..1023
    <2>. QED BY ONLY <1>5, <2>1, <2>2, Halves
<1>7. v \div 64 = w \div 64
    <2>1. (v \div 64) % 2 = 1 <=> (w \div 64) % 2 = 1
        BY ONLY <1>1, <1>2
    <2>2. (v \div 64) \div 2 = v \div 128 /\ (w \div 64) \div 2 = w \div 128
          /\ v \div 64 \in Nat /\ w \div 64 \in Nat
        BY ONLY v \in 0..1023, w \in 0..1023
    <2>. QED BY ONLY <1>6, <2>1, <2>2, Halves
<1>8. v \div 32 = w \div 32
    <2>1. (v \div 32) % 2 = 1 <=> (w \div 32) % 2 = 1
        BY ONLY <1>1, <1>2
    <2>2. (v \div 32) \div 2 = v \div 64 /\ (w \div 32) \div 2 = w \div 64
          /\ v \div 32 \in Nat /\ w \div 32 \in Nat
        BY ONLY v \in 0..1023, w \in 0..1023
    <2>. QED BY ONLY <1>7, <2>1, <2>2, Halves
<1>9. v \div 16 = w \div 16
    <2>1. (v \div 16) % 2 = 1 <=> (w \div 16) % 2 = 1
        BY ONLY <1>1, <1>2
    <2>2. (v \div 16) \div 2 = v \div 32 /\ (w \div 16) \div 2 = w \div 32
          /\ v \div 16 \in Nat /\ w \div 16 \in Nat
        BY ONLY v \in 0..1023, w \in 0..1023
    <2>. QED BY ONLY <1>8, <2>1, <2>2, Halves
<1>10. v \div 8 = w \div 8
    <2>1. (v \div 8) % 2 = 1 <=> (w \div 8) % 2 = 1
        BY ONLY <1>1, <1>2
    <2>2. (v \div 8) \div 2 = v \div 16 /\ (w \div 8) \div 2 = w \div 16
          /\ v \div 8 \in Nat /\ w \div 8 \in Nat
        BY ONLY v \in 0..1023, w \in 0..1023
    <2>. QED BY ONLY <1>9, <2>1, <2>2, Halves
<1>11. v \div 4 = w \div 4
    <2>1. (v \div 4) % 2 = 1 <=> (w \div 4) % 2 = 1
        BY ONLY <1>1, <1>2
    <2>2. (v \div 4) \div 2 = v \div 8 /\ (w \div 4) \div 2 = w \div 8
          /\ v \div 4 \in Nat /\ w \div 4 \in Nat
        BY ONLY v \in 0..1023, w \in 0..1023
    <2>. QED BY ONLY <1>10, <2>1, <2>2, Halves
<1>12. v \div 2 = w \div 2
    <2>1. (v \div 2) % 2 = 1 <=> (w \div 2) % 2 = 1
        BY ONLY <1>1, <1>2
    <2>2. (v \div 2) \div 2 = v \div 4 /\ (w \div 2) \div 2 = w \div 4
          /\ v \div 2 \in Nat /\ w \div 2 \in Nat
        BY ONLY v \in 0..1023, w \in 0..1023
    <2>. QED BY ONLY <1>11, <2>1, <2>2, Halves
<1>13. v \div 1 = w \div 1
    <2>1. (v \div 1) % 2 = 1 <=> (w \div 1) % 2 = 1
        BY ONLY <1>1, <1>2
    <2>2. (v \div 1) \div 2 = v \div 2 /\ (w \div 1) \div 2 = w \div 2
          /\ v \div 1 \in Nat /\ w \div 1 \in Nat
        BY ONLY v \in 0..1023, w \in 0..1023
    <2>. QED BY ONLY <1>12, <2>1, <2>2, Halves
<1>. QED BY ONLY <1>13, v \in 0..1023, w \in 0..1023

LEMMA BitsType ==
    ASSUME NEW n, NEW width \in Nat
    PROVE  Bits(n, width) \subseteq 0..(width - 1)
BY DEF Bits

(* ------------------------------- exclusive or ---------------------------- *)

LEMMA XorNothing ==
    ASSUME NEW a, NEW b
    PROVE  Xor(a, b) = {} <=> a = b
BY DEF Xor

LEMMA XorEmpty ==
    ASSUME NEW a, NEW b
    PROVE  /\ Xor(a, b) = {} <=> a = b
           /\ Xor(a, {}) = a /\ Xor({}, a) = a /\ Xor(a, a) = {}
           /\ Xor(a, b) = Xor(b, a)
BY DEF Xor

LEMMA XorWithin ==
    ASSUME NEW S, NEW a \in SUBSET S, NEW b \in SUBSET S
    PROVE  Xor(a, b) \in SUBSET S
BY DEF Xor

LEMMA XorPairs ==
    ASSUME NEW s1, NEW v1, NEW f1, NEW s2, NEW v2, NEW f2
    PROVE  Xor(Xor(Xor(s1, v1), f1), Xor(Xor(s2, v2), f2)) =
               Xor(Xor(Xor(s1, s2), Xor(v1, v2)), Xor(f1, f2))
BY DEF Xor

\* Of two finite sets, an odd number lies in exactly one if just one is odd.
LEMMA Parity ==
    ASSUME NEW A, IsFiniteSet(A), NEW B, IsFiniteSet(B)
    PROVE  Cardinality(Xor(A, B)) % 2 = 1 <=>
               ~ (Cardinality(A) % 2 = 1 <=> Cardinality(B) % 2 = 1)
<1> DEFINE U == A \cup B
           I == A \cap B
<1>1. /\ IsFiniteSet(U)
      /\ Cardinality(U) = Cardinality(A) + Cardinality(B) - Cardinality(I)
    BY FS_Union
<1>2. IsFiniteSet(I)
    BY FS_Intersection
<1>3. Xor(A, B) = U \ I /\ U \cap I = I
    BY DEF Xor
<1>4. Cardinality(U \ I) = Cardinality(U) - Cardinality(U \cap I)
    BY <1>1, FS_Difference
<1>5. Cardinality(A) \in Nat /\ Cardinality(B) \in Nat /\ Cardinality(I) \in Nat
    BY <1>2, FS_CardinalityType
<1>6. Cardinality(Xor(A, B)) = Cardinality(A) + Cardinality(B) - 2 * Cardinality(I)
    <2>1. Cardinality(Xor(A, B)) = Cardinality(U) - Cardinality(I)
        BY <1>3, <1>4
    <2>. HIDE DEF U, I
    <2>. QED BY ONLY <1>1, <1>5, <2>1
<1>. QED
    <2>. HIDE DEF I
    <2>. QED BY ONLY <1>5, <1>6

(* ------------------------------- one round ------------------------------- *)

Checksums == SUBSET (0..29)
LowWords == SUBSET (0..9)

Top(c) == {i \in 0..9 : i + 20 \in c}
Shifted(c) == {i + 10 : i \in {j \in c : j < 20}}

LEMMA RoundIs ==
    ASSUME NEW c, NEW v
    PROVE  Round(c, v) = Xor(Xor(Shifted(c), v), Feedback(Top(c)))
BY Zenon DEF Round, Shifted, Top

LEMMA RoundType ==
    ASSUME NEW c \in Checksums, NEW v \in LowWords
    PROVE  /\ Top(c) \in LowWords
           /\ Shifted(c) \in SUBSET (10..29)
           /\ Feedback(Top(c)) \in Checksums
           /\ Round(c, v) \in Checksums
<1>1. Top(c) \in LowWords
    BY DEF Top, LowWords
<1>2. Shifted(c) \in SUBSET (10..29)
    BY DEF Shifted, Checksums
<1>3. Feedback(Top(c)) \in Checksums
    BY DEF Feedback, Checksums
<1>4. Round(c, v) \in Checksums
    <2>1. Shifted(c) \in Checksums /\ v \in Checksums
        BY <1>2 DEF Checksums, LowWords
    <2>2. Xor(Shifted(c), v) \in Checksums
        BY ONLY <2>1 DEF Checksums, Xor
    <2>3. Xor(Xor(Shifted(c), v), Feedback(Top(c))) \in Checksums
        BY ONLY <1>3, <2>2 DEF Checksums, Xor
    <2>. QED BY <2>3, RoundIs
<1>. QED BY <1>1, <1>2, <1>3, <1>4

\* What is fed back adds up: a generator selected twice is not.
LEMMA FeedbackAdds ==
    ASSUME NEW a \in LowWords, NEW b \in LowWords
    PROVE  Feedback(Xor(a, b)) = Xor(Feedback(a), Feedback(b))
<1> DEFINE On(t, i) == {bit \in t : i \in Generator[bit]}
<1>1. ASSUME NEW i \in 0..29
      PROVE  i \in Feedback(Xor(a, b)) <=> i \in Xor(Feedback(a), Feedback(b))
    <2>1. IsFiniteSet(0..9)
        <3>1. 0 \in Int /\ 9 \in Int
            OBVIOUS
        <3>. QED BY ONLY <3>1, FS_Interval, Zenon
    <2>2. On(a, i) \in SUBSET (0..9) /\ On(b, i) \in SUBSET (0..9)
        BY DEF LowWords
    <2>3. IsFiniteSet(On(a, i)) /\ IsFiniteSet(On(b, i))
        <3>. HIDE DEF On
        <3>. QED BY ONLY <2>1, <2>2, FS_Subset
    <2>4. On(Xor(a, b), i) = Xor(On(a, i), On(b, i))
        BY DEF Xor
    <2>5. \A t : i \in Feedback(t) <=> Cardinality(On(t, i)) % 2 = 1
        BY Zenon DEF Feedback
    <2>. HIDE DEF On
    <2>6. Cardinality(Xor(On(a, i), On(b, i))) % 2 = 1 <=>
              ~ (Cardinality(On(a, i)) % 2 = 1 <=> Cardinality(On(b, i)) % 2 = 1)
        BY ONLY <2>3, Parity
    <2>7. i \in Feedback(Xor(a, b)) <=> ~ (i \in Feedback(a) <=> i \in Feedback(b))
        BY ONLY <2>4, <2>5, <2>6, Zenon
    <2>. QED BY ONLY <2>7, Zenon DEF Xor
<1>2. Feedback(Xor(a, b)) \subseteq 0..29 /\ Xor(Feedback(a), Feedback(b)) \subseteq 0..29
    BY DEF Feedback, Xor
<1>. QED BY ONLY <1>1, <1>2

\* Rounds add up: two checksums differ after a round by what the round makes of
\* their difference.
LEMMA RoundAdds ==
    ASSUME NEW c \in Checksums, NEW e \in Checksums, NEW v \in LowWords, NEW w \in LowWords
    PROVE  Xor(Round(c, v), Round(e, w)) = Round(Xor(c, e), Xor(v, w))
<1>1. Top(Xor(c, e)) = Xor(Top(c), Top(e))
    BY DEF Top, Xor
<1>2. Shifted(Xor(c, e)) = Xor(Shifted(c), Shifted(e))
    <2>1. ASSUME NEW x \in Checksums, NEW k
          PROVE  k \in Shifted(x) <=> k \in 10..29 /\ k - 10 \in x
        BY DEF Shifted, Checksums
    <2>2. Xor(c, e) \in Checksums
        BY DEF Checksums, Xor
    <2>3. ASSUME NEW k
          PROVE  k \in Shifted(Xor(c, e)) <=> k \in Xor(Shifted(c), Shifted(e))
        BY ONLY <2>1, <2>2, c \in Checksums, e \in Checksums, Zenon DEF Xor
    <2>. QED BY ONLY <2>3, Zenon
<1>3. Feedback(Xor(Top(c), Top(e))) = Xor(Feedback(Top(c)), Feedback(Top(e)))
    BY RoundType, FeedbackAdds
<1>4. Round(Xor(c, e), Xor(v, w)) =
          Xor(Xor(Xor(Shifted(c), Shifted(e)), Xor(v, w)),
              Xor(Feedback(Top(c)), Feedback(Top(e))))
    BY ONLY <1>1, <1>2, <1>3, RoundIs, Zenon
<1>5. /\ Round(c, v) = Xor(Xor(Shifted(c), v), Feedback(Top(c)))
      /\ Round(e, w) = Xor(Xor(Shifted(e), w), Feedback(Top(e)))
    BY ONLY RoundIs, Zenon
<1>6. Xor(Xor(Xor(Shifted(c), v), Feedback(Top(c))), Xor(Xor(Shifted(e), w), Feedback(Top(e)))) =
          Xor(Xor(Xor(Shifted(c), Shifted(e)), Xor(v, w)),
              Xor(Feedback(Top(c)), Feedback(Top(e))))
    <2> DEFINE s1 == Shifted(c)
               s2 == Shifted(e)
               f1 == Feedback(Top(c))
               f2 == Feedback(Top(e))
    <2>. HIDE DEF s1, s2, f1, f2
    <2>1. Xor(Xor(Xor(s1, v), f1), Xor(Xor(s2, w), f2)) =
              Xor(Xor(Xor(s1, s2), Xor(v, w)), Xor(f1, f2))
        BY ONLY XorPairs
    <2>. QED BY ONLY <2>1 DEF s1, s2, f1, f2
<1>. QED BY ONLY <1>4, <1>5, <1>6, Zenon

\* No selection feeds nothing back.
LEMMA NoFeedback == Feedback({}) = {}
<1>1. ASSUME NEW i \in 0..29
      PROVE  i \notin Feedback({})
    <2>1. {bit \in {} : i \in Generator[bit]} = {}
        BY Zenon
    <2>2. Cardinality({}) = 0
        BY FS_EmptySet
    <2>3. i \in Feedback({}) => 0 % 2 = 1
        BY ONLY <2>1, <2>2, Zenon DEF Feedback
    <2>. QED BY ONLY <2>3
<1>. QED BY <1>1 DEF Feedback

\* A round that leaves nothing had nothing, so none makes two checksums one.
LEMMA NothingFromNothing ==
    ASSUME NEW c \in Checksums, Round(c, {}) = {}
    PROVE  c = {}
<1>1. {} \in LowWords
    BY DEF LowWords
<1>2. /\ Top(c) \in LowWords /\ Shifted(c) \in SUBSET (10..29)
      /\ Feedback(Top(c)) \in Checksums
    BY <1>1, RoundType
<1>3. Xor(Shifted(c), Feedback(Top(c))) = {}
    BY RoundIs, XorEmpty, Zenon
<1>4. Shifted(c) = Feedback(Top(c))
    BY ONLY <1>3, XorEmpty, Zenon
<1>5. Feedback(Top(c)) \cap 0..9 = {}
    BY <1>2, <1>4
<1>6. Top(c) = {}
    BY <1>2, <1>5, GeneratorIndependent DEF LowWords
<1>7. Shifted(c) = {}
    BY ONLY <1>4, <1>6, NoFeedback, Zenon
<1>8. ASSUME NEW i \in c
      PROVE  FALSE
    <2>1. i \in 0..29
        BY DEF Checksums
    <2>2. CASE i < 20
        BY <2>2, <1>7 DEF Shifted
    <2>3. CASE i >= 20
        <3>1. i - 20 \in 0..9 /\ (i - 20) + 20 = i
            BY <2>1, <2>3
        <3>. QED BY <1>6, <3>1 DEF Top
    <2>. QED BY <2>1, <2>2, <2>3
<1>. QED BY <1>8

\* A round that starts with a low word shifts it and feeds nothing back.
LEMMA RoundOfWord ==
    ASSUME NEW x \in LowWords, NEW v \in LowWords
    PROVE  /\ x \in Checksums
           /\ Round(x, v) \in SUBSET (0..19)
           /\ v # {} => Round(x, v) # {}
           /\ x = {} => Round(x, v) = v
<1>1. x \in Checksums
    BY DEF Checksums, LowWords
<1>2. Top(x) = {}
    BY DEF Top, LowWords
<1>3. Shifted(x) \in SUBSET (10..19)
    BY DEF Shifted, LowWords
<1>4. Round(x, v) = Xor(Shifted(x), v)
    <2>1. Round(x, v) = Xor(Xor(Shifted(x), v), {})
        BY ONLY <1>2, NoFeedback, RoundIs, Zenon
    <2>. QED BY ONLY <2>1, XorEmpty, Zenon
<1>5. Round(x, v) \in SUBSET (0..19)
    <2> DEFINE y == Shifted(x)
               S == 0..19
    <2>1. y \in SUBSET S /\ v \in SUBSET S
        BY <1>3 DEF LowWords
    <2>. HIDE DEF y, S
    <2>2. Xor(y, v) \in SUBSET S
        BY ONLY <2>1 DEF Xor
    <2>. QED BY <1>4, <2>2 DEF y, S
<1>6. v # {} => Round(x, v) # {}
    BY <1>3, <1>4 DEF Xor, LowWords
<1>7. x = {} => Round(x, v) = v
    BY <1>4 DEF Xor, Shifted
<1>. QED BY <1>1, <1>5, <1>6, <1>7

(* ----------------------------- all the rounds ---------------------------- *)

\* f holds the checksum after each of the values.
Computes(f, c, values) ==
    /\ f[0] = c
    /\ \A n \in 1..Len(values) : f[n] = Round(f[n - 1], Bits(values[n], 10))

LEMMA RoundsFollow ==
    ASSUME NEW c \in Checksums, NEW values \in Seq(Words)
    PROVE  \E f \in [0..Len(values) -> Checksums] :
              Computes(f, c, values) /\ Rounds(c, values) = f[Len(values)]
<1> DEFINE N == Len(values)
           Defines(g) ==
               g = [n \in 0..N |-> IF n = 0 THEN c ELSE Round(g[n - 1], Bits(values[n], 10))]
           step == [n \in 1..N |-> [x \in Checksums |-> Round(x, Bits(values[n], 10))]]
<1>1. N \in Nat
    OBVIOUS
<1>2. \A n : Bits(n, 10) \in LowWords
    BY DEF Bits, LowWords
<1>3. ASSUME NEW n \in 1..N, NEW x \in Checksums
      PROVE  Round(x, Bits(values[n], 10)) \in Checksums
    BY ONLY <1>2, x \in Checksums, RoundType, Zenon
<1>4. step \in [1..N -> [Checksums -> Checksums]]
    <2>. HIDE DEF N
    <2>. QED BY <1>3
<1>5. \A n \in 1..N : \A x \in Checksums : step[n][x] = Round(x, Bits(values[n], 10))
    OBVIOUS
<1>6. Rounds(c, values) = (CHOOSE g : Defines(g))[N]
    BY DEF Rounds
<1>. HIDE DEF step, N
<1>7. PICK f \in [0..N -> Checksums] : Follows(f, N, c, step)
    BY ONLY <1>1, <1>4, c \in Checksums, Stepwise
<1>8. \A n \in 1..N : f[n] = Round(f[n - 1], Bits(values[n], 10))
    <2>. TAKE n \in 1..N
    <2>1. f[n - 1] \in Checksums
        <3>1. n - 1 \in 0..N
            BY <1>1
        <3>. QED BY <3>1
    <2>2. f[n] = step[n][f[n - 1]]
        BY ONLY <1>7, n \in 1..N, Zenon DEF Follows
    <2>. QED BY ONLY <1>5, <2>1, <2>2, n \in 1..N, Zenon
<1>9. f[0] = c
    BY ONLY <1>7, Zenon DEF Follows
<1>10. Defines(f)
    <2>1. \A n \in 0..N : n # 0 => n \in 1..N
        BY <1>1
    <2>2. \A n \in 0..N : f[n] = IF n = 0 THEN c ELSE Round(f[n - 1], Bits(values[n], 10))
        BY ONLY <1>8, <1>9, <2>1, Zenon
    <2>. QED BY ONLY <2>2, f \in [0..N -> Checksums]
<1>11. ASSUME NEW g, Defines(g)
       PROVE  g = f
    <2> DEFINE T == {n \in 0..N : g[n] = f[n]}
    <2>1. g = [n \in 0..N |-> g[n]] /\ f = [n \in 0..N |-> f[n]]
        BY ONLY <1>10, <1>11
    <2>2. \A n \in 0..N : g[n] = IF n = 0 THEN c ELSE Round(g[n - 1], Bits(values[n], 10))
        BY ONLY <1>11
    <2>3. 0 \in T
        <3>1. 0 \in 0..N
            BY <1>1
        <3>. QED BY ONLY <1>9, <2>2, <3>1, Zenon
    <2>4. ASSUME NEW n \in 1..N, n - 1 \in T
          PROVE  n \in T
        <3>1. n \in 0..N /\ n # 0
            BY <1>1
        <3>2. g[n] = Round(g[n - 1], Bits(values[n], 10))
            BY ONLY <2>2, <3>1, Zenon
        <3>3. g[n - 1] = f[n - 1]
            BY ONLY <2>4, Zenon
        <3>. QED BY ONLY <1>8, <3>1, <3>2, <3>3, n \in 1..N, Zenon
    <2>5. \A n \in 0..N : n \in T
        <3>. HIDE DEF T
        <3>. QED BY ONLY <1>1, <2>3, <2>4, UpTo
    <2>6. \A n \in 0..N : g[n] = f[n]
        BY ONLY <2>5, Zenon
    <2>. QED BY ONLY <2>1, <2>6
<1>12. (CHOOSE g : Defines(g)) = f
    <2>. HIDE DEF Defines
    <2>. QED BY <1>10, <1>11
<1>. QED BY ONLY <1>6, <1>8, <1>9, <1>12, f \in [0..N -> Checksums], Zenon DEF Computes, N

LEMMA RoundsType ==
    ASSUME NEW c \in Checksums, NEW values \in Seq(Words)
    PROVE  Rounds(c, values) \in Checksums
<1>1. PICK f \in [0..Len(values) -> Checksums] :
          Computes(f, c, values) /\ Rounds(c, values) = f[Len(values)]
    BY RoundsFollow
<1>2. Len(values) \in 0..Len(values)
    OBVIOUS
<1>. QED BY ONLY <1>1, <1>2

LEMMA CustomizationType ==
    Shamir \in Checksums /\ ShamirExtendable \in Checksums
<1>1. Bits(1, 30) \in Checksums
    BY DEF Bits, Checksums
<1>2. <<115, 104, 97, 109, 105, 114>> \in Seq(Words)
    BY DEF Words
<1>3. <<95, 101, 120, 116, 101, 110, 100, 97, 98, 108, 101>> \in Seq(Words)
    BY DEF Words
<1>4. Shamir \in Checksums
    BY ONLY <1>1, <1>2, RoundsType, Zenon DEF Shamir
<1>5. ShamirExtendable \in Checksums
    BY ONLY <1>3, <1>4, RoundsType, Zenon DEF ShamirExtendable
<1>. QED BY <1>4, <1>5

\* How two computations differ that come to the same residue: d is the
\* difference of the checksums, x that of the words.
Meets(d, N, start, x) ==
    /\ d \in [0..N -> Checksums]
    /\ d[0] = start
    /\ \A n \in 1..N : d[n] = Round(d[n - 1], x[n])
    /\ d[N] = {}

Gaps(a, b) == [n \in 1..Len(a) |-> Xor(Bits(a[n], 10), Bits(b[n], 10))]

LEMMA GapsAre ==
    ASSUME NEW a \in Seq(Words), NEW b \in Seq(Words), Len(b) = Len(a)
    PROVE  /\ Gaps(a, b) \in [1..Len(a) -> LowWords]
           /\ \A n \in 1..Len(a) : Gaps(a, b)[n] = {} <=> a[n] = b[n]
<1>1. \A n : Bits(n, 10) \in LowWords
    BY DEF Bits, LowWords
<1>2. \A n \in 1..Len(a) : Xor(Bits(a[n], 10), Bits(b[n], 10)) \in LowWords
    BY <1>1 DEF Xor, LowWords
<1>3. ASSUME NEW n \in 1..Len(a)
      PROVE  Gaps(a, b)[n] = {} <=> a[n] = b[n]
    <2>1. Gaps(a, b)[n] = Xor(Bits(a[n], 10), Bits(b[n], 10))
        BY DEF Gaps
    <2>2. a[n] \in Words /\ b[n] \in Words
        OBVIOUS
    <2>3. Gaps(a, b)[n] = {} <=> Bits(a[n], 10) = Bits(b[n], 10)
        <3> DEFINE p == Bits(a[n], 10)
                   q == Bits(b[n], 10)
        <3>. HIDE DEF p, q
        <3>1. Xor(p, q) = {} <=> p = q
            BY ONLY XorNothing
        <3>. QED BY ONLY <2>1, <3>1 DEF p, q
    <2>. QED BY ONLY <2>2, <2>3, BitsTell, Zenon
<1>. QED BY <1>2, <1>3 DEF Gaps

LEMMA Meeting ==
    ASSUME NEW c \in Checksums, NEW e \in Checksums, NEW a \in Seq(Words), NEW b \in Seq(Words),
           Len(b) = Len(a), Rounds(c, a) = Rounds(e, b)
    PROVE  \E d : Meets(d, Len(a), Xor(c, e), Gaps(a, b))
<1> DEFINE N == Len(a)
<1>1. PICK f \in [0..N -> Checksums] : Computes(f, c, a) /\ Rounds(c, a) = f[N]
    BY RoundsFollow
<1>2. PICK g \in [0..N -> Checksums] : Computes(g, e, b) /\ Rounds(e, b) = g[N]
    BY RoundsFollow
<1>3. N \in Nat
    OBVIOUS
<1> DEFINE d == [n \in 0..N |-> Xor(f[n], g[n])]
<1>4. d \in [0..N -> Checksums]
    <2>1. \A n \in 0..N : Xor(f[n], g[n]) \in Checksums
        BY DEF Xor, Checksums
    <2>. QED BY <2>1
<1>5. d[0] = Xor(c, e)
    BY <1>1, <1>2, <1>3 DEF Computes
<1>6. d[N] = {}
    <2>1. f[N] = g[N]
        BY <1>1, <1>2
    <2>2. d[N] = Xor(f[N], g[N])
        BY <1>3
    <2>. QED BY ONLY <2>1, <2>2, XorNothing, Zenon
<1>7. ASSUME NEW n \in 1..N
      PROVE  d[n] = Round(d[n - 1], Gaps(a, b)[n])
    <2>1. n \in 0..N /\ n - 1 \in 0..N
        BY <1>3
    <2>2. d[n] = Xor(f[n], g[n]) /\ d[n - 1] = Xor(f[n - 1], g[n - 1])
        BY <2>1
    <2>3. f[n] = Round(f[n - 1], Bits(a[n], 10)) /\ g[n] = Round(g[n - 1], Bits(b[n], 10))
        <3>1. n \in 1..Len(a) /\ n \in 1..Len(b)
            OBVIOUS
        <3>. QED BY ONLY <1>1, <1>2, <3>1, Zenon DEF Computes
    <2>4. f[n - 1] \in Checksums /\ g[n - 1] \in Checksums
        BY <2>1
    <2>5. Bits(a[n], 10) \in LowWords /\ Bits(b[n], 10) \in LowWords
        BY DEF Bits, LowWords
    <2>6. Gaps(a, b)[n] = Xor(Bits(a[n], 10), Bits(b[n], 10))
        BY DEF Gaps
    <2>7. Xor(Round(f[n - 1], Bits(a[n], 10)), Round(g[n - 1], Bits(b[n], 10))) =
              Round(Xor(f[n - 1], g[n - 1]), Xor(Bits(a[n], 10), Bits(b[n], 10)))
        BY ONLY <2>4, <2>5, RoundAdds, Zenon
    <2>. QED BY ONLY <2>2, <2>3, <2>6, <2>7, Zenon
<1>. HIDE DEF d
<1>8. Meets(d, N, Xor(c, e), Gaps(a, b))
    BY ONLY <1>4, <1>5, <1>6, <1>7, Zenon DEF Meets
<1>. QED BY ONLY <1>8, Zenon

(* ------------------------- two copies that both hold --------------------- *)

\* What was nothing when the words began to agree stays nothing;
LEMMA HeadKept ==
    ASSUME NEW N \in Nat, NEW x, NEW d, Meets(d, N, {}, x),
           NEW k \in 0..N, \A n \in 1..N : n <= k => x[n] = {}
    PROVE  d[k] = {}
<1> DEFINE T == {n \in 0..N : n <= k => d[n] = {}}
<1>1. 0 \in T
    BY DEF Meets
<1>2. ASSUME NEW n \in 1..N, n - 1 \in T
      PROVE  n \in T
    <2>1. SUFFICES ASSUME n <= k
                   PROVE  d[n] = {}
        OBVIOUS
    <2>2. d[n - 1] = {} /\ x[n] = {}
        BY <1>2, <2>1
    <2>3. d[n] = Round({}, {})
        BY ONLY <2>2, n \in 1..N, Meets(d, N, {}, x), Zenon DEF Meets
    <2>4. {} \in LowWords
        BY DEF LowWords
    <2>. QED BY ONLY <2>3, <2>4, RoundOfWord, Zenon
<1>3. \A n \in 0..N : n \in T
    <2>. HIDE DEF T
    <2>. QED BY ONLY <1>1, <1>2, N \in Nat, UpTo
<1>. QED BY <1>3

\* and what is nothing at the end was nothing when they last differed.
LEMMA TailKept ==
    ASSUME NEW N \in Nat, NEW start, NEW x, NEW d, Meets(d, N, start, x),
           NEW k \in 0..N, \A n \in 1..N : n > k => x[n] = {}
    PROVE  d[k] = {}
<1> DEFINE T == {m \in 0..N : m <= N - k => d[N - m] = {}}
<1>1. 0 \in T
    BY DEF Meets
<1>2. ASSUME NEW m \in 1..N, m - 1 \in T
      PROVE  m \in T
    <2>1. SUFFICES ASSUME m <= N - k
                   PROVE  d[N - m] = {}
        OBVIOUS
    <2> DEFINE n == N - (m - 1)
    <2>2. n \in 1..N /\ n > k /\ n - 1 = N - m /\ n - 1 \in 0..N
        BY <2>1
    <2>3. d[n] = {}
        BY <1>2, <2>1
    <2>. HIDE DEF n
    <2>4. x[n] = {}
        BY <2>2
    <2>5. d[n] = Round(d[n - 1], x[n])
        BY ONLY <2>2, Meets(d, N, start, x), Zenon DEF Meets
    <2>6. d[n - 1] \in Checksums
        BY <2>2 DEF Meets
    <2>7. d[n - 1] = {}
        BY ONLY <2>3, <2>4, <2>5, <2>6, NothingFromNothing
    <2>. QED BY ONLY <2>2, <2>7
<1>3. \A m \in 0..N : m \in T
    <2>. HIDE DEF T
    <2>. QED BY ONLY <1>1, <1>2, N \in Nat, UpTo
<1>4. N - k \in 0..N /\ N - (N - k) = k
    OBVIOUS
<1>5. N - k \in T
    <2>. HIDE DEF T
    <2>. QED BY ONLY <1>3, <1>4
<1>. QED BY <1>4, <1>5

\* A difference and two differing words that come to nothing lie in the words.
LEMMA TwoRounds ==
    ASSUME NEW c \in Checksums, NEW x \in LowWords, NEW y \in LowWords,
           Round(Round(c, x), y) = {}
    PROVE  Round(Round(c, {}), {}) \in SUBSET (0..19)
<1>1. {} \in LowWords /\ {} \in Checksums
    BY DEF LowWords, Checksums
<1>2. Round(c, {}) \in Checksums /\ x \in Checksums
    BY <1>1, RoundType, RoundOfWord
<1>3. /\ Xor(Round(c, {}), Round({}, x)) = Round(Xor(c, {}), Xor({}, x))
      /\ Xor(c, {}) = c /\ Xor({}, x) = x /\ Round({}, x) = x
    <2>1. Xor(Round(c, {}), Round({}, x)) = Round(Xor(c, {}), Xor({}, x))
        BY ONLY <1>1, c \in Checksums, x \in LowWords, RoundAdds, Zenon
    <2>2. Xor(c, {}) = c
        BY ONLY XorEmpty, Zenon
    <2>3. Xor({}, x) = x
        BY ONLY XorEmpty, Zenon
    <2>4. Round({}, x) = x
        BY ONLY <1>1, x \in LowWords, RoundOfWord, Zenon
    <2>. QED BY ONLY <2>1, <2>2, <2>3, <2>4
<1>4. Round(c, x) = Xor(Round(c, {}), x)
    BY ONLY <1>3
<1>5. Xor(Round(Round(c, {}), {}), Round(x, y)) = Round(Xor(Round(c, {}), x), Xor({}, y))
    BY ONLY <1>1, <1>2, y \in LowWords, RoundAdds, Zenon
<1>6. Xor({}, y) = y
    BY ONLY XorEmpty, Zenon
<1>7. Xor(Round(Round(c, {}), {}), Round(x, y)) = {}
    BY ONLY <1>4, <1>5, <1>6, Round(Round(c, x), y) = {}
<1>8. Round(Round(c, {}), {}) = Round(x, y)
    BY ONLY <1>7, XorNothing, Zenon
<1>. QED BY ONLY <1>8, x \in LowWords, y \in LowWords, RoundOfWord

\* The checksum a share starts from.
Customization(share) == IF Extendable(share) THEN ShamirExtendable ELSE Shamir

\* Two shares that differ in two neighbouring words at most do not both hold,
\* whatever the two words are and whether or not the flag is among them.
LEMMA NeighboursCaught ==
    ASSUME NEW a \in Seq(Words), Len(a) = WordCount, ChecksumHolds(a),
           NEW b \in Seq(Words), Len(b) = WordCount, ChecksumHolds(b),
           NEW i \in 1..(WordCount - 1),
           \A n \in 1..WordCount : n # i /\ n # i + 1 => a[n] = b[n]
    PROVE  a = b
<1> DEFINE N == WordCount
           D == Xor(Customization(a), Customization(b))
           G == Xor(Shamir, ShamirExtendable)
           x == Gaps(a, b)
<1>1. Customization(a) \in Checksums /\ Customization(b) \in Checksums
    BY CustomizationType DEF Customization
<1>2. Rounds(Customization(a), a) = Rounds(Customization(b), b)
    BY Zenon DEF ChecksumHolds, Customization
<1>3. PICK d : Meets(d, N, D, x)
    BY ONLY <1>1, <1>2, a \in Seq(Words), b \in Seq(Words), Len(a) = WordCount,
            Len(b) = WordCount, Meeting, Zenon
<1>4. N \in Nat /\ i \in 1..N /\ i + 1 \in 1..N /\ i - 1 \in 0..N /\ i + 1 \in 0..N
      /\ i \in 0..N /\ (i + 1) - 1 = i
    BY ONLY i \in 1..(WordCount - 1) DEF WordCount
<1>5. /\ \A n \in 1..N : x[n] \in LowWords
      /\ \A n \in 1..N : x[n] = {} <=> a[n] = b[n]
    <2>1. Len(b) = Len(a)
        OBVIOUS
    <2>2. x \in [1..Len(a) -> LowWords] /\ \A n \in 1..Len(a) : x[n] = {} <=> a[n] = b[n]
        BY ONLY <2>1, a \in Seq(Words), b \in Seq(Words), GapsAre, Zenon
    <2>. HIDE DEF x
    <2>. QED BY ONLY <2>2, Len(a) = WordCount
<1>6. \A n \in 1..N : n # i /\ n # i + 1 => x[n] = {}
    <2>. HIDE DEF x
    <2>. QED BY ONLY <1>5, \A n \in 1..WordCount : n # i /\ n # i + 1 => a[n] = b[n]
<1>. HIDE DEF x, D, G, N
<1>7. d[i + 1] = {}
    <2>1. \A n \in 1..N : n > i + 1 => x[n] = {}
        BY ONLY <1>4, <1>6
    <2>. QED BY ONLY <1>3, <1>4, <2>1, TailKept
<1>8. /\ d \in [0..N -> Checksums] /\ d[0] = D
      /\ \A n \in 1..N : d[n] = Round(d[n - 1], x[n])
    BY ONLY <1>3, Zenon DEF Meets
<1>9. d[i + 1] = Round(d[i], x[i + 1]) /\ d[i] = Round(d[i - 1], x[i])
    <2>1. d[i + 1] = Round(d[(i + 1) - 1], x[i + 1])
        BY ONLY <1>4, <1>8, Zenon
    <2>. QED BY ONLY <1>4, <1>8, <2>1
<1>10. {} \in LowWords /\ x[i] \in LowWords /\ x[i + 1] \in LowWords
    BY <1>4, <1>5 DEF LowWords
<1>11. CASE Extendable(a) <=> Extendable(b)
    <2>1. D = {}
        <3>1. Customization(a) = Customization(b)
            BY ONLY <1>11, Zenon DEF Customization
        <3>. QED BY ONLY <3>1, XorNothing, Zenon DEF D
    <2>2. d[i - 1] = {}
        <3>1. \A n \in 1..N : n <= i - 1 => x[n] = {}
            BY ONLY <1>4, <1>6
        <3>2. Meets(d, N, {}, x)
            BY ONLY <1>3, <2>1
        <3>. QED BY ONLY <1>4, <3>1, <3>2, HeadKept
    <2>3. d[i] = x[i]
        BY ONLY <1>9, <1>10, <2>2, RoundOfWord
    <2>4. Round(x[i], x[i + 1]) = {}
        BY ONLY <1>7, <1>9, <2>3
    <2>5. x[i + 1] = {}
        BY ONLY <1>10, <2>4, RoundOfWord, Zenon
    <2>6. x[i] = {}
        <3>1. x[i] \in Checksums
            BY ONLY <1>10, RoundOfWord, Zenon
        <3>. QED BY ONLY <2>4, <2>5, <3>1, NothingFromNothing
    <2>7. \A n \in 1..N : a[n] = b[n]
        BY ONLY <1>5, <1>6, <2>5, <2>6
    <2>. QED BY ONLY <2>7, a \in Seq(Words), b \in Seq(Words), Len(a) = WordCount,
                Len(b) = WordCount DEF N
<1>12. CASE ~ (Extendable(a) <=> Extendable(b))
    <2>1. D = G
        <3>1. D = Xor(ShamirExtendable, Shamir) \/ D = Xor(Shamir, ShamirExtendable)
            BY ONLY <1>12, Zenon DEF D, Customization
        <3>2. Xor(ShamirExtendable, Shamir) = Xor(Shamir, ShamirExtendable)
            BY ONLY XorEmpty, Zenon
        <3>. QED BY ONLY <3>1, <3>2, Zenon DEF G
    <2>2. i = 1 \/ i = 2
        <3>1. ~ (a[1] = b[1] /\ a[2] = b[2])
            <4>1. a[1] = b[1] /\ a[2] = b[2] => IdExp(a) = IdExp(b)
                BY DEF IdExp
            <4>. QED BY ONLY <1>12, <4>1, Zenon DEF Extendable
        <3>2. 1 \in 1..WordCount /\ 2 \in 1..WordCount
            BY DEF WordCount
        <3>3. i = 1 \/ i + 1 = 1 \/ i = 2 \/ i + 1 = 2
            BY ONLY <3>1, <3>2, Zenon,
                    \A n \in 1..WordCount : n # i /\ n # i + 1 => a[n] = b[n]
        <3>. QED BY ONLY <1>4, <3>3
    <2>3. /\ ~ (Round(Round(G, {}), {}) \in SUBSET (0..19))
          /\ ~ (Round(Round(Round(G, {}), {}), {}) \in SUBSET (0..19))
        BY ONLY CustomizationsApart, Zenon DEF G
    <2>4. G \in Checksums
        BY ONLY <1>4, <1>8, <2>1
    <2>5. Round(Round(d[i - 1], x[i]), x[i + 1]) = {}
        BY ONLY <1>7, <1>9
    <2>6. CASE i = 1
        <3>1. d[i - 1] = G
            BY ONLY <1>8, <2>1, <2>6
        <3>. QED BY ONLY <1>10, <2>3, <2>4, <2>5, <3>1, TwoRounds
    <2>7. CASE i = 2
        <3>1. d[1] = Round(d[1 - 1], x[1]) /\ x[1] = {}
            BY ONLY <1>4, <1>6, <1>8, <2>7
        <3>2. d[i - 1] = Round(G, {})
            BY ONLY <1>8, <2>1, <2>7, <3>1
        <3>3. Round(G, {}) \in Checksums
            BY ONLY <1>10, <2>4, RoundType, Zenon
        <3>. QED BY ONLY <1>10, <2>3, <2>5, <3>2, <3>3, TwoRounds
    <2>. QED BY ONLY <2>2, <2>6, <2>7
<1>. QED BY ONLY <1>11, <1>12

(* ------------------------------ one error ------------------------------- *)

\* A word left out or written twice shows in the count.
LEMMA CountTells ==
    ASSUME NEW s \in Seq(Words), NEW i \in 1..Len(s)
    PROVE  /\ Len(RemoveAt(s, i)) = Len(s) - 1
           /\ Len(InsertAt(s, i, s[i])) = Len(s) + 1
<1>1. /\ SubSeq(s, 1, i - 1) \in Seq(Words) /\ Len(SubSeq(s, 1, i - 1)) = i - 1
      /\ SubSeq(s, i + 1, Len(s)) \in Seq(Words)
      /\ Len(SubSeq(s, i + 1, Len(s))) = Len(s) - i
      /\ SubSeq(s, i, Len(s)) \in Seq(Words)
      /\ Len(SubSeq(s, i, Len(s))) = Len(s) - i + 1
      /\ <<s[i]>> \in Seq(Words) /\ Len(<<s[i]>>) = 1
    OBVIOUS
<1>2. Len(RemoveAt(s, i)) = (i - 1) + (Len(s) - i)
    <2> DEFINE p == SubSeq(s, 1, i - 1)
               q == SubSeq(s, i + 1, Len(s))
    <2>1. RemoveAt(s, i) = p \o q
        BY DEF RemoveAt
    <2>2. p \in Seq(Words) /\ q \in Seq(Words) /\ Len(p) = i - 1 /\ Len(q) = Len(s) - i
        BY <1>1
    <2>. HIDE DEF p, q
    <2>3. Len(p \o q) = Len(p) + Len(q)
        BY ONLY <2>2, ConcatProperties
    <2>. QED BY ONLY <2>1, <2>2, <2>3
<1>3. Len(InsertAt(s, i, s[i])) = (i - 1) + 1 + (Len(s) - i + 1)
    <2> DEFINE p == SubSeq(s, 1, i - 1)
               r == <<s[i]>>
               q == SubSeq(s, i, Len(s))
    <2>1. InsertAt(s, i, s[i]) = p \o r \o q
        BY DEF InsertAt
    <2>2. /\ p \in Seq(Words) /\ q \in Seq(Words) /\ r \in Seq(Words)
          /\ Len(p) = i - 1 /\ Len(q) = Len(s) - i + 1 /\ Len(r) = 1
        BY <1>1
    <2>. HIDE DEF p, q, r
    <2>3. p \o r \in Seq(Words) /\ Len(p \o r) = Len(p) + Len(r)
        BY ONLY <2>2, ConcatProperties
    <2>4. Len((p \o r) \o q) = Len(p \o r) + Len(q)
        BY ONLY <2>2, <2>3, ConcatProperties
    <2>. QED BY ONLY <2>1, <2>2, <2>3, <2>4
<1>4. i \in Int /\ Len(s) \in Int
    OBVIOUS
<1>. QED BY ONLY <1>2, <1>3, <1>4

\* A copy with the right count that differs in two neighbouring words at most.
Neighbours(a, b) ==
    /\ b \in Seq(Words) /\ Len(b) = Len(a)
    /\ \E i \in 1..(WordCount - 1) :
          \A n \in 1..WordCount : n # i /\ n # i + 1 => a[n] = b[n]

\* An error leaves the wrong count, or touches two neighbours at most.
LEMMA OneErrorNear ==
    ASSUME words \in Seq(Words), Len(words) = WordCount, ShareNext
    PROVE  Neighbours(words, words') \/ Len(words') # WordCount
<1>. WordCount \in Nat /\ WordCount = 33
    BY DEF WordCount
<1>1. ASSUME NEW i \in 1..Len(words), NEW w \in WrongWords, Misread(i, w)
      PROVE  Neighbours(words, words')
    <2>1. words' = [words EXCEPT ![i] = w] /\ w \in Words
        BY <1>1, ShareAssumption DEF Misread, Changed, ReplaceAt
    <2>2. words' \in Seq(Words) /\ Len(words') = Len(words)
          /\ \A n \in 1..WordCount : n # i => words[n] = words'[n]
        BY ONLY <2>1, words \in Seq(Words), Len(words) = WordCount, i \in 1..Len(words),
                ExceptSeq
    <2>3. CASE i = 33
        <3>1. 32 \in 1..(WordCount - 1)
              /\ \A n \in 1..WordCount : n # 32 /\ n # 32 + 1 => words[n] = words'[n]
            BY ONLY <2>2, <2>3, WordCount = 33
        <3>. QED BY ONLY <2>2, <3>1 DEF Neighbours
    <2>4. CASE i # 33
        <3>1. i \in 1..(WordCount - 1)
            BY ONLY <2>4, WordCount = 33, Len(words) = WordCount, i \in 1..Len(words)
        <3>2. \A n \in 1..WordCount : n # i /\ n # i + 1 => words[n] = words'[n]
            BY ONLY <2>2, Zenon
        <3>. QED BY ONLY <2>2, <3>1, <3>2, Zenon DEF Neighbours
    <2>. QED BY ONLY <2>3, <2>4
<1>2. ASSUME NEW i \in 1..(Len(words) - 1), Exchange(i)
      PROVE  Neighbours(words, words')
    <2>1. words' = [words EXCEPT ![i] = words[i + 1], ![i + 1] = words[i]]
        BY <1>2 DEF Exchange, Changed
    <2>2. /\ i \in 1..Len(words) /\ i + 1 \in 1..Len(words)
          /\ words[i] \in Words /\ words[i + 1] \in Words
        <3>1. i \in 1..Len(words) /\ i + 1 \in 1..Len(words)
            BY ONLY Len(words) = WordCount, WordCount = 33, i \in 1..(Len(words) - 1)
        <3>. QED BY ONLY <3>1, words \in Seq(Words), ElementOfSeq
    <2>3. words' \in Seq(Words) /\ Len(words') = Len(words)
          /\ \A n \in 1..WordCount : n # i /\ n # i + 1 => words[n] = words'[n]
        <3> DEFINE m == [words EXCEPT ![i] = words[i + 1]]
        <3>1. /\ m \in Seq(Words) /\ Len(m) = Len(words)
              /\ \A n \in 1..Len(words) : n # i => m[n] = words[n]
            BY ONLY <2>2, words \in Seq(Words), ExceptSeq
        <3>2. words' = [m EXCEPT ![i + 1] = words[i]]
            BY <2>1
        <3>. HIDE DEF m
        <3>3. i + 1 \in 1..Len(m)
            BY ONLY <2>2, <3>1
        <3>4. /\ words' \in Seq(Words) /\ Len(words') = Len(m)
              /\ \A n \in 1..Len(m) : n # i + 1 => words'[n] = m[n]
            BY ONLY <2>2, <3>1, <3>2, <3>3, ExceptSeq
        <3>. QED BY ONLY <3>1, <3>4, Len(words) = WordCount
    <2>4. i \in 1..(WordCount - 1)
        BY ONLY Len(words) = WordCount, i \in 1..(Len(words) - 1)
    <2>. QED BY ONLY <2>3, <2>4, Zenon DEF Neighbours
<1>3. ASSUME NEW i \in 1..Len(words), Drop(i) \/ Repeat(i)
      PROVE  Len(words') # WordCount
    <2>1. words' = RemoveAt(words, i) \/ words' = InsertAt(words, i, words[i])
        BY <1>3 DEF Drop, Repeat, Changed
    <2>2. Len(words') = WordCount - 1 \/ Len(words') = WordCount + 1
        BY <2>1, CountTells
    <2>3. WordCount - 1 # WordCount /\ WordCount + 1 # WordCount
        BY DEF WordCount
    <2>. QED BY ONLY <2>2, <2>3, Zenon
<1>. QED BY ONLY <1>1, <1>2, <1>3, ShareNext, Zenon DEF ShareNext

\* What is known of the copy while at most one error was made.
CopyInv ==
    /\ vector \in Vectors
    /\ errors \in Nat
    /\ errors = 0 => words = vector.words
    /\ errors = 1 /\ WellFormed(vector.words) /\ words # vector.words => ~WellFormed(words)

LEMMA CopyKept ==
    ASSUME CopyInv, [ShareNext]_shareVars
    PROVE  CopyInv'
<1>1. CASE UNCHANGED shareVars
    <2>1. vector' = vector /\ words' = words /\ errors' = errors
        BY <1>1 DEF shareVars
    <2>. QED BY <2>1 DEF CopyInv
<1>2. CASE ShareNext
    <2>1. vector' = vector /\ errors' = errors + 1
        BY <1>2 DEF ShareNext, Misread, Exchange, Drop, Repeat, Changed
    <2>2. vector' \in Vectors /\ errors' \in Nat /\ errors' # 0
        BY <2>1 DEF CopyInv
    <2>3. ASSUME errors' = 1, WellFormed(vector.words), words' # vector.words,
                 WellFormed(words')
          PROVE  FALSE
        <3>1. words = vector.words /\ words \in Seq(Words)
            BY <2>1, <2>3, ShareAssumption DEF CopyInv
        <3>2. /\ Len(words) = WordCount /\ ChecksumHolds(words)
              /\ Len(words') = WordCount /\ ChecksumHolds(words')
            BY ONLY <2>3, <3>1, Zenon DEF WellFormed
        <3>3. Neighbours(words, words')
            BY ONLY <1>2, <3>1, <3>2, OneErrorNear
        <3>4. words = words'
            BY ONLY <3>1, <3>2, <3>3, NeighboursCaught, Zenon DEF Neighbours
        <3>. QED BY ONLY <2>3, <3>1, <3>4
    <2>4. (errors = 1 /\ WellFormed(vector.words) /\ words # vector.words => ~WellFormed(words))'
        BY ONLY <2>1, <2>3
    <2>. QED BY <2>2, <2>4 DEF CopyInv
<1>. QED BY <1>1, <1>2

\* Any valid share, with any one of its words misread, any two neighbours
\* exchanged, or a word left out or written twice, is refused as malformed: the
\* checksum `decode` compares never makes another share of it, also when the error
\* flips the flag that picks the customization.
THEOREM OneErrorIsCaught ==
    ShareSpec =>
        [](errors <= 1 /\ WellFormed(vector.words) /\ words # vector.words
              => Validate(words) = "malformed")
<1>1. ShareInit => CopyInv
    BY DEF ShareInit, CopyInv
<1>2. CopyInv /\ [ShareNext]_shareVars => CopyInv'
    BY CopyKept
<1>3. CopyInv => (errors <= 1 /\ WellFormed(vector.words) /\ words # vector.words
                     => Validate(words) = "malformed")
    <2>1. CopyInv /\ errors <= 1 => errors = 0 \/ errors = 1
        BY DEF CopyInv
    <2>2. ~WellFormed(words) => Validate(words) = "malformed"
        BY Zenon DEF Validate
    <2>. QED BY ONLY <2>1, <2>2, Zenon DEF CopyInv
<1>. QED BY <1>1, <1>2, <1>3, PTL DEF ShareSpec

=============================================================================
