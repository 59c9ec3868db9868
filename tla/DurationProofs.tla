--------------------------- MODULE DurationProofs ---------------------------
(* Duration, proved: the client reads every text as the trustee reads its      *)
(* ASCII spelling, and the trustee no other spelling, whatever the length of   *)
(* the text and however many digits a component may have.                      *)
(*                                                                             *)
(* Between the two stands a lenient reader: the trustee's cuts, with a digit   *)
(* of any script for a digit.  It reads every text as the client does (Alike), *)
(* and as the trustee reads its ASCII spelling (DurationSpelled).              *)
EXTENDS Duration, SequenceTheorems, WellFoundedInduction, TLAPS

(* ------------------------- induction by a least case --------------------- *)

\* Every nonempty set of naturals has a least element: an induction is made by
\* looking at the least case that fails.
LEMMA LeastNat ==
    ASSUME NEW T \in SUBSET Nat, T # {}
    PROVE  \E n \in T : \A m \in T : n <= m
<1> DEFINE R == OpToRel(<, Nat)
<1>1. \E n \in T : \A m \in T : ~ (<<m, n>> \in R)
    <2>1. T \subseteq Nat
        OBVIOUS
    <2>. QED BY ONLY <2>1, T # {}, NatLessThanWellFounded, WFMin
<1>2. \A m, n \in Nat : m < n => <<m, n>> \in R
    BY DEF OpToRel
<1>. HIDE DEF R
<1>3. PICK n \in T : \A m \in T : ~ (<<m, n>> \in R)
    BY <1>1
<1>4. ASSUME NEW m \in T
      PROVE  n <= m
    <2>1. m \in Nat /\ n \in Nat
        OBVIOUS
    <2>2. ~ (m < n)
        BY <1>2, <1>3, <2>1
    <2>. QED BY <2>1, <2>2
<1>. QED BY <1>4

\* A set with 0 that holds with every number the next one, up to N.
LEMMA UpTo ==
    ASSUME NEW N \in Nat, NEW T, 0 \in T, \A n \in 1..N : n - 1 \in T => n \in T
    PROVE  \A n \in 0..N : n \in T
<1> DEFINE Others == {n \in 0..N : n \notin T}
<1>1. Others \in SUBSET Nat /\ \A n \in 0..N : n \notin T => n \in Others
    OBVIOUS
<1>. SUFFICES ASSUME Others # {}
              PROVE  FALSE
    BY <1>1
<1>2. PICK n \in Others : \A m \in Others : n <= m
    <2>. HIDE DEF Others
    <2>. QED BY ONLY <1>1, Others # {}, LeastNat
<1>3. n \in 0..N /\ n \notin T
    OBVIOUS
<1>4. n \in 1..N
    BY <1>3
<1>5. n - 1 \in 0..N /\ n - 1 \notin Others
    BY <1>2, <1>4
<1>6. n - 1 \in T
    BY <1>5
<1>. QED BY <1>3, <1>4, <1>6

\* f starts at base and makes the steps 1..N.
Follows(f, N, base, step) ==
    /\ f[0] = base
    /\ \A n \in 1..N : f[n] = step[n][f[n - 1]]

\* A function on 0..N that is defined by steps exists, and keeps to the set the
\* steps keep to.
LEMMA Stepwise ==
    ASSUME NEW N \in Nat, NEW S, NEW base \in S, NEW step \in [1..N -> [S -> S]]
    PROVE  \E f \in [0..N -> S] : Follows(f, N, base, step)
<1>. USE DEF Follows
<1> DEFINE Reaches(n, f) == f[0] = base /\ \A i \in 1..n : f[i] = step[i][f[i - 1]]
           T == {n \in 0..N : \E f \in [0..n -> S] : Reaches(n, f)}
<1>1. 0 \in T
    <2>1. [i \in 0..0 |-> base] \in [0..0 -> S] /\ Reaches(0, [i \in 0..0 |-> base])
        OBVIOUS
    <2>. HIDE DEF Reaches
    <2>2. \E f \in [0..0 -> S] : Reaches(0, f)
        BY <2>1
    <2>. QED BY <2>2
<1>2. ASSUME NEW n \in 1..N, n - 1 \in T
      PROVE  n \in T
    <2>1. n \in 0..N /\ n - 1 \in 0..N /\ n \in Nat
        OBVIOUS
    <2>2. PICK g \in [0..(n - 1) -> S] : Reaches(n - 1, g)
        BY <1>2
    <2> DEFINE f == [i \in 0..n |-> IF i = n THEN step[n][g[n - 1]] ELSE g[i]]
    <2>3. step[n][g[n - 1]] \in S
        <3>1. g[n - 1] \in S
            BY <2>1
        <3>2. step[n] \in [S -> S]
            OBVIOUS
        <3>. QED BY <3>1, <3>2
    <2>4. f \in [0..n -> S]
        <3>1. \A i \in 0..n : i # n => g[i] \in S
            BY <2>1
        <3>. QED BY <2>3, <3>1
    <2>5. f[0] = base
        BY <2>1, <2>2
    <2>6. ASSUME NEW i \in 1..n
          PROVE  f[i] = step[i][f[i - 1]]
        <3>1. CASE i = n
            BY <3>1, <2>1
        <3>2. CASE i # n
            <4>1. i \in 1..(n - 1) /\ i - 1 \in 0..(n - 1) /\ i - 1 # n
                BY <3>2, <2>1
            <4>2. g[i] = step[i][g[i - 1]]
                BY <4>1, <2>2
            <4>. QED BY <4>1, <4>2, <3>2, <2>1
        <3>. QED BY <3>1, <3>2
    <2>. QED BY <2>1, <2>4, <2>5, <2>6
<1>3. \A n \in 0..N : n \in T
    <2>. HIDE DEF T
    <2>. QED BY ONLY <1>1, <1>2, N \in Nat, UpTo
<1>. QED BY <1>3

(* ------------------------------ numbers ---------------------------------- *)

\* What a run of digits spells is reached digit by digit.
Spells(f, digits) ==
    /\ f[0] = 0
    /\ \A n \in 1..Len(digits) : f[n] = 10 * f[n - 1] + DigitValue[digits[n]]

LEMMA NumberIs ==
    ASSUME NEW digits \in Seq(Digits)
    PROVE  \E f \in [0..Len(digits) -> Int] :
               Spells(f, digits) /\ Number(digits) = f[Len(digits)]
<1> DEFINE N == Len(digits)
           Defines(f) ==
               f = [n \in 0..N |-> IF n = 0 THEN 0 ELSE 10 * f[n - 1] + DigitValue[digits[n]]]
           step == [n \in 1..N |-> [x \in Int |-> 10 * x + DigitValue[digits[n]]]]
<1>1. N \in Nat /\ \A n \in 1..N : digits[n] \in Digits
    OBVIOUS
<1>2. \A c \in Digits : DigitValue[c] \in Int
    BY DEF Digits, DigitValue
<1>3. step \in [1..N -> [Int -> Int]]
    BY <1>1, <1>2
<1>4. \A n \in 1..N : \A x \in Int : step[n][x] = 10 * x + DigitValue[digits[n]]
    OBVIOUS
<1>5. Number(digits) = (CHOOSE g : Defines(g))[N]
    BY DEF Number
<1>. HIDE DEF step, N
<1>6. PICK f \in [0..N -> Int] : Follows(f, N, 0, step)
    <2> DEFINE Z == Int
               zero == 0
    <2>1. zero \in Z /\ N \in Nat /\ step \in [1..N -> [Z -> Z]]
        BY <1>1, <1>3
    <2>2. \E f \in [0..N -> Z] : Follows(f, N, zero, step)
        <3>. HIDE DEF Z, zero
        <3>. QED BY ONLY <2>1, Stepwise
    <2>. QED BY <2>2
<1>7. \A n \in 1..N : f[n] = 10 * f[n - 1] + DigitValue[digits[n]]
    <2>. TAKE n \in 1..N
    <2>1. f[n - 1] \in Int
        BY <1>1
    <2>. QED BY <2>1, <1>4, <1>6 DEF Follows
<1>8. Defines(f)
    BY <1>6, <1>7 DEF Follows
<1>9. ASSUME NEW g, Defines(g)
      PROVE  g = f
    <2> DEFINE T == {n \in 0..N : g[n] = f[n]}
    <2>1. 0 \in T
        BY <1>1, <1>6, <1>9 DEF Follows
    <2>2. ASSUME NEW n \in 1..N, n - 1 \in T
          PROVE  n \in T
        <3>1. n \in 0..N /\ n # 0
            BY <1>1
        <3>2. g[n] = 10 * g[n - 1] + DigitValue[digits[n]]
            BY <3>1, <1>9
        <3>. QED BY <3>1, <3>2, <2>2, <1>7
    <2>3. \A n \in 0..N : n \in T
        <3>. HIDE DEF T
        <3>1. N \in Nat
            BY <1>1
        <3>. QED BY ONLY <2>1, <2>2, <3>1, UpTo
    <2>. QED BY <2>3, <1>9, <1>8
<1>10. (CHOOSE g : Defines(g)) = f
    <2>. HIDE DEF Defines
    <2>. QED BY <1>8, <1>9
<1>11. Spells(f, digits) /\ f \in [0..Len(digits) -> Int]
    BY <1>6, <1>7 DEF Follows, Spells, N
<1>12. Number(digits) = f[Len(digits)]
    BY ONLY <1>5, <1>10 DEF N
<1>. QED BY ONLY <1>11, <1>12

\* A run of digits spells an integer.
LEMMA NumberType ==
    ASSUME NEW digits \in Seq(Digits)
    PROVE  Number(digits) \in Int
<1>1. PICK f \in [0..Len(digits) -> Int] : Number(digits) = f[Len(digits)]
    BY NumberIs
<1>. QED BY <1>1

(* ---------------------------- cutting a text ----------------------------- *)

\* `Place` is 0 exactly where there is no such character, and else the first place.
LEMMA PlaceIs ==
    ASSUME NEW S, NEW p \in Seq(S), NEW c
    PROVE  /\ (\A i \in 1..Len(p) : p[i] # c) => Place(p, c) = 0
           /\ \A k \in 1..Len(p) :
                (p[k] = c /\ \A i \in 1..(k - 1) : p[i] # c) => Place(p, c) = k
<1> DEFINE I == {i \in 1..Len(p) : p[i] = c}
<1>1. Place(p, c) = IF I # {} THEN Min(I) ELSE 0
    BY DEF Place, SelectInSeq
<1>2. (\A i \in 1..Len(p) : p[i] # c) => I = {}
    OBVIOUS
<1>3. ASSUME NEW k \in 1..Len(p), p[k] = c, \A i \in 1..(k - 1) : p[i] # c
      PROVE  Place(p, c) = k
    <2>1. k \in I /\ \A y \in I : k <= y
        BY <1>3
    <2>2. \A x \in I : (\A y \in I : x <= y) => x = k
        BY <2>1
    <2>3. Min(I) = k
        BY <2>1, <2>2 DEF Min
    <2>. QED BY <1>1, <2>1, <2>3
<1>. QED BY <1>1, <1>2, <1>3

\* Where there is such a character, `Place` is in the text and none comes before.
LEMMA PlaceFound ==
    ASSUME NEW S, NEW p \in Seq(S), NEW c, Place(p, c) # 0
    PROVE  /\ Place(p, c) \in 1..Len(p)
           /\ p[Place(p, c)] = c
           /\ \A i \in 1..(Place(p, c) - 1) : p[i] # c
<1> DEFINE I == {i \in 1..Len(p) : p[i] = c}
<1>1. I # {}
    BY PlaceIs
<1>2. PICK k \in I : \A m \in I : k <= m
    <2>1. I \in SUBSET Nat
        OBVIOUS
    <2>. HIDE DEF I
    <2>. QED BY ONLY <1>1, <2>1, LeastNat
<1>3. k \in 1..Len(p) /\ p[k] = c
    OBVIOUS
<1>4. \A i \in 1..(k - 1) : p[i] # c
    <2>. TAKE i \in 1..(k - 1)
    <2>1. i \in 1..Len(p) /\ i < k
        BY <1>3
    <2>. QED BY <2>1, <1>2
<1>5. Place(p, c) = k
    BY <1>3, <1>4, PlaceIs
<1>. QED BY <1>3, <1>4, <1>5

\* A character between two texts.
LEMMA Joined ==
    ASSUME NEW S, NEW a \in Seq(S), NEW c \in S, NEW b \in Seq(S)
    PROVE  /\ a \o <<c>> \o b \in Seq(S)
           /\ Len(a \o <<c>> \o b) = Len(a) + 1 + Len(b)
           /\ \A i \in 1..Len(a) : (a \o <<c>> \o b)[i] = a[i]
           /\ (a \o <<c>> \o b)[Len(a) + 1] = c
           /\ \A i \in 1..Len(b) : (a \o <<c>> \o b)[Len(a) + 1 + i] = b[i]
OBVIOUS

\* Cutting a text at the only place that could be the first.
LEMMA Cutting ==
    ASSUME NEW S, NEW a \in Seq(S), NEW c \in S, NEW b \in Seq(S),
           \A i \in 1..Len(a) : a[i] # c
    PROVE  /\ Place(a \o <<c>> \o b, c) = Len(a) + 1
           /\ Before(a \o <<c>> \o b, Len(a) + 1) = a
           /\ After(a \o <<c>> \o b, Len(a) + 1) = b
<1> DEFINE p == a \o <<c>> \o b
<1>1. /\ p \in Seq(S)
      /\ Len(p) = Len(a) + 1 + Len(b)
      /\ \A i \in 1..Len(a) : p[i] = a[i]
      /\ p[Len(a) + 1] = c
      /\ \A i \in 1..Len(b) : p[Len(a) + 1 + i] = b[i]
    BY Joined
<1>2. Len(a) \in Nat /\ Len(b) \in Nat
    OBVIOUS
<1>. HIDE DEF p
<1>3. Place(p, c) = Len(a) + 1
    <2>1. Len(a) + 1 \in 1..Len(p)
        BY <1>1, <1>2
    <2>2. \A i \in 1..((Len(a) + 1) - 1) : p[i] # c
        BY <1>1, <1>2
    <2>. QED BY <1>1, <2>1, <2>2, PlaceIs
<1>4. Before(p, Len(a) + 1) = a
    <2>1. Before(p, Len(a) + 1) = SubSeq(p, 1, Len(a))
        BY <1>2 DEF Before
    <2>2. \A i \in 1..Len(a) : p[i] \in S
        BY <1>1
    <2>3. /\ SubSeq(p, 1, Len(a)) \in Seq(S)
          /\ Len(SubSeq(p, 1, Len(a))) = Len(a)
          /\ \A i \in 1..Len(a) : SubSeq(p, 1, Len(a))[i] = a[i]
        BY <1>1, <1>2, <2>2, SubSeqProperties
    <2>. QED BY <2>1, <2>3, SeqEqual
<1>5. After(p, Len(a) + 1) = b
    <2>1. After(p, Len(a) + 1) = SubSeq(p, Len(a) + 2, Len(p))
        BY <1>2 DEF After
    <2>2. \A i \in (Len(a) + 2)..Len(p) : p[i] \in S
        BY <1>1, <1>2
    <2>3. /\ SubSeq(p, Len(a) + 2, Len(p)) \in Seq(S)
          /\ Len(SubSeq(p, Len(a) + 2, Len(p))) = Len(b)
          /\ \A i \in 1..Len(b) : SubSeq(p, Len(a) + 2, Len(p))[i] = b[i]
        BY <1>1, <1>2, <2>2, SubSeqProperties
    <2>. QED BY <2>1, <2>3, SeqEqual
<1>. QED BY <1>3, <1>4, <1>5 DEF p

\* The parts on both sides of the first place make the text.
LEMMA Parts ==
    ASSUME NEW S, NEW p \in Seq(S), NEW c \in S, Place(p, c) # 0
    PROVE  /\ Before(p, Place(p, c)) \in Seq(S)
           /\ After(p, Place(p, c)) \in Seq(S)
           /\ p = Before(p, Place(p, c)) \o <<c>> \o After(p, Place(p, c))
<1> DEFINE k == Place(p, c)
<1>1. k \in 1..Len(p) /\ p[k] = c
    BY PlaceFound
<1>2. Len(p) \in Nat /\ \A i \in 1..Len(p) : p[i] \in S
    OBVIOUS
<1>. HIDE DEF k
<1>3. /\ Before(p, k) \in Seq(S)
      /\ Len(Before(p, k)) = k - 1
      /\ \A i \in 1..(k - 1) : Before(p, k)[i] = p[i]
    <2>1. \A i \in 1..(k - 1) : p[i] \in S
        BY <1>1, <1>2
    <2>. QED BY <1>1, <1>2, <2>1, SubSeqProperties DEF Before
<1>4. /\ After(p, k) \in Seq(S)
      /\ Len(After(p, k)) = Len(p) - k
      /\ \A i \in 1..(Len(p) - k) : After(p, k)[i] = p[k + i]
    <2>1. \A i \in (k + 1)..Len(p) : p[i] \in S
        BY <1>1, <1>2
    <2>. QED BY <1>1, <1>2, <2>1, SubSeqProperties DEF After
<1> DEFINE a == Before(p, k)
           b == After(p, k)
           q == a \o <<c>> \o b
<1>. HIDE DEF a, b
<1>5. /\ q \in Seq(S)
      /\ Len(q) = Len(p)
      /\ \A i \in 1..Len(p) : q[i] = p[i]
    <2>1. a \in Seq(S) /\ Len(a) = k - 1 /\ \A i \in 1..(k - 1) : a[i] = p[i]
        BY <1>3 DEF a
    <2>2. b \in Seq(S) /\ Len(b) = Len(p) - k /\ \A i \in 1..(Len(p) - k) : b[i] = p[k + i]
        BY <1>4 DEF b
    <2>3. /\ q \in Seq(S)
          /\ Len(q) = Len(a) + 1 + Len(b)
          /\ \A i \in 1..Len(a) : q[i] = a[i]
          /\ q[Len(a) + 1] = c
          /\ \A i \in 1..Len(b) : q[Len(a) + 1 + i] = b[i]
        <3>1. a \in Seq(S) /\ b \in Seq(S) /\ c \in S
            BY <2>1, <2>2
        <3>. QED BY ONLY <3>1, Joined
    <2>. HIDE DEF q
    <2>4. ASSUME NEW i \in 1..Len(p)
          PROVE  q[i] = p[i]
        <3>1. CASE i < k
            <4>1. i \in 1..Len(a) /\ i \in 1..(k - 1)
                BY <3>1, <2>1, <1>1, <1>2
            <4>. QED BY <4>1, <2>1, <2>3
        <3>2. CASE i = k
            BY <3>2, <2>1, <2>3, <1>1, <1>2
        <3>3. CASE i > k
            <4>1. i - k \in 1..Len(b) /\ i - k \in 1..(Len(p) - k)
                BY <3>3, <2>2, <1>1, <1>2
            <4>2. q[Len(a) + 1 + (i - k)] = b[i - k] /\ b[i - k] = p[k + (i - k)]
                BY <4>1, <2>2, <2>3
            <4>3. Len(a) + 1 + (i - k) = i /\ k + (i - k) = i
                BY <2>1, <1>1, <1>2
            <4>. QED BY <4>2, <4>3
        <3>. QED BY <3>1, <3>2, <3>3, <1>1, <1>2
    <2>. QED BY <2>1, <2>2, <2>3, <2>4, <1>1, <1>2
<1>6. q = p
    BY <1>5, SeqEqual
<1>. QED BY <1>3, <1>4, <1>6 DEF a, b, k

(* --------------------------- the lenient reader -------------------------- *)

\* The trustee's reader, were every digit of any script a digit to it.
LenientNumber(digits) ==
    /\ Len(digits) \in 1..MaxDigits
    /\ \A i \in 1..Len(digits) : digits[i] \in Digits

LenientCut(read, unit) ==
    LET i == Place(read.part, unit)
        digits == Before(read.part, i)
    IN  IF i = 0 THEN read
        ELSE IF ~LenientNumber(digits) THEN [read EXCEPT !.ok = FALSE]
        ELSE [ok         |-> read.ok,
              seconds    |-> read.seconds + Number(digits) * Scale[unit],
              components |-> read.components + 1,
              part       |-> After(read.part, i)]

LenientDuration(x) ==
    LET split == Split(Tail(x))
        fresh == [ok |-> split.ok, seconds |-> 0, components |-> 0, part |-> split.date]
        date == AllRead(LenientCut(fresh, "D"))
        time == AllRead(LenientCut(LenientCut(LenientCut([date EXCEPT !.part = split.time],
                                                         "H"), "M"), "S"))
    IN  IF x = <<>> \/ Head(x) # "P" THEN Invalid
        ELSE IF time.ok /\ time.components > 0 THEN time.seconds
        ELSE Invalid

\* A lenient cut, by what stands before the unit.
LEMMA LenientCases ==
    ASSUME NEW read, NEW u, NEW a, a = Before(read.part, Place(read.part, u))
    PROVE  /\ Place(read.part, u) = 0 => LenientCut(read, u) = read
           /\ Place(read.part, u) # 0 /\ ~LenientNumber(a) =>
                  LenientCut(read, u) = [read EXCEPT !.ok = FALSE]
           /\ Place(read.part, u) # 0 /\ LenientNumber(a) =>
                  LenientCut(read, u) = [ok |-> read.ok,
                                    seconds |-> read.seconds + Number(a) * Scale[u],
                                    components |-> read.components + 1,
                                    part |-> After(read.part, Place(read.part, u))]
<1>1. ASSUME Place(read.part, u) = 0
      PROVE  LenientCut(read, u) = read
    BY ONLY <1>1, Zenon DEF LenientCut
<1>2. ASSUME Place(read.part, u) # 0, ~LenientNumber(a)
      PROVE  LenientCut(read, u) = [read EXCEPT !.ok = FALSE]
    <2>1. ~LenientNumber(Before(read.part, Place(read.part, u)))
        BY ONLY <1>2, a = Before(read.part, Place(read.part, u)), Zenon
    <2>. QED BY ONLY <1>2, <2>1, Zenon DEF LenientCut
<1>3. ASSUME Place(read.part, u) # 0, LenientNumber(a)
      PROVE  LenientCut(read, u) = [ok |-> read.ok,
                               seconds |-> read.seconds + Number(a) * Scale[u],
                               components |-> read.components + 1,
                               part |-> After(read.part, Place(read.part, u))]
    <2>1. LenientNumber(Before(read.part, Place(read.part, u)))
        BY ONLY <1>3, a = Before(read.part, Place(read.part, u)), Zenon
    <2>. QED BY ONLY <1>3, <2>1, a = Before(read.part, Place(read.part, u)), Zenon DEF LenientCut
<1>. QED BY ONLY <1>1, <1>2, <1>3, Zenon

(* ------------------------------- groups ---------------------------------- *)

Units == {"D", "H", "M", "S"}

\* The number a group's text stands for.
Worth(g) == IF g = <<>> THEN 0 ELSE Number(SubSeq(g, 1, Len(g) - 1))

\* The characters a text is made of, and the letters that end a group.
LEMMA Alphabet ==
    /\ Units \subseteq Characters /\ Digits \subseteq Characters
    /\ "P" \in Characters /\ "T" \in Characters
    /\ "P" \notin Units \cup Digits /\ "T" \notin Units \cup Digits
    /\ Units \cap Digits = {} /\ "P" # "T"
    /\ \A u \in Units : Scale[u] \in Int
    /\ Scale["D"] = 86400 /\ Scale["H"] = 3600 /\ Scale["M"] = 60 /\ Scale["S"] = 1
BY DEF Units, Characters, Digits, DigitValue, Scale

\* A group is empty, or digits and the unit.
LEMMA GroupIs ==
    ASSUME NEW u \in Units, NEW g \in Group(u)
    PROVE  \/ g = <<>>
           \/ \E digits \in Seq(Digits) : LenientNumber(digits) /\ g = digits \o <<u>>
<1>. SUFFICES ASSUME g # <<>>
              PROVE  \E digits \in Seq(Digits) : LenientNumber(digits) /\ g = digits \o <<u>>
    OBVIOUS
<1>1. PICK n \in 1..MaxDigits : \E digits \in [1..n -> Digits] : g = digits \o <<u>>
    BY DEF Group
<1>2. PICK digits \in [1..n -> Digits] : g = digits \o <<u>>
    BY <1>1
<1>3. n \in Nat /\ digits \in Seq(Digits) /\ Len(digits) = n
    BY DurationAssumption
<1>4. LenientNumber(digits)
    BY <1>3 DEF LenientNumber
<1>. QED BY <1>2, <1>3, <1>4

LEMMA GroupFrom ==
    ASSUME NEW u \in Units, NEW digits \in Seq(Characters), LenientNumber(digits)
    PROVE  digits \in Seq(Digits) /\ digits \o <<u>> \in Group(u)
<1>1. Len(digits) \in 1..MaxDigits /\ digits \in [1..Len(digits) -> Digits]
    BY DEF LenientNumber
<1>2. digits \in Seq(Digits)
    BY <1>1
<1>3. digits \in UNION {[1..n -> Digits] : n \in 1..MaxDigits}
    BY <1>1
<1>. QED BY <1>2, <1>3 DEF Group

\* A group that is not empty is worth the number its digits spell.
LEMMA WorthIs ==
    ASSUME NEW u \in Units, NEW digits \in Seq(Digits)
    PROVE  /\ digits \o <<u>> # <<>>
           /\ Worth(digits \o <<u>>) = Number(digits)
<1> DEFINE g == digits \o <<u>>
<1>1. digits \in Seq(Characters) /\ Len(digits) \in Nat
    BY Alphabet, SeqMonotonic
<1>2. /\ g \in Seq(Characters)
      /\ Len(g) = Len(digits) + 1
      /\ \A i \in 1..Len(digits) : g[i] = digits[i]
    BY <1>1, Alphabet
<1>. HIDE DEF g
<1>3. \A i \in 1..(Len(g) - 1) : g[i] \in Characters
    BY <1>1, <1>2
<1>4. /\ SubSeq(g, 1, Len(g) - 1) \in Seq(Characters)
      /\ Len(SubSeq(g, 1, Len(g) - 1)) = Len(digits)
      /\ \A i \in 1..Len(digits) : SubSeq(g, 1, Len(g) - 1)[i] = digits[i]
    BY <1>1, <1>2, <1>3, SubSeqProperties
<1>5. SubSeq(g, 1, Len(g) - 1) = digits
    BY <1>1, <1>4, SeqEqual
<1>6. g # <<>>
    BY <1>1, <1>2
<1>7. Worth(g) = Number(digits)
    BY <1>5, <1>6 DEF Worth
<1>. QED BY <1>6, <1>7 DEF g

\* What is in a group.
LEMMA InGroup ==
    ASSUME NEW u \in Units, NEW g \in Group(u)
    PROVE  /\ g \in Seq(Characters)
           /\ g # <<>> => Len(g) > 0 /\ g[Len(g)] = u
           /\ \A i \in 1..(Len(g) - 1) : g[i] \in Digits
           /\ \A i \in 1..Len(g) : g[i] \in Digits \cup {u}
           /\ Worth(g) \in Int
<1>1. CASE g = <<>>
    BY <1>1 DEF Worth
<1>2. CASE g # <<>>
    <2>1. PICK digits \in Seq(Digits) : LenientNumber(digits) /\ g = digits \o <<u>>
        BY <1>2, GroupIs
    <2>2. digits \in Seq(Characters) /\ <<u>> \in Seq(Characters)
        BY Alphabet, SeqMonotonic
    <2>3. /\ g \in Seq(Characters)
          /\ Len(g) = Len(digits) + 1
          /\ \A i \in 1..Len(digits) : g[i] = digits[i]
          /\ g[Len(g)] = u
        BY <2>1, <2>2
    <2>4. Len(digits) \in Nat /\ \A i \in 1..Len(digits) : digits[i] \in Digits
        OBVIOUS
    <2>6. Worth(g) \in Int
        BY <2>1, WorthIs, NumberType
    <2>. QED BY <2>3, <2>4, <2>6
<1>. QED BY <1>1, <1>2

(* ----------------------------- one cut ----------------------------------- *)

Reading == [ok : BOOLEAN, seconds : Int, components : Int, part : Seq(Characters)]

\* What one group adds to the components.
One(g) == IF g = <<>> THEN 0 ELSE 1

\* A reading in which nothing was refused so far.
Fine == TRUE
Made(seconds, components, part) ==
    [ok |-> Fine, seconds |-> seconds, components |-> components, part |-> part]

LEMMA MadeIs ==
    ASSUME NEW seconds \in Int, NEW components \in Int,
           NEW part \in Seq(Characters)
    PROVE  Made(seconds, components, part) \in Reading
BY DEF Made, Reading, Fine

\* A cut, by what stands before the unit.
LEMMA CutIs ==
    ASSUME NEW u \in Units, NEW read \in Reading
    PROVE  \/ Place(read.part, u) = 0 /\ LenientCut(read, u) = read
           \/ \E a, b \in Seq(Characters) :
                 /\ a = Before(read.part, Place(read.part, u))
                 /\ b = After(read.part, Place(read.part, u))
                 /\ read.part = a \o <<u>> \o b
                 /\ ~LenientNumber(a) => LenientCut(read, u) = [read EXCEPT !.ok = FALSE]
                 /\ LenientNumber(a) =>
                       LenientCut(read, u) = [ok |-> read.ok,
                                       seconds |-> read.seconds + Number(a) * Scale[u],
                                       components |-> read.components + 1, part |-> b]
<1>1. CASE Place(read.part, u) = 0
    BY ONLY <1>1, LenientCases, Zenon
<1>2. CASE Place(read.part, u) # 0
    <2> DEFINE p == read.part
               a == Before(p, Place(p, u))
               b == After(p, Place(p, u))
    <2>1. p \in Seq(Characters)
        BY DEF Reading
    <2>2. u \in Characters
        BY Alphabet
    <2>3. Place(p, u) # 0
        BY <1>2
    <2>4. ~LenientNumber(a) => LenientCut(read, u) = [read EXCEPT !.ok = FALSE]
        BY ONLY <2>3, LenientCases, Zenon
    <2>5. LenientNumber(a) => LenientCut(read, u) = [ok |-> read.ok,
                                         seconds |-> read.seconds + Number(a) * Scale[u],
                                         components |-> read.components + 1, part |-> b]
        BY ONLY <2>3, LenientCases, Zenon
    <2>6. a \in Seq(Characters) /\ b \in Seq(Characters) /\ p = a \o <<u>> \o b
        <3>. HIDE DEF p
        <3>. QED BY ONLY <2>1, <2>2, <2>3, Parts
    <2>. QED BY <2>4, <2>5, <2>6
<1>. QED BY <1>1, <1>2

\* What a cut leaves is a reading again.
LEMMA CutType ==
    ASSUME NEW u \in Units, NEW read \in Reading
    PROVE  LenientCut(read, u) \in Reading
<1>1. CASE Place(read.part, u) = 0 /\ LenientCut(read, u) = read
    BY <1>1
<1>2. ASSUME NEW a \in Seq(Characters), NEW b \in Seq(Characters), ~LenientNumber(a),
             LenientCut(read, u) = [read EXCEPT !.ok = FALSE]
      PROVE  LenientCut(read, u) \in Reading
    BY <1>2 DEF Reading
<1>3. ASSUME NEW a \in Seq(Characters), NEW b \in Seq(Characters), LenientNumber(a),
             LenientCut(read, u) = [ok |-> read.ok, seconds |-> read.seconds + Number(a) * Scale[u],
                             components |-> read.components + 1, part |-> b]
      PROVE  LenientCut(read, u) \in Reading
    <2>1. Number(a) \in Int /\ Scale[u] \in Int
        <3>1. a \in Seq(Digits)
            BY ONLY <1>3, u \in Units, GroupFrom
        <3>2. Number(a) \in Int
            BY ONLY <3>1, NumberType
        <3>. QED BY <3>2, Alphabet
    <2>2. Number(a) * Scale[u] \in Int
        BY <2>1
    <2>3. read.ok \in BOOLEAN /\ read.seconds \in Int /\ read.components \in Int
        BY DEF Reading
    <2>4. read.seconds + Number(a) * Scale[u] \in Int /\ read.components + 1 \in Int
        BY <2>2, <2>3
    <2>. QED BY <1>3, <2>3, <2>4 DEF Reading
<1>. QED BY <1>1, <1>2, <1>3, CutIs

\* A cut that is not refused took a group off, empty or not.
LEMMA CutBack ==
    ASSUME NEW u \in Units, NEW read \in Reading, LenientCut(read, u).ok
    PROVE  /\ read.ok
           /\ \E g \in Group(u) :
                 /\ read.part = g \o LenientCut(read, u).part
                 /\ LenientCut(read, u).components = read.components + One(g)
<1>. read.part \in Seq(Characters) /\ read.components \in Int
    BY DEF Reading
<1>1. CASE Place(read.part, u) = 0 /\ LenientCut(read, u) = read
    <2>1. <<>> \in Group(u) /\ One(<<>>) = 0
        BY DEF Group, One
    <2>2. read.part = <<>> \o read.part /\ read.components = read.components + 0
        OBVIOUS
    <2>. QED BY <1>1, <2>1, <2>2
<1>2. ASSUME NEW a \in Seq(Characters), NEW b \in Seq(Characters), ~LenientNumber(a),
             LenientCut(read, u) = [read EXCEPT !.ok = FALSE]
      PROVE  FALSE
    BY <1>2 DEF Reading
<1>3. ASSUME NEW a \in Seq(Characters), NEW b \in Seq(Characters), LenientNumber(a),
             read.part = a \o <<u>> \o b,
             LenientCut(read, u) = [ok |-> read.ok, seconds |-> read.seconds + Number(a) * Scale[u],
                             components |-> read.components + 1, part |-> b]
      PROVE  /\ read.ok
             /\ \E g \in Group(u) :
                   /\ read.part = g \o LenientCut(read, u).part
                   /\ LenientCut(read, u).components = read.components + One(g)
    <2>1. a \o <<u>> \in Group(u)
        BY <1>3, GroupFrom
    <2>2. One(a \o <<u>>) = 1
        <3>1. Len(a \o <<u>>) = Len(a) + 1 /\ Len(a) \in Nat
            BY Alphabet
        <3>2. a \o <<u>> # <<>>
            BY <3>1
        <3>. QED BY <3>2 DEF One
    <2>3. /\ LenientCut(read, u).ok = read.ok
          /\ LenientCut(read, u).part = b
          /\ LenientCut(read, u).components = read.components + 1
        <3> DEFINE seconds == read.seconds + Number(a) * Scale[u]
        <3>1. LenientCut(read, u) = [ok |-> read.ok, seconds |-> seconds,
                              components |-> read.components + 1, part |-> b]
            BY <1>3
        <3>. HIDE DEF seconds
        <3>. QED BY ONLY <3>1
    <2>. QED BY <1>3, <2>1, <2>2, <2>3
<1>. QED BY <1>1, <1>2, <1>3, CutIs

\* A lenient cut takes a group off the text that starts with it.
LEMMA CutGroup ==
    ASSUME NEW u \in Units, NEW g \in Group(u), NEW rest \in Seq(Characters),
           NEW seconds \in Int, NEW components \in Int,
           \A i \in 1..Len(rest) : rest[i] # u
    PROVE  LenientCut(Made(seconds, components, g \o rest), u) =
               Made(seconds + Worth(g) * Scale[u], components + One(g), rest)
<1> DEFINE read == Made(seconds, components, g \o rest)
<1>1. Scale[u] \in Int /\ u \in Characters /\ u \notin Digits
    BY Alphabet
<1>2. /\ read \in Reading /\ read.ok = Fine /\ read.seconds = seconds
      /\ read.components = components /\ read.part = g \o rest
    <2>1. g \o rest \in Seq(Characters)
        BY InGroup
    <2>2. Made(seconds, components, g \o rest) \in Reading
        BY <2>1, MadeIs
    <2>. QED BY <2>2 DEF Made
<1>. HIDE DEF read
<1>3. CASE g = <<>>
    <2>1. g \o rest = rest
        BY <1>3
    <2>2. Place(read.part, u) = 0
        BY <1>2, <2>1, PlaceIs
    <2>3. LenientCut(read, u) = read
        BY ONLY <2>2, LenientCases, Zenon
    <2>4. Worth(g) = 0 /\ One(g) = 0
        BY <1>3 DEF Worth, One
    <2>5. seconds + Worth(g) * Scale[u] = seconds /\ components + One(g) = components
        BY <1>1, <2>4
    <2>. QED BY <2>1, <2>3, <2>5 DEF read
<1>4. CASE g # <<>>
    <2>1. PICK digits \in Seq(Digits) : LenientNumber(digits) /\ g = digits \o <<u>>
        BY <1>4, GroupIs
    <2>2. digits \in Seq(Characters)
        BY Alphabet, SeqMonotonic
    <2>3. \A i \in 1..Len(digits) : digits[i] # u
        BY <1>1
    <2>4. read.part = digits \o <<u>> \o rest
        BY <1>2, <2>1
    <2>5. /\ Place(digits \o <<u>> \o rest, u) = Len(digits) + 1
          /\ Before(digits \o <<u>> \o rest, Len(digits) + 1) = digits
          /\ After(digits \o <<u>> \o rest, Len(digits) + 1) = rest
        BY <1>1, <2>2, <2>3, Cutting
    <2>6. Len(digits) \in Nat
        OBVIOUS
    <2>7. Worth(g) = Number(digits)
        BY <2>1, WorthIs
    <2>8. Place(read.part, u) # 0
        BY <2>4, <2>5, <2>6
    <2>9. /\ Before(read.part, Place(read.part, u)) = digits
          /\ After(read.part, Place(read.part, u)) = rest
        BY <2>4, <2>5
    <2>10. LenientCut(read, u) = [ok |-> read.ok, seconds |-> read.seconds + Number(digits) * Scale[u],
                           components |-> read.components + 1, part |-> rest]
        BY ONLY <1>2, <2>1, <2>8, <2>9, u \in Units, CutIs
    <2>11. LenientCut(read, u) = [ok |-> Fine, seconds |-> seconds + Number(digits) * Scale[u],
                           components |-> components + 1, part |-> rest]
        BY ONLY <1>2, <2>10
    <2>12. One(g) = 1
        BY <1>4 DEF One
    <2>. QED BY ONLY <2>7, <2>11, <2>12 DEF Made, read
<1>. QED BY <1>3, <1>4 DEF read

(* ---------------------------- date and time ------------------------------ *)

\* The two turns of the outer loop.
DateRead(ok, date) ==
    AllRead(LenientCut([ok |-> ok, seconds |-> 0, components |-> 0, part |-> date], "D"))
TimeRead(read, time) ==
    AllRead(LenientCut(LenientCut(LenientCut([read EXCEPT !.part = time], "H"), "M"), "S"))

\* No unit stands in another unit's group.
LEMMA Apart ==
    ASSUME NEW u \in Units, NEW v \in Units, u # v, NEW g \in Group(v)
    PROVE  \A i \in 1..Len(g) : g[i] # u
BY Alphabet, InGroup

\* Nothing is left over of a reading that took everything.
LEMMA AllTaken ==
    ASSUME NEW seconds, NEW components
    PROVE  AllRead(Made(seconds, components, <<>>)) = Made(seconds, components, <<>>)
<1> DEFINE read == Made(seconds, components, <<>>)
<1>1. read = [ok |-> Fine, seconds |-> seconds, components |-> components, part |-> <<>>]
    BY DEF Made
<1>2. (read.ok /\ read.part = <<>>) = Fine
    BY <1>1 DEF Fine
<1>. HIDE DEF read
<1>3. [read EXCEPT !.ok = Fine] = read
    BY <1>1
<1>. QED BY <1>2, <1>3 DEF AllRead, read

\* Texts, and how they are put together.
Texts == Seq(Characters)

LEMMA Join == \A a, b \in Texts : a \o b \in Texts
BY DEF Texts

Regrouped(a, b, c) == (a \o b) \o c = a \o (b \o c)

LEMMA Regroup == \A a, b, c \in Texts : Regrouped(a, b, c)
BY DEF Texts, Regrouped

\* What is added up stays an integer.
LEMMA Sums == /\ \A a, b, c \in Int : a + b * c \in Int
              /\ \A a, b \in Int : a + b \in Int
OBVIOUS

\* What is written as groups is read as their numbers: the date ...
LEMMA DateForward ==
    ASSUME NEW d \in Group("D")
    PROVE  DateRead(Fine, d) = Made(Worth(d) * Scale["D"], One(d), <<>>)
<1>1. d \in Seq(Characters) /\ Worth(d) \in Int /\ One(d) \in Int /\ "D" \in Units
    BY InGroup DEF Units, One
<1>2. d = d \o <<>> /\ <<>> \in Seq(Characters) /\ \A i \in 1..Len(<<>>) : <<>>[i] # "D"
    BY <1>1
<1>3. 0 \in Int
    OBVIOUS
<1>4. LenientCut(Made(0, 0, d \o <<>>), "D") = Made(0 + Worth(d) * Scale["D"], 0 + One(d), <<>>)
    BY ONLY <1>1, <1>2, <1>3, d \in Group("D"), CutGroup
<1>5. 0 + Worth(d) * Scale["D"] = Worth(d) * Scale["D"] /\ 0 + One(d) = One(d)
    <2>1. Scale["D"] \in Int
        BY <1>1, Alphabet
    <2>. QED BY ONLY <1>1, <2>1
<1>6. AllRead(Made(Worth(d) * Scale["D"], One(d), <<>>)) = Made(Worth(d) * Scale["D"], One(d), <<>>)
    BY ONLY AllTaken, Zenon
<1>7. DateRead(Fine, d) = AllRead(LenientCut(Made(0, 0, d), "D"))
    BY DEF DateRead, Made
<1>. QED BY ONLY <1>2, <1>4, <1>5, <1>6, <1>7, Zenon

\* ... and the time.
LEMMA TimeForward ==
    ASSUME NEW s0 \in Int, NEW c0 \in Int, NEW part,
           NEW h \in Group("H"), NEW m \in Group("M"), NEW s \in Group("S")
    PROVE  TimeRead(Made(s0, c0, part), h \o m \o s) =
               Made(s0 + Worth(h) * Scale["H"] + Worth(m) * Scale["M"] + Worth(s) * Scale["S"],
                    c0 + One(h) + One(m) + One(s), <<>>)
<1> DEFINE s1 == s0 + Worth(h) * Scale["H"]
           s2 == s1 + Worth(m) * Scale["M"]
           s3 == s2 + Worth(s) * Scale["S"]
           c1 == c0 + One(h)
           c2 == c1 + One(m)
           c3 == c2 + One(s)
<1>1. /\ h \in Seq(Characters) /\ m \in Seq(Characters) /\ s \in Seq(Characters)
      /\ Worth(h) \in Int /\ Worth(m) \in Int /\ Worth(s) \in Int
    BY InGroup DEF Units
<1>2. One(h) \in Int /\ One(m) \in Int /\ One(s) \in Int
    BY DEF One
<1>3. "H" \in Units /\ "M" \in Units /\ "S" \in Units
    BY DEF Units
<1>4. Scale["H"] \in Int /\ Scale["M"] \in Int /\ Scale["S"] \in Int
    BY <1>3, Alphabet
<1>5. s1 \in Int /\ s2 \in Int /\ s3 \in Int /\ c1 \in Int /\ c2 \in Int /\ c3 \in Int
    <2>1. s1 \in Int /\ c1 \in Int
        BY ONLY s0 \in Int, c0 \in Int, <1>1, <1>2, <1>4, Sums, Zenon
    <2>2. s2 \in Int /\ c2 \in Int
        <3>. HIDE DEF s1, c1
        <3>. QED BY ONLY <1>1, <1>2, <1>4, <2>1, Sums, Zenon
    <2>3. s3 \in Int /\ c3 \in Int
        <3>. HIDE DEF s2, c2
        <3>. QED BY ONLY <1>1, <1>2, <1>4, <2>2, Sums, Zenon
    <2>. QED BY ONLY <2>1, <2>2, <2>3
<1>6. h \o (m \o s) = h \o m \o s /\ m \o s \in Seq(Characters) /\ <<>> \in Seq(Characters)
    <2>1. h \o (m \o s) = h \o m \o s
        <3>1. h \in Texts /\ m \in Texts /\ s \in Texts
            BY <1>1 DEF Texts
        <3>. QED BY ONLY <3>1, Regroup, Zenon DEF Regrouped
    <2>2. m \o s \in Seq(Characters)
        BY ONLY <1>1
    <2>. QED BY <2>1, <2>2
<1>. HIDE DEF s1, s2, s3, c1, c2, c3
<1>8. LenientCut(Made(s0, c0, h \o m \o s), "H") = Made(s1, c1, m \o s)
    <2>1. \A i \in 1..Len(m \o s) : (m \o s)[i] # "H"
        <3>1. (\A i \in 1..Len(m) : m[i] # "H") /\ (\A i \in 1..Len(s) : s[i] # "H")
            BY Apart DEF Units
        <3>. QED BY <3>1, <1>1
    <2>2. LenientCut(Made(s0, c0, h \o (m \o s)), "H") =
              Made(s0 + Worth(h) * Scale["H"], c0 + One(h), m \o s)
        BY ONLY <1>3, s0 \in Int, c0 \in Int, <1>6, <2>1, h \in Group("H"), CutGroup
    <2>. QED BY ONLY <1>6, <2>2 DEF c1, s1
<1>9. LenientCut(Made(s1, c1, m \o s), "M") = Made(s2, c2, s)
    <2>1. \A i \in 1..Len(s) : s[i] # "M"
        BY Apart DEF Units
    <2>2. LenientCut(Made(s1, c1, m \o s), "M") =
              Made(s1 + Worth(m) * Scale["M"], c1 + One(m), s)
        <3>1. "M" \in Units /\ s \in Seq(Characters) /\ s1 \in Int /\ c1 \in Int
            BY <1>1, <1>3, <1>5
        <3>. QED BY ONLY <2>1, <3>1, m \in Group("M"), CutGroup
    <2>. QED BY ONLY <2>2 DEF c2, s2
<1>10. LenientCut(Made(s2, c2, s), "S") = Made(s3, c3, <<>>)
    <2>1. s = s \o <<>>
        BY <1>1
    <2>2. LenientCut(Made(s2, c2, s \o <<>>), "S") =
              Made(s2 + Worth(s) * Scale["S"], c2 + One(s), <<>>)
        <3>1. "S" \in Units /\ <<>> \in Seq(Characters) /\ s2 \in Int /\ c2 \in Int
            BY <1>3, <1>5, <1>6
        <3>2. \A i \in 1..Len(<<>>) : <<>>[i] # "S"
            OBVIOUS
        <3>. QED BY ONLY <3>1, <3>2, s \in Group("S"), CutGroup
    <2>. QED BY ONLY <2>1, <2>2 DEF c3, s3
<1>11. [Made(s0, c0, part) EXCEPT !.part = h \o m \o s] = Made(s0, c0, h \o m \o s)
    <2> DEFINE time == h \o m \o s
               read == Made(s0, c0, part)
    <2>1. read = [ok |-> Fine, seconds |-> s0, components |-> c0, part |-> part]
        BY DEF Made
    <2>. HIDE DEF time, read
    <2>2. [read EXCEPT !.part = time] = [ok |-> Fine, seconds |-> s0, components |-> c0, part |-> time]
        BY ONLY <2>1
    <2>. QED BY ONLY <2>2 DEF time, read, Made
<1>12. AllRead(Made(s3, c3, <<>>)) = Made(s3, c3, <<>>)
    BY ONLY AllTaken
<1>13. TimeRead(Made(s0, c0, part), h \o m \o s) = Made(s3, c3, <<>>)
    BY ONLY <1>8, <1>9, <1>10, <1>11, <1>12 DEF TimeRead
<1>. QED BY ONLY <1>13 DEF s1, s2, s3, c1, c2, c3

\* The end of a turn refuses what is left over and changes nothing else.
LEMMA AllReadIs ==
    ASSUME NEW read \in Reading
    PROVE  /\ AllRead(read) \in Reading
           /\ AllRead(read).components = read.components
           /\ AllRead(read).ok => read.ok /\ read.part = <<>>
BY DEF AllRead, Reading

\* The other way: a date that is not refused is a group ...
LEMMA DateBack ==
    ASSUME NEW ok \in BOOLEAN, NEW date \in Seq(Characters)
    PROVE  /\ DateRead(ok, date) \in Reading
           /\ DateRead(ok, date).ok =>
                 ok /\ date \in Group("D") /\ DateRead(ok, date).components = One(date)
<1> DEFINE read == [ok |-> ok, seconds |-> 0, components |-> 0, part |-> date]
           cut == LenientCut(read, "D")
<1>1. read \in Reading /\ (read.ok => ok) /\ read.part = date /\ read.components = 0
    BY DEF Reading
<1>2. "D" \in Units
    BY DEF Units
<1>. HIDE DEF read
<1>3. cut \in Reading
    BY <1>1, <1>2, CutType
<1>4. DateRead(ok, date) = AllRead(cut)
    BY DEF DateRead, read
<1>5. ASSUME DateRead(ok, date).ok
      PROVE  ok /\ date \in Group("D") /\ DateRead(ok, date).components = One(date)
    <2>1. cut.ok /\ cut.part = <<>> /\ DateRead(ok, date).components = cut.components
        BY <1>3, <1>4, <1>5, AllReadIs
    <2>2. PICK d \in Group("D") : read.part = d \o cut.part /\ cut.components = read.components + One(d)
        BY <1>1, <1>2, <2>1, CutBack
    <2>3. read.ok
        BY <1>1, <1>2, <2>1, CutBack
    <2>4. date = d
        <3>1. d \in Seq(Characters)
            BY <1>2, InGroup
        <3>. QED BY <1>1, <2>1, <2>2, <3>1
    <2>5. One(d) \in Int
        BY DEF One
    <2>6. DateRead(ok, date).components = One(date)
        <3>1. DateRead(ok, date).components = 0 + One(d)
            BY <1>1, <2>1, <2>2
        <3>. QED BY ONLY <2>4, <2>5, <3>1
    <2>7. ok
        BY ONLY <1>1, <2>3
    <2>8. date \in Group("D")
        BY ONLY <2>4, d \in Group("D"), Zenon
    <2>. QED BY ONLY <2>6, <2>7, <2>8, Zenon
<1>. QED BY <1>3, <1>4, <1>5, AllReadIs

\* ... and a time is three.
LEMMA TimeBack ==
    ASSUME NEW read \in Reading, NEW time \in Seq(Characters), TimeRead(read, time).ok
    PROVE  /\ read.ok
           /\ \E h \in Group("H"), m \in Group("M"), s \in Group("S") :
                 /\ time = h \o m \o s
                 /\ TimeRead(read, time).components = read.components + One(h) + One(m) + One(s)
<1> DEFINE start == [read EXCEPT !.part = time]
           afterH == LenientCut(start, "H")
           afterM == LenientCut(afterH, "M")
           afterS == LenientCut(afterM, "S")
<1>1. start \in Reading /\ (start.ok => read.ok) /\ start.part = time
      /\ start.components = read.components
    BY DEF Reading
<1>2. "H" \in Units /\ "M" \in Units /\ "S" \in Units
    BY DEF Units
<1>. HIDE DEF start
<1>3. afterH \in Reading
    BY <1>1, <1>2, CutType
<1>. HIDE DEF afterH
<1>4. afterM \in Reading
    BY <1>2, <1>3, CutType
<1>. HIDE DEF afterM
<1>5. afterS \in Reading
    BY <1>2, <1>4, CutType
<1>. HIDE DEF afterS
<1>6. TimeRead(read, time) = AllRead(afterS)
    BY DEF TimeRead, start, afterH, afterM, afterS
<1>7. afterS.ok /\ afterS.part = <<>> /\ TimeRead(read, time).components = afterS.components
    BY <1>5, <1>6, AllReadIs
<1>8. PICK s \in Group("S") : afterM.part = s \o afterS.part
                              /\ afterS.components = afterM.components + One(s)
    BY <1>2, <1>4, <1>7, CutBack DEF afterS
<1>9. afterM.ok
    BY <1>2, <1>4, <1>7, CutBack DEF afterS
<1>10. PICK m \in Group("M") : afterH.part = m \o afterM.part
                               /\ afterM.components = afterH.components + One(m)
    BY <1>2, <1>3, <1>9, CutBack DEF afterM
<1>11. afterH.ok
    BY <1>2, <1>3, <1>9, CutBack DEF afterM
<1>12. PICK h \in Group("H") : start.part = h \o afterH.part
                               /\ afterH.components = start.components + One(h)
    BY <1>1, <1>2, <1>11, CutBack DEF afterH
<1>13. start.ok
    BY <1>1, <1>2, <1>11, CutBack DEF afterH
<1>14. h \in Seq(Characters) /\ m \in Seq(Characters) /\ s \in Seq(Characters)
    BY <1>2, InGroup
<1>15. time = h \o m \o s
    <2>1. s \o <<>> = s
        BY <1>14
    <2>2. time = h \o (m \o s)
        BY <1>1, <1>7, <1>8, <1>10, <1>12, <2>1
    <2>3. h \o m \o s = h \o (m \o s)
        <3>1. h \in Texts /\ m \in Texts /\ s \in Texts
            BY ONLY <1>14 DEF Texts
        <3>. QED BY ONLY <3>1, Regroup, Zenon DEF Regrouped
    <2>. QED BY ONLY <2>2, <2>3
<1>16. TimeRead(read, time).components = read.components + One(h) + One(m) + One(s)
    BY ONLY <1>1, <1>7, <1>8, <1>10, <1>12
<1>. QED BY <1>1, <1>13, <1>15, <1>16

(* ----------------------------- whole texts ------------------------------- *)

\* A text as the client's expression has it: each group, and "T" or nothing.
Written(d, t, h, m, s) == <<"P">> \o d \o t \o h \o m \o s

Form(d, t, h, m, s) ==
    /\ d \in Group("D") /\ h \in Group("H") /\ m \in Group("M") /\ s \in Group("S")
    /\ t = <<>> \/ t = <<"T">>
    /\ t = <<>> => h = <<>> /\ m = <<>> /\ s = <<>>

\* After its last letter "P" or "T" there is a group.
Ended(d, t, h, m, s) == IF t = <<>> THEN d # <<>> ELSE ~ (h = <<>> /\ m = <<>> /\ s = <<>>)

LEMMA FormType ==
    ASSUME NEW d, NEW t, NEW h, NEW m, NEW s, Form(d, t, h, m, s)
    PROVE  /\ d \in Seq(Characters) /\ t \in Seq(Characters) /\ h \in Seq(Characters)
           /\ m \in Seq(Characters) /\ s \in Seq(Characters)
           /\ <<"P">> \in Seq(Characters) /\ <<"T">> \in Seq(Characters) /\ <<>> \in Seq(Characters)
<1>1. /\ d \in Seq(Characters) /\ h \in Seq(Characters)
      /\ m \in Seq(Characters) /\ s \in Seq(Characters)
    BY InGroup DEF Form, Units
<1>2. <<"P">> \in Seq(Characters) /\ <<"T">> \in Seq(Characters)
    BY Alphabet
<1>3. <<>> \in Seq(Characters)
    OBVIOUS
<1>4. t = <<>> \/ t = <<"T">>
    BY DEF Form
<1>. QED BY ONLY <1>1, <1>2, <1>3, <1>4, Zenon

Flat(x, t, h, m, s) == x \o (t \o (h \o m \o s)) = x \o t \o h \o m \o s

LEMMA RegroupAll == \A x, t, h, m, s \in Texts : Flat(x, t, h, m, s)
<1>. SUFFICES ASSUME NEW x \in Texts, NEW t \in Texts, NEW h \in Texts, NEW m \in Texts,
                     NEW s \in Texts
              PROVE  x \o (t \o (h \o m \o s)) = x \o t \o h \o m \o s
    BY Zenon DEF Flat
<1> DEFINE xt == x \o t
<1>1. h \o m \in Texts /\ xt \in Texts
    BY ONLY x \in Texts, t \in Texts, h \in Texts, m \in Texts, Join, Zenon
<1>2. (h \o m) \o s \in Texts
    BY ONLY <1>1, s \in Texts, Join, Zenon
<1>3. xt \o (h \o m \o s) = x \o (t \o (h \o m \o s))
    <2>1. Regrouped(x, t, h \o m \o s)
        BY ONLY <1>2, x \in Texts, t \in Texts, Regroup, Zenon
    <2>. QED BY ONLY <2>1, Zenon DEF Regrouped
<1>. HIDE DEF xt
<1>4. (xt \o (h \o m)) \o s = xt \o ((h \o m) \o s)
    <2>1. Regrouped(xt, h \o m, s)
        BY ONLY <1>1, s \in Texts, Regroup, Zenon
    <2>. QED BY ONLY <2>1, Zenon DEF Regrouped
<1>5. (xt \o h) \o m = xt \o (h \o m)
    <2>1. Regrouped(xt, h, m)
        BY ONLY <1>1, h \in Texts, m \in Texts, Regroup, Zenon
    <2>. QED BY ONLY <2>1, Zenon DEF Regrouped
<1>. QED BY ONLY <1>3, <1>4, <1>5, Zenon DEF xt

\* The times of the client's expression, and all that may follow the date.
Times == {h \o m \o s : h \in Group("H"), m \in Group("M"), s \in Group("S")}
Tails == {<<>>} \cup {<<"T">> \o x : x \in Times}

LEMMA TimesAre ==
    ASSUME NEW x
    PROVE  x \in Times <=> \E h \in Group("H"), m \in Group("M"), s \in Group("S") : x = h \o m \o s
<1> DEFINE H == Group("H")
           M == Group("M")
           S == Group("S")
           All == {h \o m \o s : h \in H, m \in M, s \in S}
<1>1. Times = All
    BY DEF Times
<1>. HIDE DEF H, M, S
<1>2. ASSUME x \in All
      PROVE  \E h \in H, m \in M, s \in S : x = h \o m \o s
    BY <1>2
<1>3. ASSUME NEW h \in H, NEW m \in M, NEW s \in S, x = h \o m \o s
      PROVE  x \in All
    BY <1>3
<1>. HIDE DEF All
<1>4. x \in Times <=> \E h \in H, m \in M, s \in S : x = h \o m \o s
    BY ONLY <1>1, <1>2, <1>3, Zenon
<1>. QED BY ONLY <1>4, Zenon DEF H, M, S

LEMMA LanguageParts ==
    ASSUME NEW p
    PROVE  p \in Language <=> \E d \in Group("D"), t \in Tails : p = <<"P">> \o d \o t
<1> DEFINE D == Group("D")
           P == <<"P">>
           All == {P \o d \o t : d \in D, t \in Tails}
<1>1. Language = All
    BY DEF Language, Tails, Times
<1>. HIDE DEF D, P
<1>2. ASSUME p \in All
      PROVE  \E d \in D, t \in Tails : p = P \o d \o t
    BY <1>2
<1>3. ASSUME NEW d \in D, NEW t \in Tails, p = P \o d \o t
      PROVE  p \in All
    BY <1>3
<1>. HIDE DEF All
<1>4. p \in Language <=> \E d \in D, t \in Tails : p = P \o d \o t
    BY ONLY <1>1, <1>2, <1>3, Zenon
<1>. QED BY ONLY <1>4, Zenon DEF D, P

\* The client's language is what can be written that way.
LEMMA LanguageIs ==
    ASSUME NEW p
    PROVE  p \in Language <=> \E d, t, h, m, s : Form(d, t, h, m, s) /\ p = Written(d, t, h, m, s)
<1>1. ASSUME NEW d \in Group("D"), p = <<"P">> \o d \o <<>>
      PROVE  Form(d, <<>>, <<>>, <<>>, <<>>) /\ p = Written(d, <<>>, <<>>, <<>>, <<>>)
    <2>1. Form(d, <<>>, <<>>, <<>>, <<>>)
        BY DEF Form, Group
    <2>2. <<"P">> \o d \in Seq(Characters)
        BY <2>1, FormType
    <2>3. \A q \in Seq(Characters) : q \o <<>> = q
        OBVIOUS
    <2>. QED BY <1>1, <2>1, <2>2, <2>3 DEF Written
<1>2. ASSUME NEW d \in Group("D"), NEW h \in Group("H"), NEW m \in Group("M"), NEW s \in Group("S")
      PROVE  /\ Form(d, <<"T">>, h, m, s)
             /\ <<"P">> \o d \o (<<"T">> \o (h \o m \o s)) = Written(d, <<"T">>, h, m, s)
    <2>1. Form(d, <<"T">>, h, m, s)
        BY DEF Form
    <2>2. /\ <<"P">> \o d \in Seq(Characters) /\ <<"T">> \in Seq(Characters)
          /\ h \in Seq(Characters) /\ m \in Seq(Characters) /\ s \in Seq(Characters)
        BY <2>1, FormType
    <2>3. (<<"P">> \o d) \o (<<"T">> \o (h \o m \o s)) = (<<"P">> \o d) \o <<"T">> \o h \o m \o s
        <3> DEFINE x == <<"P">> \o d
                   t == <<"T">>
        <3>1. x \in Texts /\ t \in Texts /\ h \in Texts /\ m \in Texts /\ s \in Texts
            BY ONLY <2>2 DEF Texts
        <3>. HIDE DEF x, t
        <3>2. x \o (t \o (h \o m \o s)) = x \o t \o h \o m \o s
            <4>1. Flat(x, t, h, m, s)
                BY ONLY <3>1, RegroupAll, Zenon
            <4>. QED BY ONLY <4>1, Zenon DEF Flat
        <3>. QED BY ONLY <3>2, Zenon DEF x, t
    <2>. QED BY <2>1, <2>3 DEF Written
<1>3. ASSUME p \in Language
      PROVE  \E d, t, h, m, s : Form(d, t, h, m, s) /\ p = Written(d, t, h, m, s)
    <2>1. PICK d \in Group("D") : \E t \in Tails : p = <<"P">> \o d \o t
        BY ONLY <1>3, LanguageParts, Zenon
    <2>2. PICK t \in Tails : p = <<"P">> \o d \o t
        BY ONLY <2>1, Zenon
    <2>3. t = <<>> \/ \E x \in Times : t = <<"T">> \o x
        BY ONLY t \in Tails, Zenon DEF Tails
    <2>4. CASE t = <<>>
        BY ONLY <2>2, <2>4, <1>1, Zenon
    <2>5. CASE \E x \in Times : t = <<"T">> \o x
        <3>1. PICK x \in Times : t = <<"T">> \o x
            BY ONLY <2>5, Zenon
        <3>2. \E h \in Group("H"), m \in Group("M"), s \in Group("S") : x = h \o m \o s
            BY ONLY x \in Times, TimesAre, Zenon
        <3>3. PICK h \in Group("H"), m \in Group("M"), s \in Group("S") : x = h \o m \o s
            BY ONLY <3>2, Zenon
        <3>4. p = Written(d, <<"T">>, h, m, s)
            BY ONLY <1>2, <2>2, <3>1, <3>3, Zenon
        <3>5. Form(d, <<"T">>, h, m, s)
            BY ONLY <1>2, Zenon
        <3>. QED BY ONLY <3>4, <3>5, Zenon
    <2>. QED BY ONLY <2>3, <2>4, <2>5, Zenon
<1>4. ASSUME NEW d, NEW t, NEW h, NEW m, NEW s, Form(d, t, h, m, s), p = Written(d, t, h, m, s)
      PROVE  p \in Language
    <2>1. CASE t = <<>>
        <3>1. h = <<>> /\ m = <<>> /\ s = <<>> /\ d \in Group("D")
            BY <1>4, <2>1 DEF Form
        <3>2. <<"P">> \o d \in Seq(Characters)
            BY <1>4, FormType
        <3>3. \A q \in Seq(Characters) : q \o <<>> = q
            OBVIOUS
        <3>4. p = <<"P">> \o d \o <<>>
            BY <1>4, <2>1, <3>1, <3>2, <3>3 DEF Written
        <3>5. <<>> \in Tails
            BY Zenon DEF Tails
        <3>. QED BY ONLY <3>1, <3>4, <3>5, LanguageParts, Zenon
    <2>2. CASE t = <<"T">>
        <3>1. d \in Group("D") /\ h \in Group("H") /\ m \in Group("M") /\ s \in Group("S")
            BY <1>4 DEF Form
        <3>2. p = <<"P">> \o d \o (<<"T">> \o (h \o m \o s))
            BY <1>2, <1>4, <2>2, <3>1
        <3>3. h \o m \o s \in Times
            BY ONLY <3>1, TimesAre, Zenon
        <3>4. <<"T">> \o (h \o m \o s) \in Tails
            BY ONLY <3>3, Zenon DEF Tails
        <3>. QED BY ONLY <3>1, <3>2, <3>4, LanguageParts, Zenon
    <2>. QED BY <1>4, <2>1, <2>2 DEF Form
<1>. QED BY ONLY <1>3, <1>4, Zenon

(* --------------------------- the lenient whole --------------------------- *)

\* The reading the lenient reader judges.
Whole(x) == LET split == Split(Tail(x)) IN TimeRead(DateRead(split.ok, split.date), split.time)

LEMMA LenientIs ==
    ASSUME NEW x
    PROVE  LenientDuration(x) =
               IF x = <<>> \/ Head(x) # "P" THEN Invalid
               ELSE IF Whole(x).ok /\ Whole(x).components > 0 THEN Whole(x).seconds
               ELSE Invalid
BY Zenon DEF LenientDuration, Whole, DateRead, TimeRead

\* A body without "T" is a date, one with it a date and a time around it.
LEMMA SplitDate ==
    ASSUME NEW d \in Texts, \A i \in 1..Len(d) : d[i] # "T"
    PROVE  Split(d).ok = Fine /\ Split(d).date = d /\ Split(d).time = <<>>
<1>1. Place(d, "T") = 0
    BY PlaceIs DEF Texts
<1>2. Split(d) = [ok |-> TRUE, date |-> d, time |-> <<>>]
    BY <1>1 DEF Split
<1>. QED BY <1>2 DEF Fine

LEMMA SplitBoth ==
    ASSUME NEW d \in Texts, NEW time \in Texts, \A i \in 1..Len(d) : d[i] # "T"
    PROVE  /\ time # <<>> => Split(d \o <<"T">> \o time).ok = Fine
           /\ Split(d \o <<"T">> \o time).date = d
           /\ Split(d \o <<"T">> \o time).time = time
<1> DEFINE body == d \o <<"T">> \o time
           n == Len(d) + 1
<1>1. Place(body, "T") = n /\ Before(body, n) = d /\ After(body, n) = time
    BY Alphabet, Cutting DEF Texts
<1>2. n # 0
    BY DEF Texts
<1>. HIDE DEF body, n
<1>3. Split(body) = [ok |-> time # <<>>, date |-> d, time |-> time]
    BY <1>1, <1>2 DEF Split
<1>4. Split(body).date = d /\ Split(body).time = time
    BY <1>3
<1>5. time # <<>> => Split(body).ok = Fine
    <2> DEFINE some == time # <<>>
    <2>1. Split(body) = [ok |-> some, date |-> d, time |-> time]
        BY <1>3
    <2>2. some <=> time # <<>>
        OBVIOUS
    <2>. HIDE DEF some
    <2>3. Split(body).ok = some
        BY ONLY <2>1
    <2>4. some => some = TRUE
        BY ONLY <2>2, Zenon
    <2>. QED BY ONLY <2>2, <2>3, <2>4, Zenon DEF Fine
<1>. QED BY ONLY <1>4, <1>5 DEF body

LEMMA SplitType ==
    ASSUME NEW body \in Texts
    PROVE  LET split == Split(body) IN
           /\ split.ok \in BOOLEAN /\ split.date \in Texts /\ split.time \in Texts
           /\ \/ split.time = <<>> /\ body = split.date
              \/ split.ok => split.time # <<>> /\ body = split.date \o <<"T">> \o split.time
<1>1. CASE Place(body, "T") = 0
    <2>1. Split(body) = [ok |-> TRUE, date |-> body, time |-> <<>>]
        BY <1>1 DEF Split
    <2>2. <<>> \in Texts
        BY DEF Texts
    <2>. QED BY <2>1, <2>2
<1>2. CASE Place(body, "T") # 0
    <2> DEFINE a == Before(body, Place(body, "T"))
               b == After(body, Place(body, "T"))
    <2>1. a \in Texts /\ b \in Texts /\ body = a \o <<"T">> \o b
        <3>1. body \in Seq(Characters) /\ "T" \in Characters
            BY Alphabet DEF Texts
        <3>. QED BY ONLY <1>2, <3>1, Parts DEF Texts
    <2>2. Split(body) = [ok |-> b # <<>>, date |-> a, time |-> b]
        BY <1>2 DEF Split
    <2>. HIDE DEF a, b
    <2>3. Split(body).date = a /\ Split(body).time = b
        BY <2>2
    <2>4. Split(body).ok \in BOOLEAN /\ (Split(body).ok => b # <<>>)
        <3> DEFINE some == b # <<>>
        <3>1. Split(body) = [ok |-> some, date |-> a, time |-> b]
            BY <2>2
        <3>2. some \in BOOLEAN /\ (some <=> b # <<>>)
            BY ONLY Zenon
        <3>. HIDE DEF some
        <3>3. Split(body).ok = some
            BY ONLY <3>1
        <3>. QED BY ONLY <3>2, <3>3, Zenon
    <2>. QED BY <2>1, <2>3, <2>4
<1>. QED BY <1>1, <1>2

LEMMA TailIs ==
    ASSUME NEW q \in Texts
    PROVE  /\ Tail(<<"P">> \o q) = q /\ Head(<<"P">> \o q) = "P" /\ <<"P">> \o q # <<>>
<1> DEFINE x == <<"P">> \o q
<1>1. /\ q \in Seq(Characters) /\ Len(q) \in Nat
      /\ x \in Seq(Characters) /\ Len(x) = Len(q) + 1 /\ x[1] = "P"
      /\ \A i \in 1..Len(q) : x[i + 1] = q[i]
    BY Alphabet DEF Texts
<1>. HIDE DEF x
<1>2. x # <<>> /\ Head(x) = "P"
    BY <1>1
<1>3. /\ Tail(x) \in Seq(Characters) /\ Len(Tail(x)) = Len(q)
      /\ \A i \in 1..Len(q) : Tail(x)[i] = q[i]
    BY <1>1, <1>2, HeadTailProperties
<1>4. Tail(x) = q
    BY <1>1, <1>3, SeqEqual
<1>. QED BY <1>2, <1>4 DEF x

LEMMA HeadIs ==
    ASSUME NEW x \in Texts, x # <<>>, Head(x) = "P"
    PROVE  Tail(x) \in Texts /\ x = <<"P">> \o Tail(x)
<1> DEFINE q == Tail(x)
           y == <<"P">> \o q
<1>1. /\ x \in Seq(Characters) /\ Len(x) \in Nat \ {0} /\ x[1] = "P"
      /\ q \in Seq(Characters) /\ Len(q) = Len(x) - 1
      /\ \A i \in 1..Len(q) : q[i] = x[i + 1]
    BY HeadTailProperties, EmptySeq DEF Texts
<1>. HIDE DEF q
<1>2. /\ y \in Seq(Characters) /\ Len(y) = Len(x) /\ y[1] = "P"
      /\ \A i \in 1..Len(q) : y[i + 1] = q[i]
    BY <1>1, Alphabet
<1>. HIDE DEF y
<1>3. ASSUME NEW i \in 1..Len(x)
      PROVE  x[i] = y[i]
    <2>1. CASE i = 1
        BY <2>1, <1>1, <1>2
    <2>2. CASE i # 1
        <3>1. i - 1 \in 1..Len(q) /\ (i - 1) + 1 = i
            BY <2>2, <1>1
        <3>. QED BY <3>1, <1>1, <1>2
    <2>. QED BY <2>1, <2>2
<1>4. x = y
    BY <1>1, <1>2, <1>3, SeqEqual
<1>. QED BY <1>1, <1>4 DEF q, y, Texts

(* --------------------------- the client's whole -------------------------- *)

\* What a text ends with and does not hold.
Closed(a) == a # <<>> /\ a[Len(a)] \notin Digits
Free(a, u) == \A i \in 1..Len(a) : a[i] # u

LEMMA Joins ==
    ASSUME NEW a \in Texts, NEW b \in Texts
    PROVE  /\ a \o b \in Texts
           /\ \A u : Free(a, u) /\ Free(b, u) => Free(a \o b, u)
           /\ b # <<>> => a \o b # <<>> /\ (a \o b)[Len(a \o b)] = b[Len(b)]
           /\ b = <<>> => a \o b = a
<1>. DEFINE x == a \o b
<1>1. /\ a \in Seq(Characters) /\ b \in Seq(Characters) /\ Len(a) \in Nat /\ Len(b) \in Nat
      /\ x \in Seq(Characters) /\ Len(x) = Len(a) + Len(b)
      /\ \A i \in 1..Len(a) : x[i] = a[i]
      /\ \A i \in 1..Len(b) : x[Len(a) + i] = b[i]
    BY DEF Texts
<1>2. b = <<>> => x = a
    BY <1>1
<1>. HIDE DEF x
<1>3. ASSUME NEW u, Free(a, u), Free(b, u)
      PROVE  Free(x, u)
    <2>. SUFFICES ASSUME NEW i \in 1..Len(x)
                  PROVE  x[i] # u
        BY DEF Free
    <2>1. CASE i <= Len(a)
        BY <2>1, <1>1, <1>3 DEF Free
    <2>2. CASE i > Len(a)
        <3>1. i - Len(a) \in 1..Len(b) /\ Len(a) + (i - Len(a)) = i
            BY <2>2, <1>1
        <3>. QED BY <3>1, <1>1, <1>3 DEF Free
    <2>. QED BY <2>1, <2>2, <1>1
<1>4. b # <<>> => x # <<>> /\ x[Len(x)] = b[Len(b)]
    <2>. SUFFICES ASSUME b # <<>>
                  PROVE  x # <<>> /\ x[Len(x)] = b[Len(b)]
        OBVIOUS
    <2>1. Len(b) \in 1..Len(b)
        BY <1>1
    <2>. QED BY <2>1, <1>1
<1>. QED BY <1>1, <1>2, <1>3, <1>4 DEF x, Texts

\* A group stands after text that ends in no digit, and leaves such text behind.
LEMMA OnGroup ==
    ASSUME NEW a \in Texts, NEW u \in Units, NEW g \in Group(u)
    PROVE  /\ a \o g \in Texts
           /\ Closed(a) => Closed(a \o g)
           /\ Last(a \o g) = IF g = <<>> THEN Last(a) ELSE u
<1>1. g \in Texts /\ (g # <<>> => g[Len(g)] = u)
    BY InGroup DEF Texts
<1>2. u \notin Digits
    BY Alphabet
<1>3. a \o g \in Texts
    BY <1>1, Joins
<1>4. CASE g = <<>>
    <2>1. a \o g = a
        BY <1>1, <1>4, Joins
    <2>. QED BY <1>3, <1>4, <2>1
<1>5. CASE g # <<>>
    <2>1. a \o g # <<>> /\ (a \o g)[Len(a \o g)] = u
        BY <1>1, <1>5, Joins
    <2>. HIDE DEF Texts
    <2>. QED BY <1>2, <1>3, <1>5, <2>1 DEF Closed, Last
<1>. QED BY <1>4, <1>5

\* The client captures the group.
LEMMA CapturedIs ==
    ASSUME NEW u \in Units, NEW a \in Texts, NEW g \in Group(u), NEW b \in Texts,
           Closed(a), Free(a, u), Free(b, u)
    PROVE  Captured((a \o g) \o b, u) = Worth(g)
<1>1. CASE g = <<>>
    <2>1. (a \o g) \o b = a \o b /\ a \o b \in Texts /\ Free(a \o b, u)
        BY <1>1, Joins DEF Texts
    <2>2. Place(a \o b, u) = 0
        BY <2>1, PlaceIs DEF Free, Texts
    <2>3. Captured(a \o b, u) = 0
        BY <2>2 DEF Captured
    <2>. QED BY <1>1, <2>1, <2>3 DEF Worth
<1>2. CASE g # <<>>
    <2>1. PICK digits \in Seq(Digits) : LenientNumber(digits) /\ g = digits \o <<u>>
        BY <1>2, GroupIs
    <2> DEFINE n == Len(a)
               k == Len(digits)
               x == (a \o g) \o b
               ad == a \o digits
    <2>2. /\ digits \in Seq(Characters) /\ a \in Seq(Characters) /\ b \in Seq(Characters)
          /\ n \in Nat \ {0} /\ k \in Nat /\ a[n] \notin Digits
          /\ \A i \in 1..k : digits[i] \in Digits
        BY Alphabet, SeqMonotonic, EmptySeq DEF Texts, Closed
    <2>3. /\ ad \in Seq(Characters) /\ Len(ad) = n + k
          /\ \A i \in 1..n : ad[i] = a[i]
          /\ \A i \in 1..k : ad[n + i] = digits[i]
        BY <2>2
    <2>4. x = ad \o <<u>> \o b
        <3>1. u \in Characters
            BY Alphabet
        <3>. QED BY ONLY <2>1, <2>2, <3>1
    <2>5. \A i \in 1..Len(ad) : ad[i] # u
        <3>. SUFFICES ASSUME NEW i \in 1..Len(ad)
                      PROVE  ad[i] # u
            OBVIOUS
        <3>. HIDE DEF ad, n, k
        <3>1. CASE i <= n
            BY <3>1, <2>2, <2>3 DEF Free, n
        <3>2. CASE i > n
            <4>1. i - n \in 1..k /\ n + (i - n) = i
                BY <3>2, <2>2, <2>3
            <4>2. ad[n + (i - n)] = digits[i - n] /\ digits[i - n] \in Digits
                BY ONLY <4>1, <2>2, <2>3
            <4>3. u \notin Digits
                BY Alphabet
            <4>. QED BY ONLY <4>1, <4>2, <4>3
        <3>. QED BY <3>1, <3>2, <2>2, <2>3
    <2>. HIDE DEF n, k, ad, x
    <2>6. /\ Place(x, u) = n + k + 1
          /\ Before(x, n + k + 1) = ad
        <3>1. ad \in Seq(Characters) /\ b \in Seq(Characters) /\ u \in Characters
            BY <2>2, <2>3, Alphabet
        <3>2. /\ Place(ad \o <<u>> \o b, u) = Len(ad) + 1
              /\ Before(ad \o <<u>> \o b, Len(ad) + 1) = ad
            BY ONLY <2>5, <3>1, Cutting
        <3>. QED BY ONLY <2>3, <2>4, <3>2
    <2>7. SelectLastInSeq(ad, LAMBDA c : c \notin Digits) = n
        <3> DEFINE I == {i \in 1..Len(ad) : ad[i] \notin Digits}
        <3>1. n \in I
            BY <2>2, <2>3
        <3>2. \A i \in I : i <= n
            <4>. SUFFICES ASSUME NEW i \in 1..Len(ad), i > n
                          PROVE  ad[i] \in Digits
                BY <2>2, <2>3
            <4>1. i - n \in 1..k /\ n + (i - n) = i
                BY <2>2, <2>3
            <4>. QED BY <4>1, <2>2, <2>3
        <3>3. SelectLastInSeq(ad, LAMBDA c : c \notin Digits) = IF I # {} THEN Max(I) ELSE 0
            BY DEF SelectLastInSeq
        <3>. HIDE DEF I
        <3>4. I \subseteq Int
            BY DEF I
        <3>5. \A i \in I : (\A j \in I : i >= j) => i = n
            BY <2>2, <3>1, <3>2, <3>4
        <3>6. \A i \in I : n >= i
            BY <2>2, <3>2, <3>4
        <3>7. Max(I) = n
            BY <3>1, <3>5, <3>6 DEF Max
        <3>. QED BY <3>1, <3>3, <3>7
    <2>8. SubSeq(x, n + 1, (n + k + 1) - 1) = digits
        <3>1. /\ x \in Seq(Characters) /\ Len(x) = n + k + 1 + Len(b) /\ Len(b) \in Nat
              /\ \A i \in 1..(n + k) : x[i] = ad[i]
            <4>1. ad \in Seq(Characters) /\ b \in Seq(Characters) /\ u \in Characters
                BY <2>2, <2>3, Alphabet
            <4>2. /\ ad \o <<u>> \o b \in Seq(Characters)
                  /\ Len(ad \o <<u>> \o b) = Len(ad) + 1 + Len(b)
                  /\ \A i \in 1..Len(ad) : (ad \o <<u>> \o b)[i] = ad[i]
                BY ONLY <4>1, Joined
            <4>3. x \in Seq(Characters) /\ Len(x) = Len(ad) + 1 + Len(b)
                  /\ \A i \in 1..Len(ad) : x[i] = ad[i]
                BY ONLY <2>4, <4>2
            <4>. QED BY ONLY <2>2, <2>3, <4>1, <4>3
        <3>2. \A i \in (n + 1)..(n + k) : x[i] \in Characters
            BY <2>2, <3>1
        <3>3. /\ SubSeq(x, n + 1, n + k) \in Seq(Characters)
              /\ Len(SubSeq(x, n + 1, n + k)) = k
              /\ \A i \in 1..k : SubSeq(x, n + 1, n + k)[i] = x[n + i]
            BY <2>2, <3>1, <3>2, SubSeqProperties
        <3>4. \A i \in 1..k : x[n + i] = digits[i]
            <4>. TAKE i \in 1..k
            <4>1. n + i \in 1..(n + k)
                BY <2>2
            <4>. QED BY <4>1, <2>3, <3>1
        <3>5. SubSeq(x, n + 1, n + k) = digits
            <4>1. Len(digits) = k
                BY DEF k
            <4>. QED BY <2>2, <3>3, <3>4, <4>1, SeqEqual
        <3>6. (n + k + 1) - 1 = n + k
            BY <2>2
        <3>. QED BY <3>5, <3>6
    <2>9. n + k + 1 # 0
        BY <2>2
    <2>10. Captured(x, u) = Number(digits)
        BY <2>6, <2>7, <2>8, <2>9 DEF Captured
    <2>11. Worth(g) = Number(digits)
        BY <2>1, WorthIs
    <2>. QED BY <2>10, <2>11 DEF x
<1>. QED BY <1>1, <1>2

(* ---------------------- a written text, read by both --------------------- *)

LEMMA FormTexts ==
    ASSUME NEW d, NEW t, NEW h, NEW m, NEW s, Form(d, t, h, m, s)
    PROVE  /\ d \in Texts /\ t \in Texts /\ h \in Texts /\ m \in Texts /\ s \in Texts
           /\ <<"P">> \in Texts /\ <<"T">> \in Texts /\ <<>> \in Texts
BY FormType DEF Texts

\* A group holds no other group's unit, and "P" and "T" hold none.
LEMMA FormFree ==
    ASSUME NEW d, NEW t, NEW h, NEW m, NEW s, Form(d, t, h, m, s)
    PROVE  /\ \A u \in Units : Free(<<"P">>, u) /\ Free(t, u)
           /\ \A u \in Units : /\ u # "D" => Free(d, u)
                               /\ u # "H" => Free(h, u)
                               /\ u # "M" => Free(m, u)
                               /\ u # "S" => Free(s, u)
           /\ Free(d, "T")
<1>1. ASSUME NEW u \in Units
      PROVE  Free(<<"P">>, u) /\ Free(<<"T">>, u) /\ Free(<<>>, u)
    BY Alphabet DEF Free
<1>2. t = <<>> \/ t = <<"T">>
    BY DEF Form
<1>3. "D" \in Units /\ "H" \in Units /\ "M" \in Units /\ "S" \in Units
    BY DEF Units
<1>4. ASSUME NEW u \in Units
      PROVE  /\ u # "D" => Free(d, u)
             /\ u # "H" => Free(h, u)
             /\ u # "M" => Free(m, u)
             /\ u # "S" => Free(s, u)
    BY <1>3, Apart DEF Form, Free
<1>5. Free(d, "T")
    <2>1. \A i \in 1..Len(d) : d[i] \in Digits \cup {"D"}
        BY <1>3, InGroup DEF Form
    <2>2. "T" \notin Digits \cup {"D"}
        BY <1>3, Alphabet
    <2>. QED BY <2>1, <2>2 DEF Free
<1>. QED BY <1>1, <1>2, <1>4, <1>5

\* The client: each unit's group is captured, and the last letter tells
\* whether one follows "P" and "T".
ReadByClient(d, t, h, m, s) ==
    LET x == Written(d, t, h, m, s) IN
    /\ x \in Texts
    /\ Captured(x, "D") = Worth(d) /\ Captured(x, "H") = Worth(h)
    /\ Captured(x, "M") = Worth(m) /\ Captured(x, "S") = Worth(s)
    /\ Last(x) \notin {"P", "T"} <=> Ended(d, t, h, m, s)

LEMMA ClientIs ==
    ASSUME NEW d, NEW t, NEW h, NEW m, NEW s, Form(d, t, h, m, s)
    PROVE  ReadByClient(d, t, h, m, s)
<1> DEFINE P == <<"P">>
           toD == P \o d
           toT == toD \o t
           toH == toT \o h
           toM == toH \o m
           x == toM \o s
<1>1. /\ d \in Group("D") /\ h \in Group("H") /\ m \in Group("M") /\ s \in Group("S")
      /\ t = <<>> \/ t = <<"T">>
    BY DEF Form
<1>2. "D" \in Units /\ "H" \in Units /\ "M" \in Units /\ "S" \in Units
    BY DEF Units
<1>3. /\ d \in Texts /\ t \in Texts /\ h \in Texts /\ m \in Texts /\ s \in Texts
      /\ P \in Texts /\ <<>> \in Texts
    BY FormTexts
<1>4. Closed(P)
    BY Alphabet DEF Closed
<1>5. \A u \in Units : Free(P, u)
    BY FormFree
<1>6. Last(P) = "P"
    BY DEF Last
<1>. HIDE DEF P
<1>7. /\ toD \in Texts /\ Closed(toD) /\ \A u \in Units : u # "D" => Free(toD, u)
    BY <1>1, <1>2, <1>3, <1>4, <1>5, FormFree, Joins, OnGroup
<1>8. Last(toD) = IF d = <<>> THEN "P" ELSE "D"
    BY <1>1, <1>2, <1>3, <1>6, OnGroup
<1>. HIDE DEF toD
<1>9. toT \in Texts /\ Closed(toT) /\ \A u \in Units : u # "D" => Free(toT, u)
    <2>1. t # <<>> => t[Len(t)] = "T"
        BY <1>1
    <2>2. "T" \notin Digits
        BY Alphabet
    <2>3. Closed(toT)
        BY <1>3, <1>7, <2>1, <2>2, Joins DEF Closed
    <2>. QED BY <1>3, <1>7, <2>3, FormFree, Joins
<1>10. Last(toT) = IF t = <<>> THEN Last(toD) ELSE "T"
    BY <1>1, <1>3, <1>7, Joins DEF Last
<1>. HIDE DEF toT
<1>11. toH \in Texts /\ Closed(toH) /\ \A u \in Units : u \notin {"D", "H"} => Free(toH, u)
    BY <1>1, <1>2, <1>3, <1>9, FormFree, Joins, OnGroup
<1>12. Last(toH) = IF h = <<>> THEN Last(toT) ELSE "H"
    BY <1>1, <1>2, <1>3, <1>9, OnGroup
<1>. HIDE DEF toH
<1>13. toM \in Texts /\ Closed(toM) /\ Free(toM, "S")
    <2>1. Free(toH, "S") /\ Free(m, "S")
        BY <1>2, <1>11, FormFree
    <2>2. Free(toH \o m, "S")
        BY ONLY <1>3, <1>11, <2>1, Joins
    <2>. QED BY <1>1, <1>2, <1>3, <1>11, <2>2, OnGroup
<1>14. Last(toM) = IF m = <<>> THEN Last(toH) ELSE "M"
    BY <1>1, <1>2, <1>3, <1>11, OnGroup
<1>. HIDE DEF toM
<1>15. x \in Texts
    BY <1>3, <1>13, Joins
<1>16. Last(x) = IF s = <<>> THEN Last(toM) ELSE "S"
    BY <1>1, <1>2, <1>3, <1>13, OnGroup
<1>17. Captured(x, "S") = Worth(s)
    <2>1. x = x \o <<>>
        <3>. HIDE DEF x
        <3>. QED BY ONLY <1>15 DEF Texts
    <2>2. Free(<<>>, "S")
        BY DEF Free
    <2>3. Captured((toM \o s) \o <<>>, "S") = Worth(s)
        <3> DEFINE none == <<>>
        <3>1. none \in Texts /\ Free(none, "S")
            BY ONLY <1>3, <2>2
        <3>. HIDE DEF none
        <3>2. Captured((toM \o s) \o none, "S") = Worth(s)
            BY ONLY <1>1, <1>2, <1>3, <1>13, <3>1, CapturedIs
        <3>. QED BY ONLY <3>2 DEF none
    <2>. QED BY ONLY <2>1, <2>3
<1>18. Captured((toH \o m) \o s, "M") = Worth(m)
    <2>1. Free(toH, "M") /\ Free(s, "M")
        BY <1>2, <1>11, FormFree
    <2>. QED BY ONLY <1>1, <1>2, <1>3, <1>11, <2>1, CapturedIs
<1>19. Captured(x, "H") = Worth(h)
    <2>1. m \o s \in Texts /\ Free(m \o s, "H") /\ Free(toT, "H")
        BY <1>2, <1>3, <1>9, FormFree, Joins
    <2>2. Captured((toT \o h) \o (m \o s), "H") = Worth(h)
        <3> DEFINE b == m \o s
        <3>. HIDE DEF b
        <3>1. b \in Texts /\ Free(b, "H")
            BY <2>1 DEF b
        <3>2. Captured((toT \o h) \o b, "H") = Worth(h)
            BY ONLY <1>1, <1>2, <1>3, <1>9, <2>1, <3>1, CapturedIs
        <3>. QED BY ONLY <3>2 DEF b
    <2>3. Regrouped(toH, m, s)
        BY ONLY <1>3, <1>11, Regroup, Zenon
    <2>4. (toH \o m) \o s = toH \o (m \o s)
        BY ONLY <2>3, Zenon DEF Regrouped
    <2>. QED BY ONLY <2>2, <2>4, Zenon DEF toH, toM
<1>20. Captured(x, "D") = Worth(d)
    <2> DEFINE b == t \o (h \o m \o s)
    <2>1. b \in Texts /\ Free(b, "D")
        <3>1. h \o m \in Texts /\ Free(h \o m, "D")
            BY <1>2, <1>3, FormFree, Joins
        <3>2. h \o m \o s \in Texts /\ Free(h \o m \o s, "D")
            BY <1>2, <1>3, <3>1, FormFree, Joins
        <3>. QED BY <1>2, <1>3, <3>2, FormFree, Joins
    <2>2. Flat(toD, t, h, m, s)
        BY ONLY <1>3, <1>7, RegroupAll, Zenon
    <2>3. toD \o b = x
        BY ONLY <2>2, Zenon DEF Flat, toM, toH, toT
    <2>. HIDE DEF b
    <2>4. Captured((P \o d) \o b, "D") = Worth(d)
        <3>1. Free(P, "D")
            BY <1>2, <1>5
        <3>. QED BY ONLY <1>1, <1>2, <1>3, <1>4, <2>1, <3>1, CapturedIs
    <2>. QED BY ONLY <2>3, <2>4, Zenon DEF toD
<1>21. x = Written(d, t, h, m, s)
    BY Zenon DEF Written, P, toD, toT, toH, toM
<1>22. Last(x) \notin {"P", "T"} <=> Ended(d, t, h, m, s)
    <2>1. t = <<>> => h = <<>> /\ m = <<>> /\ s = <<>>
        BY DEF Form
    <2>2. t # <<>> => t = <<"T">>
        BY <1>1
    <2>. HIDE DEF x
    <2>3. CASE t = <<>>
        <3>1. Last(x) = IF d = <<>> THEN "P" ELSE "D"
            BY ONLY <1>8, <1>10, <1>12, <1>14, <1>16, <2>1, <2>3
        <3>. QED BY <2>3, <3>1 DEF Ended
    <2>4. CASE t # <<>>
        <3>1. Last(x) = IF s # <<>> THEN "S" ELSE IF m # <<>> THEN "M"
                        ELSE IF h # <<>> THEN "H" ELSE "T"
            BY ONLY <1>10, <1>12, <1>14, <1>16, <2>4
        <3>. QED BY <2>4, <3>1 DEF Ended
    <2>. QED BY <2>3, <2>4
<1>23. Captured(x, "M") = Worth(m)
    BY ONLY <1>18, Zenon DEF toM
<1>. HIDE DEF x
<1>. QED BY ONLY <1>15, <1>17, <1>19, <1>20, <1>21, <1>22, <1>23, Zenon DEF ReadByClient

\* The lenient reader: the same numbers, each counted as a component.
ReadLeniently(d, t, h, m, s) ==
    LET x == Written(d, t, h, m, s) IN
    /\ x # <<>> /\ Head(x) = "P"
    /\ Whole(x) = Made(Worth(d) * Scale["D"] + Worth(h) * Scale["H"]
                         + Worth(m) * Scale["M"] + Worth(s) * Scale["S"],
                       One(d) + One(h) + One(m) + One(s), <<>>)

LEMMA WholeIs ==
    ASSUME NEW d, NEW t, NEW h, NEW m, NEW s, Form(d, t, h, m, s), Ended(d, t, h, m, s)
    PROVE  ReadLeniently(d, t, h, m, s)
<1> DEFINE x == Written(d, t, h, m, s)
           q == Tail(x)
           time == h \o m \o s
           all == Made(Worth(d) * Scale["D"] + Worth(h) * Scale["H"]
                         + Worth(m) * Scale["M"] + Worth(s) * Scale["S"],
                       One(d) + One(h) + One(m) + One(s), <<>>)
<1>1. /\ d \in Group("D") /\ h \in Group("H") /\ m \in Group("M") /\ s \in Group("S")
      /\ t = <<>> \/ t = <<"T">>
    BY DEF Form
<1>2. "D" \in Units /\ "H" \in Units /\ "M" \in Units /\ "S" \in Units
    BY DEF Units
<1>3. /\ d \in Texts /\ t \in Texts /\ h \in Texts /\ m \in Texts /\ s \in Texts
      /\ <<"P">> \in Texts /\ <<"T">> \in Texts /\ <<>> \in Texts
    BY FormTexts
<1>4. h \o m \in Texts
    BY ONLY <1>3, Join, Zenon
<1>5. time \in Texts
    BY ONLY <1>3, <1>4, Join, Zenon
<1>6. \A i \in 1..Len(d) : d[i] # "T"
    BY FormFree DEF Free
<1>7. TimeRead(DateRead(Fine, d), time) = all
    <2>1. DateRead(Fine, d) = Made(Worth(d) * Scale["D"], One(d), <<>>)
        BY ONLY <1>1, DateForward
    <2>2. Worth(d) * Scale["D"] \in Int
        <3>1. Worth(d) \in Int
            BY <1>1, <1>2, InGroup
        <3>2. Scale["D"] \in Int
            BY ONLY <1>2, Alphabet
        <3>. QED BY ONLY <3>1, <3>2
    <2>3. One(d) \in Int
        BY DEF One
    <2> DEFINE s0 == Worth(d) * Scale["D"]
               c0 == One(d)
    <2>4. s0 \in Int /\ c0 \in Int
        BY ONLY <2>2, <2>3
    <2>. HIDE DEF s0, c0
    <2>5. TimeRead(Made(s0, c0, <<>>), h \o m \o s) =
              Made(s0 + Worth(h) * Scale["H"] + Worth(m) * Scale["M"] + Worth(s) * Scale["S"],
                   c0 + One(h) + One(m) + One(s), <<>>)
        BY ONLY <1>1, <2>4, TimeForward
    <2>. QED BY ONLY <2>1, <2>5, Zenon DEF s0, c0
<1>. HIDE DEF all
<1>8. CASE t = <<>>
    <2>1. h = <<>> /\ m = <<>> /\ s = <<>> /\ d # <<>>
        BY <1>8 DEF Form, Ended
    <2>2. <<"P">> \o d \in Texts
        BY ONLY <1>3, Join, Zenon
    <2>3. \A y \in Texts : y \o <<>> = y
        BY DEF Texts
    <2>4. x = <<"P">> \o d
        BY ONLY <1>8, <2>1, <2>2, <2>3, Zenon DEF Written
    <2>5. x # <<>> /\ Head(x) = "P" /\ q = d
        BY ONLY <1>3, <2>4, TailIs
    <2>6. Split(q).ok = Fine /\ Split(q).date = d /\ Split(q).time = <<>>
        BY ONLY <1>3, <1>6, <2>5, SplitDate
    <2>7. time = <<>>
        BY ONLY <1>3, <2>1, <2>3, Zenon
    <2>8. Whole(x) = TimeRead(DateRead(Split(q).ok, Split(q).date), Split(q).time)
        BY ONLY Zenon DEF Whole
    <2>. HIDE DEF x, q, time
    <2>9. Whole(x) = all
        BY ONLY <1>7, <2>6, <2>7, <2>8, Zenon
    <2>. QED BY ONLY <2>5, <2>9, Zenon DEF x, all, ReadLeniently
<1>9. CASE t = <<"T">>
    <2>1. time # <<>>
        <3>1. ~ (h = <<>> /\ m = <<>> /\ s = <<>>)
            BY <1>9 DEF Ended
        <3>2. h # <<>> => h \o m # <<>>
            BY <1>3 DEF Texts
        <3>3. m # <<>> => h \o m # <<>>
            BY <1>3, Joins
        <3>4. s # <<>> => time # <<>>
            BY <1>3, <1>4, Joins
        <3> DEFINE hm == h \o m
        <3>. HIDE DEF hm
        <3>5. hm # <<>> => hm \o s # <<>>
            BY <1>3, <1>4 DEF hm, Texts
        <3>. QED BY ONLY <3>1, <3>2, <3>3, <3>4, <3>5, Zenon DEF hm
    <2> DEFINE body == d \o (<<"T">> \o time)
    <2>2. body = d \o <<"T">> \o time
        <3>1. Regrouped(d, <<"T">>, time)
            BY ONLY <1>3, <1>5, Regroup, Zenon
        <3>. QED BY ONLY <3>1, Zenon DEF Regrouped
    <2>3. body \in Texts
        BY ONLY <1>3, <1>5, Join, Zenon
    <2>4. x = <<"P">> \o body
        <3>1. <<"P">> \o d \in Texts
            BY ONLY <1>3, Join, Zenon
        <3>2. Flat(<<"P">> \o d, t, h, m, s)
            BY ONLY <1>3, <3>1, RegroupAll, Zenon
        <3>3. (<<"P">> \o d) \o (t \o time) = x
            BY ONLY <3>2, Zenon DEF Flat, Written
        <3>4. <<"T">> \o time \in Texts
            BY ONLY <1>3, <1>5, Join, Zenon
        <3>5. Regrouped(<<"P">>, d, <<"T">> \o time)
            BY ONLY <1>3, <3>4, Regroup, Zenon
        <3>6. (<<"P">> \o d) \o (<<"T">> \o time) = <<"P">> \o body
            BY ONLY <3>5, Zenon DEF Regrouped
        <3>. QED BY ONLY <1>9, <3>3, <3>6, Zenon
    <2>. HIDE DEF time, body
    <2>5. x # <<>> /\ Head(x) = "P" /\ q = body
        BY ONLY <2>3, <2>4, TailIs
    <2>6. Split(q).ok = Fine /\ Split(q).date = d /\ Split(q).time = time
        <3>1. /\ Split(d \o <<"T">> \o time).ok = Fine
              /\ Split(d \o <<"T">> \o time).date = d
              /\ Split(d \o <<"T">> \o time).time = time
            BY ONLY <1>3, <1>5, <1>6, <2>1, SplitBoth
        <3>. QED BY ONLY <2>2, <2>5, <3>1, Zenon
    <2>8. Whole(x) = TimeRead(DateRead(Split(q).ok, Split(q).date), Split(q).time)
        BY ONLY Zenon DEF Whole
    <2>. HIDE DEF x, q
    <2>9. Whole(x) = all
        BY ONLY <1>7, <2>6, <2>8, Zenon
    <2>. QED BY ONLY <2>5, <2>9, Zenon DEF x, all, ReadLeniently
<1>. QED BY <1>1, <1>8, <1>9

\* What is written and ended is the same number to both.
LEMMA ReadWritten ==
    ASSUME NEW d, NEW t, NEW h, NEW m, NEW s, Form(d, t, h, m, s), Ended(d, t, h, m, s)
    PROVE  LenientDuration(Written(d, t, h, m, s)) = ClientDuration(Written(d, t, h, m, s))
<1> DEFINE x == Written(d, t, h, m, s)
           seconds == Worth(d) * Scale["D"] + Worth(h) * Scale["H"]
                        + Worth(m) * Scale["M"] + Worth(s) * Scale["S"]
           components == One(d) + One(h) + One(m) + One(s)
<1>1. x # <<>> /\ Head(x) = "P" /\ Whole(x) = Made(seconds, components, <<>>)
    <2>1. ReadLeniently(d, t, h, m, s)
        BY ONLY Form(d, t, h, m, s), Ended(d, t, h, m, s), WholeIs, Zenon
    <2>. QED BY ONLY <2>1, Zenon DEF ReadLeniently
<1>2. components > 0
    <2>1. d # <<>> \/ h # <<>> \/ m # <<>> \/ s # <<>>
        BY DEF Form, Ended
    <2>2. /\ One(d) \in {0, 1} /\ One(h) \in {0, 1} /\ One(m) \in {0, 1} /\ One(s) \in {0, 1}
          /\ d # <<>> => One(d) = 1
          /\ h # <<>> => One(h) = 1
          /\ m # <<>> => One(m) = 1
          /\ s # <<>> => One(s) = 1
        BY DEF One
    <2>. QED BY ONLY <2>1, <2>2
<1>3. Whole(x).ok /\ Whole(x).components > 0 /\ Whole(x).seconds = seconds
    <2> DEFINE w == Whole(x)
    <2>1. w = [ok |-> Fine, seconds |-> seconds, components |-> components, part |-> <<>>]
        BY ONLY <1>1, Zenon DEF Made
    <2>. HIDE DEF w, seconds, components
    <2>2. w.ok = Fine /\ w.components = components /\ w.seconds = seconds
        BY ONLY <2>1
    <2>. QED BY ONLY <1>2, <2>2, Zenon DEF w, Fine
<1>4. LenientDuration(x) = seconds
    BY ONLY <1>1, <1>3, LenientIs, Zenon
<1>5. x \in Language
    BY LanguageIs
<1>6. /\ Captured(x, "D") = Worth(d) /\ Captured(x, "H") = Worth(h)
      /\ Captured(x, "M") = Worth(m) /\ Captured(x, "S") = Worth(s)
      /\ Last(x) \notin {"P", "T"}
    <2>1. ReadByClient(d, t, h, m, s)
        BY ONLY Form(d, t, h, m, s), ClientIs, Zenon
    <2>. QED BY ONLY <2>1, Ended(d, t, h, m, s), Zenon DEF ReadByClient
<1>7. ClientDuration(x) = ((Worth(d) * 24 + Worth(h)) * 60 + Worth(m)) * 60 + Worth(s)
    BY ONLY <1>5, <1>6, Zenon DEF ClientDuration
<1>8. Worth(d) \in Int /\ Worth(h) \in Int /\ Worth(m) \in Int /\ Worth(s) \in Int
    BY InGroup DEF Form, Units
<1>9. seconds = ((Worth(d) * 24 + Worth(h)) * 60 + Worth(m)) * 60 + Worth(s)
    BY ONLY <1>8, Alphabet
<1>. QED BY ONLY <1>4, <1>7, <1>9, Zenon

\* The client accepts nothing else.
LEMMA ClientAccepts ==
    ASSUME NEW x
    PROVE  \/ ClientDuration(x) = Invalid
           \/ \E d, t, h, m, s : /\ Form(d, t, h, m, s) /\ Ended(d, t, h, m, s)
                                 /\ x = Written(d, t, h, m, s)
<1>. SUFFICES ASSUME x \in Language, Last(x) \notin {"P", "T"}
              PROVE  \E d, t, h, m, s : /\ Form(d, t, h, m, s) /\ Ended(d, t, h, m, s)
                                        /\ x = Written(d, t, h, m, s)
    BY Zenon DEF ClientDuration
<1>1. PICK d, t, h, m, s : Form(d, t, h, m, s) /\ x = Written(d, t, h, m, s)
    BY LanguageIs, Zenon
<1>2. ReadByClient(d, t, h, m, s)
    BY ONLY <1>1, ClientIs, Zenon
<1>3. Ended(d, t, h, m, s)
    BY ONLY <1>1, <1>2, Last(x) \notin {"P", "T"}, Zenon DEF ReadByClient
<1>. QED BY ONLY <1>1, <1>3, Zenon

\* Nor does the lenient reader.
LEMMA LenientAccepts ==
    ASSUME NEW x \in Texts
    PROVE  \/ LenientDuration(x) = Invalid
           \/ \E d, t, h, m, s : /\ Form(d, t, h, m, s) /\ Ended(d, t, h, m, s)
                                 /\ x = Written(d, t, h, m, s)
<1> DEFINE body == Tail(x)
           ok == Split(body).ok
           date == Split(body).date
           time == Split(body).time
<1>1. SUFFICES ASSUME x # <<>>, Head(x) = "P", Whole(x).ok, Whole(x).components > 0
               PROVE  \E d, t, h, m, s : /\ Form(d, t, h, m, s) /\ Ended(d, t, h, m, s)
                                         /\ x = Written(d, t, h, m, s)
    BY LenientIs, Zenon
<1>2. body \in Texts /\ x = <<"P">> \o body
    BY ONLY <1>1, x \in Texts, HeadIs
<1>. HIDE DEF body
<1>3. /\ ok \in BOOLEAN /\ date \in Texts /\ time \in Texts
      /\ \/ time = <<>> /\ body = date
         \/ ok => time # <<>> /\ body = date \o <<"T">> \o time
    BY ONLY <1>2, SplitType, Zenon
<1>4. Whole(x) = TimeRead(DateRead(ok, date), time)
    BY ONLY Zenon DEF Whole, body
<1>. HIDE DEF ok, date, time
<1> DEFINE first == DateRead(ok, date)
<1>5. /\ first \in Reading
      /\ first.ok => ok /\ date \in Group("D") /\ first.components = One(date)
    <2>1. date \in Seq(Characters)
        BY ONLY <1>3 DEF Texts
    <2>. QED BY ONLY <1>3, <2>1, DateBack, Zenon
<1>. HIDE DEF first
<1>6. TimeRead(first, time).ok /\ TimeRead(first, time).components > 0
    BY ONLY <1>1, <1>4, Zenon DEF first
<1>7. /\ first.ok
      /\ \E h \in Group("H"), m \in Group("M"), s \in Group("S") :
            /\ time = h \o m \o s
            /\ TimeRead(first, time).components = first.components + One(h) + One(m) + One(s)
    <2>1. time \in Seq(Characters)
        BY ONLY <1>3 DEF Texts
    <2>. QED BY ONLY <1>5, <1>6, <2>1, TimeBack, Zenon
<1>8. ok /\ date \in Group("D") /\ first.components = One(date)
    BY ONLY <1>5, <1>7, Zenon
<1>9. PICK h \in Group("H"), m \in Group("M"), s \in Group("S") :
          /\ time = h \o m \o s
          /\ TimeRead(first, time).components = first.components + One(h) + One(m) + One(s)
    BY ONLY <1>7, Zenon
<1>10. /\ h \in Texts /\ m \in Texts /\ s \in Texts /\ <<"P">> \in Texts /\ <<"T">> \in Texts
       /\ <<>> \in Texts
    <2>1. Form(date, <<"T">>, h, m, s)
        BY ONLY <1>8, h \in Group("H"), m \in Group("M"), s \in Group("S"), Zenon DEF Form
    <2>. QED BY ONLY <2>1, FormTexts, Zenon
<1>11. CASE time = <<>> /\ body = date
    <2>1. h = <<>> /\ m = <<>> /\ s = <<>>
        <3>1. Len(h \o m \o s) = Len(h) + Len(m) + Len(s)
              /\ Len(h) \in Nat /\ Len(m) \in Nat /\ Len(s) \in Nat
            BY ONLY <1>10 DEF Texts
        <3>2. Len(h \o m \o s) = 0
            BY ONLY <1>9, <1>11
        <3>3. Len(h) = 0 /\ Len(m) = 0 /\ Len(s) = 0
            BY ONLY <3>1, <3>2
        <3>. QED BY <1>10, <3>3, EmptySeq DEF Texts
    <2>2. date # <<>>
        <3>. SUFFICES ASSUME date = <<>>
                      PROVE  FALSE
            OBVIOUS
        <3>1. One(date) = 0 /\ One(h) = 0 /\ One(m) = 0 /\ One(s) = 0
            BY ONLY <2>1, date = <<>>, Zenon DEF One
        <3>. QED BY ONLY <1>6, <1>8, <1>9, <3>1
    <2>3. Form(date, <<>>, h, m, s) /\ Ended(date, <<>>, h, m, s)
        <3>1. Ended(date, <<>>, h, m, s)
            BY ONLY <2>2, Zenon DEF Ended
        <3>2. Form(date, <<>>, h, m, s)
            BY ONLY <1>8, <2>1, h \in Group("H"), m \in Group("M"), s \in Group("S"), Zenon DEF Form
        <3>. QED BY ONLY <3>1, <3>2, Zenon
    <2>4. x = Written(date, <<>>, h, m, s)
        <3>1. \A y \in Texts : y \o <<>> = y
            BY DEF Texts
        <3>2. <<"P">> \o date \in Texts
            BY ONLY <1>3, <1>10, Join, Zenon
        <3>. QED BY ONLY <1>2, <1>11, <2>1, <3>1, <3>2, Zenon DEF Written
    <2>. QED BY ONLY <2>3, <2>4, Zenon
<1>12. CASE ok => time # <<>> /\ body = date \o <<"T">> \o time
    <2>1. time # <<>> /\ body = date \o <<"T">> \o time
        BY ONLY <1>8, <1>12, Zenon
    <2>2. ~ (h = <<>> /\ m = <<>> /\ s = <<>>)
        <3>. SUFFICES ASSUME h = <<>> /\ m = <<>> /\ s = <<>>
                      PROVE  FALSE
            BY Zenon
        <3>1. \A y \in Texts : y \o <<>> = y
            BY DEF Texts
        <3>. QED BY ONLY <1>9, <1>10, <2>1, <3>1, h = <<>> /\ m = <<>> /\ s = <<>>, Zenon
    <2>3. Form(date, <<"T">>, h, m, s) /\ Ended(date, <<"T">>, h, m, s)
        <3>1. <<"T">> # <<>>
            OBVIOUS
        <3>2. Ended(date, <<"T">>, h, m, s)
            BY ONLY <2>2, <3>1, Zenon DEF Ended
        <3>3. Form(date, <<"T">>, h, m, s)
            BY ONLY <1>8, <3>1, h \in Group("H"), m \in Group("M"), s \in Group("S"), Zenon DEF Form
        <3>. QED BY ONLY <3>2, <3>3, Zenon
    <2>4. x = Written(date, <<"T">>, h, m, s)
        <3>1. <<"P">> \o date \in Texts /\ <<"T">> \o time \in Texts
            BY ONLY <1>3, <1>10, Join, Zenon
        <3>2. Regrouped(date, <<"T">>, time) /\ Regrouped(<<"P">>, date, <<"T">> \o time)
            BY ONLY <1>3, <1>10, <3>1, Regroup, Zenon
        <3>3. Flat(<<"P">> \o date, <<"T">>, h, m, s)
            BY ONLY <1>10, <3>1, RegroupAll, Zenon
        <3>4. (<<"P">> \o date) \o (<<"T">> \o time) = Written(date, <<"T">>, h, m, s)
            BY ONLY <1>9, <3>3, Zenon DEF Flat, Written
        <3>5. (<<"P">> \o date) \o (<<"T">> \o time) = <<"P">> \o (date \o (<<"T">> \o time))
            BY ONLY <3>2, Zenon DEF Regrouped
        <3>6. body = date \o (<<"T">> \o time)
            BY ONLY <2>1, <3>2, Zenon DEF Regrouped
        <3>. QED BY ONLY <1>2, <3>4, <3>5, <3>6, Zenon
    <2>. QED BY ONLY <2>3, <2>4, Zenon
<1>. QED BY ONLY <1>3, <1>11, <1>12, Zenon

\* Client and lenient reader read a text alike.
LEMMA Alike ==
    ASSUME NEW x \in Texts
    PROVE  LenientDuration(x) = ClientDuration(x)
<1>1. CASE \E d, t, h, m, s : /\ Form(d, t, h, m, s) /\ Ended(d, t, h, m, s)
                              /\ x = Written(d, t, h, m, s)
    <2>1. PICK d, t, h, m, s : /\ Form(d, t, h, m, s) /\ Ended(d, t, h, m, s)
                               /\ x = Written(d, t, h, m, s)
        BY ONLY <1>1, Zenon
    <2>2. LenientDuration(Written(d, t, h, m, s)) = ClientDuration(Written(d, t, h, m, s))
        BY ONLY <2>1, ReadWritten, Zenon
    <2>. QED BY ONLY <2>1, <2>2, Zenon
<1>2. CASE ~ \E d, t, h, m, s : /\ Form(d, t, h, m, s) /\ Ended(d, t, h, m, s)
                                /\ x = Written(d, t, h, m, s)
    <2>1. LenientDuration(x) = Invalid
        BY ONLY <1>2, x \in Texts, LenientAccepts, Zenon
    <2>2. ClientDuration(x) = Invalid
        BY ONLY <1>2, ClientAccepts, Zenon
    <2>. QED BY ONLY <2>1, <2>2, Zenon
<1>. QED BY ONLY <1>1, <1>2, Zenon

(* --------------------------- the ASCII spelling -------------------------- *)

\* A spelling in ASCII is as long, and differs in digits only.
LEMMA AsciiIs ==
    ASSUME NEW p \in Texts
    PROVE  /\ Ascii(p) \in Texts
           /\ Len(Ascii(p)) = Len(p)
           /\ \A i \in 1..Len(p) : Ascii(p)[i] = IF p[i] = "1*" THEN "1" ELSE p[i]
<1> DEFINE q == [i \in 1..Len(p) |-> IF p[i] = "1*" THEN "1" ELSE p[i]]
<1>1. Len(p) \in Nat /\ \A i \in 1..Len(p) : p[i] \in Characters
    BY DEF Texts
<1>2. "1" \in Characters
    BY DEF Characters, Digits, DigitValue
<1>3. q \in [1..Len(p) -> Characters]
    BY <1>1, <1>2
<1>4. q \in Seq(Characters) /\ Len(q) = Len(p)
    <2>. HIDE DEF q
    <2>. QED BY ONLY <1>1, <1>3
<1>. QED BY <1>1, <1>4 DEF Ascii, Texts

\* Where the characters of a joined text come from.
LEMMA JoinIs ==
    ASSUME NEW a \in Texts, NEW b \in Texts
    PROVE  /\ a \o b \in Texts
           /\ Len(a) \in Nat /\ Len(b) \in Nat /\ Len(a \o b) = Len(a) + Len(b)
           /\ \A i \in 1..Len(a) : (a \o b)[i] = a[i]
           /\ \A i \in 1..Len(b) : (a \o b)[Len(a) + i] = b[i]
BY DEF Texts

\* Joining and spelling commute.
LEMMA AsciiJoin ==
    ASSUME NEW a \in Texts, NEW b \in Texts
    PROVE  Ascii(a \o b) = Ascii(a) \o Ascii(b)
<1> DEFINE x == Ascii(a \o b)
           y == Ascii(a) \o Ascii(b)
<1>1. /\ a \o b \in Texts
      /\ Len(a) \in Nat /\ Len(b) \in Nat /\ Len(a \o b) = Len(a) + Len(b)
      /\ \A i \in 1..Len(a) : (a \o b)[i] = a[i]
      /\ \A i \in 1..Len(b) : (a \o b)[Len(a) + i] = b[i]
    BY JoinIs
<1>2. /\ x \in Texts /\ Len(x) = Len(a) + Len(b)
      /\ \A i \in 1..(Len(a) + Len(b)) :
             x[i] = IF (a \o b)[i] = "1*" THEN "1" ELSE (a \o b)[i]
    BY <1>1, AsciiIs
<1>3. /\ Ascii(a) \in Texts /\ Len(Ascii(a)) = Len(a)
      /\ \A i \in 1..Len(a) : Ascii(a)[i] = IF a[i] = "1*" THEN "1" ELSE a[i]
      /\ Ascii(b) \in Texts /\ Len(Ascii(b)) = Len(b)
      /\ \A i \in 1..Len(b) : Ascii(b)[i] = IF b[i] = "1*" THEN "1" ELSE b[i]
    BY AsciiIs
<1>4. /\ y \in Texts /\ Len(y) = Len(a) + Len(b)
      /\ \A i \in 1..Len(a) : y[i] = Ascii(a)[i]
      /\ \A i \in 1..Len(b) : y[Len(a) + i] = Ascii(b)[i]
    <2> DEFINE c == Ascii(a)
               d == Ascii(b)
    <2>1. c \in Texts /\ d \in Texts /\ Len(c) = Len(a) /\ Len(d) = Len(b)
        BY <1>3
    <2>. HIDE DEF c, d
    <2>2. /\ c \o d \in Texts /\ Len(c \o d) = Len(c) + Len(d)
          /\ \A i \in 1..Len(c) : (c \o d)[i] = c[i]
          /\ \A i \in 1..Len(d) : (c \o d)[Len(c) + i] = d[i]
        BY ONLY <2>1, JoinIs
    <2>. QED BY ONLY <2>1, <2>2 DEF c, d
<1>. HIDE DEF x, y
<1>5. ASSUME NEW i \in 1..(Len(a) + Len(b))
      PROVE  x[i] = y[i]
    <2>1. CASE i <= Len(a)
        <3>1. i \in 1..Len(a)
            BY <2>1, <1>1
        <3>. QED BY ONLY <3>1, <1>1, <1>2, <1>3, <1>4, i \in 1..(Len(a) + Len(b))
    <2>2. CASE i > Len(a)
        <3>1. i - Len(a) \in 1..Len(b) /\ Len(a) + (i - Len(a)) = i
            BY <2>2, <1>1
        <3>2. (a \o b)[i] = b[i - Len(a)] /\ y[i] = Ascii(b)[i - Len(a)]
            BY ONLY <3>1, <1>1, <1>4
        <3>. QED BY ONLY <3>1, <3>2, <1>2, <1>3, i \in 1..(Len(a) + Len(b))
    <2>. QED BY <2>1, <2>2, <1>1
<1>6. x = y
    <2>1. x \in Seq(Characters) /\ y \in Seq(Characters)
        BY <1>2, <1>4 DEF Texts
    <2>. QED BY ONLY <1>2, <1>4, <1>5, <2>1, SeqEqual
<1>. QED BY <1>6 DEF x, y

\* No digit of another script.
Plain(p) == \A i \in 1..Len(p) : p[i] # "1*"

\* A text without digits of another script is its own spelling.
LEMMA PlainIs ==
    ASSUME NEW p \in Texts, Plain(p)
    PROVE  Ascii(p) = p
<1>1. /\ Ascii(p) \in Seq(Characters) /\ p \in Seq(Characters) /\ Len(Ascii(p)) = Len(p)
      /\ \A i \in 1..Len(p) : Ascii(p)[i] = p[i]
    BY AsciiIs DEF Plain, Texts
<1>. QED BY ONLY <1>1, SeqEqual

\* The letters are their own spelling, and nothing else is spelled as one.
LEMMA Letter ==
    ASSUME NEW c \in Units \cup {"P", "T"}
    PROVE  /\ c \notin Digits /\ c \in Characters
           /\ <<c>> \in Texts /\ Ascii(<<c>>) = <<c>>
<1>1. c \notin Digits /\ c \in Characters /\ "1*" \in Digits
    BY DEF Units, Characters, Digits, DigitValue
<1>2. <<c>> \in Texts /\ Plain(<<c>>)
    BY <1>1 DEF Texts, Plain
<1>. QED BY <1>1, <1>2, PlainIs

LEMMA AsciiPlace ==
    ASSUME NEW p \in Texts, NEW c \in Units \cup {"P", "T"}
    PROVE  Place(Ascii(p), c) = Place(p, c)
<1>1. c # "1" /\ c # "1*"
    BY DEF Units
<1>2. Len(Ascii(p)) = Len(p) /\ \A i \in 1..Len(p) : Ascii(p)[i] = c <=> p[i] = c
    BY <1>1, AsciiIs
<1>3. {i \in 1..Len(Ascii(p)) : Ascii(p)[i] = c} = {i \in 1..Len(p) : p[i] = c}
    BY <1>2
<1>. QED BY <1>3 DEF Place, SelectInSeq

\* A text cut at a letter.
LEMMA CutAt ==
    ASSUME NEW p \in Texts, NEW c \in Units \cup {"P", "T"}, Place(p, c) # 0
    PROVE  LET a == Before(p, Place(p, c))
               b == After(p, Place(p, c))
           IN  /\ a \in Texts /\ b \in Texts /\ p = a \o <<c>> \o b
               /\ Before(Ascii(p), Place(Ascii(p), c)) = Ascii(a)
               /\ After(Ascii(p), Place(Ascii(p), c)) = Ascii(b)
<1> DEFINE k == Place(p, c)
           a == Before(p, k)
           b == After(p, k)
<1>1. p \in Seq(Characters) /\ c \in Characters /\ k # 0 /\ c # "1" /\ c # "1*"
    BY Letter DEF Texts, Units
<1>2. a \in Texts /\ b \in Texts /\ p = a \o <<c>> \o b
    BY ONLY <1>1, Parts DEF Texts
<1>3. k \in 1..Len(p) /\ Len(p) \in Nat /\ \A i \in 1..(k - 1) : p[i] # c
    BY <1>1, PlaceFound
<1>. HIDE DEF k
<1>4. Len(a) = k - 1 /\ \A i \in 1..(k - 1) : a[i] = p[i]
    <2>1. \A i \in 1..(k - 1) : p[i] \in Characters
        BY <1>1, <1>3
    <2>. QED BY <1>3, <2>1, SubSeqProperties DEF Before
<1>. HIDE DEF a, b
<1>5. Ascii(a) \in Texts /\ Ascii(b) \in Texts /\ \A i \in 1..Len(Ascii(a)) : Ascii(a)[i] # c
    <2>1. \A i \in 1..Len(a) : a[i] # c
        BY <1>3, <1>4
    <2>. QED BY <1>1, <1>2, <2>1, AsciiIs
<1>6. Ascii(p) = Ascii(a) \o <<c>> \o Ascii(b)
    <2>1. <<c>> \in Texts /\ Ascii(<<c>>) = <<c>>
        BY Letter
    <2>2. a \o <<c>> \in Texts
        BY ONLY <1>2, <2>1, Join, Zenon
    <2>3. Ascii(p) = Ascii(a \o <<c>>) \o Ascii(b)
        BY ONLY <1>2, <2>2, AsciiJoin
    <2>4. Ascii(a \o <<c>>) = Ascii(a) \o <<c>>
        <3> DEFINE u == <<c>>
        <3>1. a \in Texts /\ u \in Texts /\ Ascii(u) = u
            BY ONLY <1>2, <2>1
        <3>. HIDE DEF u
        <3>2. Ascii(a \o u) = Ascii(a) \o Ascii(u)
            BY ONLY <3>1, AsciiJoin
        <3>. QED BY ONLY <3>1, <3>2, Zenon DEF u
    <2>. QED BY ONLY <2>3, <2>4, Zenon
<1>7. /\ Place(Ascii(p), c) = Len(Ascii(a)) + 1
      /\ Before(Ascii(p), Len(Ascii(a)) + 1) = Ascii(a)
      /\ After(Ascii(p), Len(Ascii(a)) + 1) = Ascii(b)
    <2>1. Ascii(a) \in Seq(Characters) /\ Ascii(b) \in Seq(Characters)
        BY <1>5 DEF Texts
    <2>2. /\ Place(Ascii(a) \o <<c>> \o Ascii(b), c) = Len(Ascii(a)) + 1
          /\ Before(Ascii(a) \o <<c>> \o Ascii(b), Len(Ascii(a)) + 1) = Ascii(a)
          /\ After(Ascii(a) \o <<c>> \o Ascii(b), Len(Ascii(a)) + 1) = Ascii(b)
        BY ONLY <1>1, <1>5, <2>1, Cutting
    <2>. QED BY ONLY <1>6, <2>2, Zenon
<1>. QED BY <1>2, <1>7 DEF a, b, k

\* A spelling in ASCII is a number to the trustee where the text is one leniently,
\* and it is the same number.
LEMMA AsciiNumber ==
    ASSUME NEW a \in Texts
    PROVE  /\ IsNumber(Ascii(a)) <=> LenientNumber(a)
           /\ LenientNumber(a) => Number(Ascii(a)) = Number(a)
<1> DEFINE b == Ascii(a)
<1>1. \A c \in Characters : c \in Digits <=> (IF c = "1*" THEN "1" ELSE c) \in AsciiDigits
    BY DEF Characters, Digits, AsciiDigits, DigitValue
<1>2. /\ b \in Texts /\ Len(b) = Len(a) /\ Len(a) \in Nat
      /\ \A i \in 1..Len(a) : a[i] \in Characters
      /\ \A i \in 1..Len(a) : b[i] = IF a[i] = "1*" THEN "1" ELSE a[i]
    BY AsciiIs DEF Texts
<1>. HIDE DEF b
<1>3. IsNumber(b) <=> LenientNumber(a)
    <2>1. \A i \in 1..Len(a) : b[i] \in AsciiDigits <=> a[i] \in Digits
        BY ONLY <1>1, <1>2
    <2>. QED BY ONLY <1>2, <2>1 DEF IsNumber, LenientNumber
<1>4. ASSUME LenientNumber(a)
      PROVE  Number(b) = Number(a)
    <2>1. /\ a \in Seq(Digits) /\ b \in Seq(Digits)
          /\ \A i \in 1..Len(a) : DigitValue[b[i]] = DigitValue[a[i]]
        <3>1. \A i \in 1..Len(a) : a[i] \in Digits
            BY <1>4 DEF LenientNumber
        <3>2. \A c \in Digits : /\ (IF c = "1*" THEN "1" ELSE c) \in Digits
                                /\ DigitValue[IF c = "1*" THEN "1" ELSE c] = DigitValue[c]
            BY DEF Digits, DigitValue
        <3>3. a \in Seq(Digits)
            BY <1>2, <3>1 DEF Texts
        <3>4. \A i \in 1..Len(b) : b[i] \in Digits /\ DigitValue[b[i]] = DigitValue[a[i]]
            BY ONLY <1>2, <3>1, <3>2
        <3>5. b \in Seq(Digits)
            BY <1>2, <3>4 DEF Texts
        <3>. QED BY ONLY <1>2, <3>3, <3>4, <3>5
    <2> DEFINE N == Len(a)
    <2>2. PICK f \in [0..N -> Int] : Spells(f, a) /\ Number(a) = f[N]
        BY <2>1, NumberIs
    <2>3. PICK g \in [0..N -> Int] : Spells(g, b) /\ Number(b) = g[N]
        BY <1>2, <2>1, NumberIs
    <2>. HIDE DEF N
    <2> DEFINE T == {n \in 0..N : g[n] = f[n]}
    <2>4. N \in Nat /\ N = Len(a) /\ N = Len(b)
        BY <1>2 DEF N
    <2>5. 0 \in T
        BY <2>2, <2>3, <2>4 DEF Spells
    <2>6. ASSUME NEW n \in 1..N, n - 1 \in T
          PROVE  n \in T
        <3>1. n \in 0..N /\ g[n - 1] = f[n - 1]
            BY <2>4, <2>6
        <3>2. f[n] = 10 * f[n - 1] + DigitValue[a[n]]
            BY <2>2, <2>4 DEF Spells
        <3>3. g[n] = 10 * g[n - 1] + DigitValue[b[n]]
            BY <2>3, <2>4 DEF Spells
        <3>4. DigitValue[b[n]] = DigitValue[a[n]]
            BY <2>1, <2>4
        <3>. QED BY ONLY <3>1, <3>2, <3>3, <3>4
    <2>7. \A n \in 0..N : n \in T
        <3>. HIDE DEF T
        <3>. QED BY ONLY <2>4, <2>5, <2>6, UpTo
    <2>. QED BY <2>2, <2>3, <2>4, <2>7
<1>. QED BY <1>3, <1>4 DEF b

\* A reading of the spelling in ASCII.
Spelled(read) == [read EXCEPT !.part = Ascii(read.part)]

LEMMA SpelledIs ==
    ASSUME NEW read \in Reading
    PROVE  /\ Spelled(read) \in Reading
           /\ Spelled(read).ok = read.ok /\ Spelled(read).seconds = read.seconds
           /\ Spelled(read).components = read.components
           /\ Spelled(read).part = Ascii(read.part)
           /\ read.part \in Texts /\ Ascii(read.part) \in Texts
<1>1. read.part \in Texts
    BY DEF Reading, Texts
<1>2. Ascii(read.part) \in Seq(Characters)
    BY <1>1, AsciiIs DEF Texts
<1>. QED BY <1>1, <1>2 DEF Reading, Spelled, Texts

\* The same of the trustee's cut.
LEMMA CutCases ==
    ASSUME NEW read, NEW u, NEW a, a = Before(read.part, Place(read.part, u))
    PROVE  /\ Place(read.part, u) = 0 => Cut(read, u) = read
           /\ Place(read.part, u) # 0 /\ ~IsNumber(a) =>
                  Cut(read, u) = [read EXCEPT !.ok = FALSE]
           /\ Place(read.part, u) # 0 /\ IsNumber(a) =>
                  Cut(read, u) = [ok |-> read.ok,
                                    seconds |-> read.seconds + Number(a) * Scale[u],
                                    components |-> read.components + 1,
                                    part |-> After(read.part, Place(read.part, u))]
<1>1. ASSUME Place(read.part, u) = 0
      PROVE  Cut(read, u) = read
    BY ONLY <1>1, Zenon DEF Cut
<1>2. ASSUME Place(read.part, u) # 0, ~IsNumber(a)
      PROVE  Cut(read, u) = [read EXCEPT !.ok = FALSE]
    <2>1. ~IsNumber(Before(read.part, Place(read.part, u)))
        BY ONLY <1>2, a = Before(read.part, Place(read.part, u)), Zenon
    <2>. QED BY ONLY <1>2, <2>1, Zenon DEF Cut
<1>3. ASSUME Place(read.part, u) # 0, IsNumber(a)
      PROVE  Cut(read, u) = [ok |-> read.ok,
                               seconds |-> read.seconds + Number(a) * Scale[u],
                               components |-> read.components + 1,
                               part |-> After(read.part, Place(read.part, u))]
    <2>1. IsNumber(Before(read.part, Place(read.part, u)))
        BY ONLY <1>3, a = Before(read.part, Place(read.part, u)), Zenon
    <2>. QED BY ONLY <1>3, <2>1, a = Before(read.part, Place(read.part, u)), Zenon DEF Cut
<1>. QED BY ONLY <1>1, <1>2, <1>3, Zenon

\* The trustee cuts the spelling where the lenient reader cuts the text.
LEMMA CutSpelled ==
    ASSUME NEW u \in Units, NEW read \in Reading
    PROVE  Cut(Spelled(read), u) = Spelled(LenientCut(read, u))
<1> DEFINE p == read.part
           q == Spelled(read)
<1>1. /\ q.ok = read.ok /\ q.seconds = read.seconds /\ q.components = read.components
      /\ q.part = Ascii(p) /\ p \in Texts /\ Place(q.part, u) = Place(p, u)
    BY SpelledIs, AsciiPlace
<1>2. CASE Place(p, u) = 0
    <2>1. Cut(q, u) = q
        BY ONLY <1>1, <1>2, CutCases, Zenon
    <2>2. LenientCut(read, u) = read
        BY ONLY <1>2, LenientCases, Zenon
    <2>. QED BY ONLY <2>1, <2>2, Zenon
<1>3. CASE Place(p, u) # 0
    <2> DEFINE a == Before(p, Place(p, u))
               b == After(p, Place(p, u))
    <2>1. /\ a \in Texts /\ b \in Texts
          /\ Before(q.part, Place(q.part, u)) = Ascii(a)
          /\ After(q.part, Place(q.part, u)) = Ascii(b)
        BY <1>1, <1>3, CutAt
    <2>2. Place(q.part, u) # 0
        BY <1>1, <1>3
    <2>3. CASE LenientNumber(a)
        <3>1. IsNumber(Ascii(a)) /\ Number(Ascii(a)) = Number(a)
            BY ONLY <2>1, <2>3, AsciiNumber
        <3>2. LenientCut(read, u) = [ok |-> read.ok,
                                     seconds |-> read.seconds + Number(a) * Scale[u],
                                     components |-> read.components + 1, part |-> b]
            BY ONLY <1>3, <2>3, LenientCases, Zenon
        <3>3. Cut(q, u) = [ok |-> q.ok,
                           seconds |-> q.seconds + Number(Ascii(a)) * Scale[u],
                           components |-> q.components + 1, part |-> Ascii(b)]
            <4> DEFINE c == Before(q.part, Place(q.part, u))
                       d == After(q.part, Place(q.part, u))
            <4>1. c = Ascii(a) /\ d = Ascii(b)
                BY ONLY <2>1, Zenon
            <4>2. IsNumber(c)
                BY ONLY <3>1, <4>1, Zenon
            <4>3. c = Before(q.part, Place(q.part, u))
                OBVIOUS
            <4>. HIDE DEF c
            <4>4. Cut(q, u) = [ok |-> q.ok,
                               seconds |-> q.seconds + Number(c) * Scale[u],
                               components |-> q.components + 1, part |-> d]
                BY ONLY <2>2, <4>2, <4>3, CutCases, Zenon
            <4>. HIDE DEF a, b, d, q
            <4>. QED BY ONLY <4>1, <4>4, Zenon
        <3> DEFINE seconds == read.seconds + Number(a) * Scale[u]
                   components == read.components + 1
        <3>4. /\ LenientCut(read, u) = [ok |-> read.ok, seconds |-> seconds,
                                        components |-> components, part |-> b]
              /\ Cut(q, u) = [ok |-> read.ok, seconds |-> seconds,
                              components |-> components, part |-> Ascii(b)]
            BY ONLY <1>1, <3>1, <3>2, <3>3, Zenon
        <3>. HIDE DEF a, b, p, q, seconds, components
        <3>5. Cut(q, u) = Spelled(LenientCut(read, u))
            BY ONLY <3>4 DEF Spelled
        <3>. QED BY ONLY <3>5, Zenon DEF q
    <2>4. CASE ~LenientNumber(a)
        <3>1. ~IsNumber(Ascii(a))
            BY ONLY <2>1, <2>4, AsciiNumber
        <3>2. LenientCut(read, u) = [read EXCEPT !.ok = FALSE]
            BY ONLY <1>3, <2>4, LenientCases, Zenon
        <3>3. Cut(q, u) = [q EXCEPT !.ok = FALSE]
            BY ONLY <2>1, <2>2, <3>1, CutCases, Zenon
        <3>4. [Spelled(read) EXCEPT !.ok = FALSE] = Spelled([read EXCEPT !.ok = FALSE])
            BY DEF Spelled, Reading
        <3>. QED BY ONLY <3>2, <3>3, <3>4, Zenon
    <2>. QED BY <2>3, <2>4
<1>. QED BY <1>2, <1>3

LEMMA AsciiEmpty ==
    ASSUME NEW p \in Texts
    PROVE  Ascii(p) = <<>> <=> p = <<>>
<1>1. Ascii(p) \in Seq(Characters) /\ p \in Seq(Characters) /\ Len(Ascii(p)) = Len(p)
    BY AsciiIs DEF Texts
<1>. QED BY ONLY <1>1, EmptySeq

\* Nothing is left over of the one reading where nothing is of the other.
LEMMA AllReadSpelled ==
    ASSUME NEW read \in Reading
    PROVE  AllRead(Spelled(read)) = Spelled(AllRead(read))
<1> DEFINE q == Spelled(read)
           all == read.ok /\ read.part = <<>>
<1>1. (q.ok /\ q.part = <<>>) = all
    <2>1. q.ok = read.ok /\ (q.part = <<>> <=> read.part = <<>>)
        BY SpelledIs, AsciiEmpty
    <2>. HIDE DEF q
    <2>. QED BY ONLY <2>1, Zenon DEF all
<1>2. AllRead(q) = [q EXCEPT !.ok = all] /\ AllRead(read) = [read EXCEPT !.ok = all]
    BY ONLY <1>1, Zenon DEF AllRead
<1>. HIDE DEF all
<1>3. [Spelled(read) EXCEPT !.ok = all] = Spelled([read EXCEPT !.ok = all])
    BY DEF Spelled, Reading
<1>. QED BY ONLY <1>2, <1>3, Zenon

\* Date and time are parted in the same place.
LEMMA SplitSpelled ==
    ASSUME NEW body \in Texts
    PROVE  /\ Split(Ascii(body)).ok = Split(body).ok
           /\ Split(Ascii(body)).date = Ascii(Split(body).date)
           /\ Split(Ascii(body)).time = Ascii(Split(body).time)
           /\ Split(body).ok \in BOOLEAN
           /\ Split(body).date \in Texts /\ Split(body).time \in Texts
<1> DEFINE k == Place(body, "T")
           a == Before(body, k)
           b == After(body, k)
<1>1. Place(Ascii(body), "T") = k
    BY AsciiPlace
<1>2. CASE k = 0
    <2>1. Split(body) = [ok |-> TRUE, date |-> body, time |-> <<>>]
        BY ONLY <1>2, Zenon DEF Split
    <2>2. Split(Ascii(body)) = [ok |-> TRUE, date |-> Ascii(body), time |-> <<>>]
        BY ONLY <1>1, <1>2, Zenon DEF Split
    <2>3. <<>> \in Texts /\ Ascii(<<>>) = <<>>
        <3>1. <<>> \in Texts
            BY DEF Texts
        <3>. QED BY ONLY <3>1, AsciiEmpty, Zenon
    <2>4. /\ Split(body).ok = TRUE /\ Split(body).date = body /\ Split(body).time = <<>>
          /\ Split(Ascii(body)).ok = TRUE /\ Split(Ascii(body)).date = Ascii(body)
          /\ Split(Ascii(body)).time = <<>>
        BY ONLY <2>1, <2>2
    <2>. QED BY ONLY <2>3, <2>4, body \in Texts, Zenon
<1>3. CASE k # 0
    <2>1. /\ a \in Texts /\ b \in Texts
          /\ Before(Ascii(body), k) = Ascii(a) /\ After(Ascii(body), k) = Ascii(b)
        BY <1>1, <1>3, CutAt
    <2> DEFINE some == b # <<>>
    <2>2. (Ascii(b) # <<>>) = some /\ some \in BOOLEAN
        BY ONLY <2>1, AsciiEmpty, Zenon
    <2>3. Split(body) = [ok |-> some, date |-> a, time |-> b]
        BY ONLY <1>3, Zenon DEF Split
    <2>4. Split(Ascii(body)) = [ok |-> some, date |-> Ascii(a), time |-> Ascii(b)]
        BY ONLY <1>1, <1>3, <2>1, <2>2, Zenon DEF Split
    <2>. HIDE DEF k, a, b, some
    <2>5. /\ Split(body).ok = some /\ Split(body).date = a /\ Split(body).time = b
          /\ Split(Ascii(body)).ok = some /\ Split(Ascii(body)).date = Ascii(a)
          /\ Split(Ascii(body)).time = Ascii(b)
        BY ONLY <2>3, <2>4
    <2>. QED BY ONLY <2>1, <2>2, <2>5, Zenon
<1>. QED BY ONLY <1>2, <1>3, Zenon

(* --------------------------- the trustee's whole ------------------------- *)

\* The two turns of the trustee's outer loop.
TrusteeDate(ok, date) ==
    AllRead(Cut([ok |-> ok, seconds |-> 0, components |-> 0, part |-> date], "D"))
TrusteeTime(read, time) ==
    AllRead(Cut(Cut(Cut([read EXCEPT !.part = time], "H"), "M"), "S"))

\* The reading the trustee judges.
TrusteeWhole(x) ==
    LET split == Split(Tail(x)) IN TrusteeTime(TrusteeDate(split.ok, split.date), split.time)

LEMMA TrusteeIs ==
    ASSUME NEW x
    PROVE  TrusteeDuration(x) =
               IF x = <<>> \/ Head(x) # "P" THEN Invalid
               ELSE IF TrusteeWhole(x).ok /\ TrusteeWhole(x).components > 0
                    THEN TrusteeWhole(x).seconds
               ELSE Invalid
BY Zenon DEF TrusteeDuration, TrusteeWhole, TrusteeDate, TrusteeTime

LEMMA TimeType ==
    ASSUME NEW read \in Reading, NEW time \in Seq(Characters)
    PROVE  TimeRead(read, time) \in Reading
<1> DEFINE start == [read EXCEPT !.part = time]
<1>1. start \in Reading /\ "H" \in Units /\ "M" \in Units /\ "S" \in Units
    BY DEF Reading, Units
<1>. HIDE DEF start
<1>2. LenientCut(LenientCut(LenientCut(start, "H"), "M"), "S") \in Reading
    BY ONLY <1>1, CutType
<1>3. AllRead(LenientCut(LenientCut(LenientCut(start, "H"), "M"), "S")) \in Reading
    BY ONLY <1>2, AllReadIs
<1>. QED BY ONLY <1>3, Zenon DEF TimeRead, start

LEMMA DateSpelled ==
    ASSUME NEW ok \in BOOLEAN, NEW date \in Texts
    PROVE  TrusteeDate(ok, Ascii(date)) = Spelled(DateRead(ok, date))
<1> DEFINE read == [ok |-> ok, seconds |-> 0, components |-> 0, part |-> date]
           spelling == [ok |-> ok, seconds |-> 0, components |-> 0, part |-> Ascii(date)]
<1>1. read \in Reading /\ "D" \in Units
    BY DEF Reading, Texts, Units
<1>2. spelling = Spelled(read)
    BY DEF Spelled
<1>. HIDE DEF read, spelling
<1>3. Cut(spelling, "D") = Spelled(LenientCut(read, "D")) /\ LenientCut(read, "D") \in Reading
    BY ONLY <1>1, <1>2, CutSpelled, CutType
<1>4. AllRead(Cut(spelling, "D")) = Spelled(AllRead(LenientCut(read, "D")))
    BY ONLY <1>3, AllReadSpelled
<1>. QED BY ONLY <1>4, Zenon DEF TrusteeDate, DateRead, read, spelling

LEMMA TimeSpelled ==
    ASSUME NEW read \in Reading, NEW time \in Texts
    PROVE  TrusteeTime(Spelled(read), Ascii(time)) = Spelled(TimeRead(read, time))
<1> DEFINE start == [read EXCEPT !.part = time]
           afterH == LenientCut(start, "H")
           afterM == LenientCut(afterH, "M")
           afterS == LenientCut(afterM, "S")
           spelling == [Spelled(read) EXCEPT !.part = Ascii(time)]
<1>1. start \in Reading /\ "H" \in Units /\ "M" \in Units /\ "S" \in Units
    BY DEF Reading, Texts, Units
<1>2. spelling = Spelled(start)
    BY DEF Spelled, Reading
<1>. HIDE DEF start, spelling
<1>3. Cut(spelling, "H") = Spelled(afterH) /\ afterH \in Reading
    BY ONLY <1>1, <1>2, CutSpelled, CutType
<1>. HIDE DEF afterH
<1>4. Cut(Spelled(afterH), "M") = Spelled(afterM) /\ afterM \in Reading
    BY ONLY <1>1, <1>3, CutSpelled, CutType
<1>. HIDE DEF afterM
<1>5. Cut(Spelled(afterM), "S") = Spelled(afterS) /\ afterS \in Reading
    BY ONLY <1>1, <1>4, CutSpelled, CutType
<1>. HIDE DEF afterS
<1>6. AllRead(Spelled(afterS)) = Spelled(AllRead(afterS))
    BY ONLY <1>5, AllReadSpelled
<1>7. TrusteeTime(Spelled(read), Ascii(time)) = Spelled(AllRead(afterS))
    BY ONLY <1>3, <1>4, <1>5, <1>6, Zenon DEF TrusteeTime, spelling
<1>. QED BY ONLY <1>7, Zenon DEF TimeRead, afterS, afterM, afterH, start

\* The trustee reads a spelling in ASCII as the lenient reader the text.
LEMMA DurationSpelled ==
    ASSUME NEW x \in Texts
    PROVE  TrusteeDuration(Ascii(x)) = LenientDuration(x)
<1> DEFINE y == Ascii(x)
<1>1. CASE x = <<>>
    <2>1. y = <<>>
        BY ONLY <1>1, x \in Texts, AsciiEmpty, Zenon
    <2>. HIDE DEF y
    <2>2. TrusteeDuration(y) = Invalid /\ LenientDuration(x) = Invalid
        BY ONLY <1>1, <2>1, TrusteeIs, LenientIs, Zenon
    <2>. QED BY ONLY <2>2, Zenon DEF y
<1>2. CASE x # <<>> /\ Head(x) # "P"
    <2>1. Head(y) # "P"
        <3>1. /\ Len(x) \in Nat \ {0} /\ Head(x) = x[1]
              /\ Head(y) = y[1]
            BY <1>2, EmptySeq, AsciiIs DEF Texts
        <3>2. y[1] = IF x[1] = "1*" THEN "1" ELSE x[1]
            BY <3>1, AsciiIs
        <3>. QED BY ONLY <1>2, <3>1, <3>2
    <2>. HIDE DEF y
    <2>2. TrusteeDuration(y) = Invalid /\ LenientDuration(x) = Invalid
        BY ONLY <1>2, <2>1, TrusteeIs, LenientIs, Zenon
    <2>. QED BY ONLY <2>2, Zenon DEF y
<1>3. CASE x # <<>> /\ Head(x) = "P"
    <2> DEFINE body == Tail(x)
               split == Split(body)
               first == DateRead(split.ok, split.date)
    <2>1. body \in Texts /\ x = <<"P">> \o body
        BY ONLY <1>3, x \in Texts, HeadIs
    <2>. HIDE DEF body
    <2>2. y = <<"P">> \o Ascii(body) /\ Ascii(body) \in Texts
        <3> DEFINE p == <<"P">>
        <3>1. p \in Texts /\ Ascii(p) = p
            BY Letter
        <3>. HIDE DEF p
        <3>2. Ascii(p \o body) = Ascii(p) \o Ascii(body)
            BY ONLY <2>1, <3>1, AsciiJoin
        <3>3. x = p \o body
            BY ONLY <2>1, Zenon DEF p
        <3>4. y = p \o Ascii(body)
            BY ONLY <3>1, <3>2, <3>3, Zenon
        <3>5. Ascii(body) \in Texts
            BY ONLY <2>1, AsciiIs
        <3>. QED BY ONLY <3>4, <3>5, Zenon DEF p
    <2>. HIDE DEF y
    <2>3. Tail(y) = Ascii(body) /\ Head(y) = "P" /\ y # <<>>
        BY ONLY <2>2, TailIs
    <2>4. /\ Split(Tail(y)).ok = split.ok
          /\ Split(Tail(y)).date = Ascii(split.date) /\ Split(Tail(y)).time = Ascii(split.time)
          /\ split.ok \in BOOLEAN /\ split.date \in Texts /\ split.time \in Texts
        BY ONLY <2>1, <2>3, SplitSpelled
    <2>. HIDE DEF split
    <2>5. TrusteeDate(split.ok, Ascii(split.date)) = Spelled(first) /\ first \in Reading
        <3>1. split.date \in Seq(Characters)
            BY ONLY <2>4 DEF Texts
        <3>. QED BY ONLY <2>4, <3>1, DateSpelled, DateBack
    <2>. HIDE DEF first
    <2>6. TrusteeTime(Spelled(first), Ascii(split.time)) = Spelled(TimeRead(first, split.time))
        BY ONLY <2>4, <2>5, TimeSpelled
    <2>7. TrusteeWhole(y) = Spelled(Whole(x))
        <3>1. TrusteeWhole(y) = Spelled(TimeRead(first, split.time))
            BY ONLY <2>4, <2>5, <2>6, Zenon DEF TrusteeWhole
        <3>2. TimeRead(first, split.time) = Whole(x)
            BY ONLY Zenon DEF Whole, first, split, body
        <3>. QED BY ONLY <3>1, <3>2, Zenon
    <2>8. /\ TrusteeWhole(y).ok = Whole(x).ok
          /\ TrusteeWhole(y).components = Whole(x).components
          /\ TrusteeWhole(y).seconds = Whole(x).seconds
        <3>1. Whole(x) \in Reading
            <4>1. TimeRead(first, split.time) \in Reading
                <5>1. split.time \in Seq(Characters)
                    BY ONLY <2>4 DEF Texts
                <5>. QED BY ONLY <2>5, <5>1, TimeType
            <4>. QED BY ONLY <4>1, Zenon DEF Whole, first, split, body
        <3>. QED BY ONLY <2>7, <3>1, SpelledIs
    <2>9. TrusteeDuration(y) = LenientDuration(x)
        BY ONLY <1>3, <2>3, <2>8, TrusteeIs, LenientIs, Zenon
    <2>. QED BY ONLY <2>9, Zenon DEF y
<1>. QED BY ONLY <1>1, <1>2, <1>3, Zenon

(* -------------------- what the trustee takes is ASCII -------------------- *)

\* A cut of the trustee's is a lenient cut, or a refusal.
LEMMA CutStrict ==
    ASSUME NEW u \in Units, NEW read \in Reading
    PROVE  \/ /\ Cut(read, u) = LenientCut(read, u)
              /\ Place(read.part, u) # 0 => IsNumber(Before(read.part, Place(read.part, u)))
           \/ Cut(read, u) = [read EXCEPT !.ok = FALSE]
<1> DEFINE k == Place(read.part, u)
           a == Before(read.part, k)
<1>1. CASE k = 0
    <2>1. Place(read.part, u) = 0
        BY <1>1
    <2>2. Cut(read, u) = read
        BY ONLY <2>1, CutCases, Zenon
    <2>3. LenientCut(read, u) = read
        BY ONLY <2>1, LenientCases, Zenon
    <2>. QED BY ONLY <2>1, <2>2, <2>3, Zenon
<1>2. CASE k # 0 /\ IsNumber(a)
    <2>1. LenientNumber(a)
        <3>1. AsciiDigits \subseteq Digits
            BY DEF AsciiDigits
        <3>. QED BY ONLY <1>2, <3>1 DEF IsNumber, LenientNumber
    <2>2. Cut(read, u) = [ok |-> read.ok, seconds |-> read.seconds + Number(a) * Scale[u],
                          components |-> read.components + 1, part |-> After(read.part, k)]
        BY ONLY <1>2, CutCases, Zenon
    <2>3. LenientCut(read, u) =
              [ok |-> read.ok, seconds |-> read.seconds + Number(a) * Scale[u],
               components |-> read.components + 1, part |-> After(read.part, k)]
        BY ONLY <1>2, <2>1, LenientCases, Zenon
    <2>. QED BY ONLY <1>2, <2>2, <2>3, Zenon
<1>3. CASE k # 0 /\ ~IsNumber(a)
    <2>1. Cut(read, u) = [read EXCEPT !.ok = FALSE]
        BY ONLY <1>3, CutCases, Zenon
    <2>. QED BY ONLY <2>1, Zenon
<1>. QED BY ONLY <1>1, <1>2, <1>3, Zenon

LEMMA PlainJoin ==
    ASSUME NEW a \in Texts, NEW b \in Texts, Plain(a), Plain(b)
    PROVE  Plain(a \o b)
<1>1. /\ Len(a) \in Nat /\ Len(b) \in Nat /\ Len(a \o b) = Len(a) + Len(b)
      /\ \A i \in 1..Len(a) : (a \o b)[i] = a[i]
      /\ \A i \in 1..Len(b) : (a \o b)[Len(a) + i] = b[i]
    BY JoinIs
<1>2. ASSUME NEW i \in 1..(Len(a) + Len(b))
      PROVE  (a \o b)[i] # "1*"
    <2>1. CASE i <= Len(a)
        BY <2>1, <1>1 DEF Plain
    <2>2. CASE i > Len(a)
        <3>1. i - Len(a) \in 1..Len(b) /\ Len(a) + (i - Len(a)) = i
            BY <2>2, <1>1
        <3>. QED BY <3>1, <1>1 DEF Plain
    <2>. QED BY <2>1, <2>2, <1>1
<1>. QED BY <1>1, <1>2 DEF Plain

\* What a cut that is not refused takes off is in ASCII.
LEMMA CutPlain ==
    ASSUME NEW u \in Units, NEW read \in Reading
    PROVE  /\ Cut(read, u) \in Reading
           /\ Cut(read, u).ok /\ Plain(Cut(read, u).part) => read.ok /\ Plain(read.part)
<1> DEFINE p == read.part
           k == Place(p, u)
           a == Before(p, k)
           b == After(p, k)
<1>1. CASE Cut(read, u) = [read EXCEPT !.ok = FALSE]
    BY <1>1 DEF Reading
<1>2. CASE Cut(read, u) = LenientCut(read, u) /\ (k # 0 => IsNumber(a))
    <2>1. Cut(read, u) \in Reading
        BY ONLY <1>2, u \in Units, read \in Reading, CutType
    <2>2. CASE k = 0
        <3>1. LenientCut(read, u) = read
            <4>1. Place(read.part, u) = 0
                BY <2>2
            <4>. QED BY ONLY <4>1, LenientCases, Zenon
        <3>. QED BY ONLY <1>2, <3>1, <2>1, Zenon
    <2>3. CASE k # 0
        <3>1. p \in Texts
            BY DEF Reading, Texts
        <3>2. a \in Texts /\ b \in Texts /\ p = a \o <<u>> \o b
            BY ONLY <2>3, <3>1, u \in Units, CutAt
        <3>3. IsNumber(a)
            BY ONLY <1>2, <2>3, Zenon
        <3>4. Cut(read, u).part = b /\ Cut(read, u).ok = read.ok
            <4> DEFINE seconds == read.seconds + Number(a) * Scale[u]
            <4>1. Cut(read, u) = [ok |-> read.ok, seconds |-> seconds,
                                  components |-> read.components + 1, part |-> b]
                BY ONLY <2>3, <3>3, CutCases, Zenon
            <4>. HIDE DEF seconds, b
            <4>. QED BY ONLY <4>1
        <3>. HIDE DEF a, b
        <3>5. Plain(a)
            <4>1. "1*" \notin AsciiDigits
                BY DEF AsciiDigits
            <4>. QED BY ONLY <3>3, <4>1 DEF IsNumber, Plain
        <3>6. <<u>> \in Texts /\ Plain(<<u>>)
            <4>1. u # "1*"
                BY DEF Units
            <4>2. <<u>> \in Texts
                BY ONLY u \in Units, Letter
            <4>. QED BY ONLY <4>1, <4>2 DEF Plain
        <3>7. Plain(b) => Plain(p)
            <4>1. a \o <<u>> \in Texts /\ Plain(a \o <<u>>)
                BY ONLY <3>2, <3>5, <3>6, Join, PlainJoin, Zenon
            <4>. QED BY ONLY <3>2, <4>1, PlainJoin, Zenon
        <3>. QED BY ONLY <2>1, <3>4, <3>7, Zenon
    <2>. QED BY ONLY <2>2, <2>3, Zenon
<1>. QED BY <1>1, <1>2, CutStrict

\* So a date that is not refused is in ASCII, and so is a time.
LEMMA DatePlain ==
    ASSUME NEW ok \in BOOLEAN, NEW date \in Texts
    PROVE  /\ TrusteeDate(ok, date) \in Reading
           /\ TrusteeDate(ok, date).ok => ok /\ Plain(date)
<1> DEFINE read == [ok |-> ok, seconds |-> 0, components |-> 0, part |-> date]
           cut == Cut(read, "D")
<1>1. read \in Reading /\ "D" \in Units /\ read.part = date /\ read.ok = ok
    BY DEF Reading, Texts, Units
<1>. HIDE DEF read
<1>2. cut \in Reading /\ (cut.ok /\ Plain(cut.part) => read.ok /\ Plain(read.part))
    BY ONLY <1>1, CutPlain
<1>. HIDE DEF cut
<1>3. AllRead(cut) \in Reading /\ (AllRead(cut).ok => cut.ok /\ cut.part = <<>>)
    BY ONLY <1>2, AllReadIs
<1>4. Plain(<<>>)
    BY DEF Plain
<1>5. TrusteeDate(ok, date) = AllRead(cut)
    BY ONLY Zenon DEF TrusteeDate, read, cut
<1>. QED BY ONLY <1>1, <1>2, <1>3, <1>4, <1>5, Zenon

LEMMA TimePlain ==
    ASSUME NEW read \in Reading, NEW time \in Texts, TrusteeTime(read, time).ok
    PROVE  read.ok /\ Plain(time)
<1> DEFINE start == [read EXCEPT !.part = time]
           afterH == Cut(start, "H")
           afterM == Cut(afterH, "M")
           afterS == Cut(afterM, "S")
<1>1. /\ start \in Reading /\ start.part = time /\ start.ok = read.ok
      /\ "H" \in Units /\ "M" \in Units /\ "S" \in Units
    BY DEF Reading, Texts, Units
<1>. HIDE DEF start
<1>2. afterH \in Reading /\ (afterH.ok /\ Plain(afterH.part) => start.ok /\ Plain(start.part))
    BY ONLY <1>1, CutPlain
<1>. HIDE DEF afterH
<1>3. afterM \in Reading /\ (afterM.ok /\ Plain(afterM.part) => afterH.ok /\ Plain(afterH.part))
    BY ONLY <1>1, <1>2, CutPlain
<1>. HIDE DEF afterM
<1>4. afterS \in Reading /\ (afterS.ok /\ Plain(afterS.part) => afterM.ok /\ Plain(afterM.part))
    BY ONLY <1>1, <1>3, CutPlain
<1>. HIDE DEF afterS
<1>5. AllRead(afterS).ok => afterS.ok /\ afterS.part = <<>>
    BY ONLY <1>4, AllReadIs
<1>6. TrusteeTime(read, time) = AllRead(afterS)
    BY ONLY Zenon DEF TrusteeTime, start, afterH, afterM, afterS
<1>7. Plain(<<>>)
    BY DEF Plain
<1>. QED BY ONLY <1>1, <1>2, <1>3, <1>4, <1>5, <1>6, <1>7, TrusteeTime(read, time).ok, Zenon

\* A text the trustee takes holds no digit of another script.
LEMMA TrusteePlain ==
    ASSUME NEW x \in Texts, TrusteeDuration(x) # Invalid
    PROVE  Plain(x)
<1> DEFINE body == Tail(x)
           split == Split(body)
           first == TrusteeDate(split.ok, split.date)
<1>1. x # <<>> /\ Head(x) = "P" /\ TrusteeWhole(x).ok
    BY ONLY TrusteeDuration(x) # Invalid, TrusteeIs, Zenon
<1>2. body \in Texts /\ x = <<"P">> \o body
    BY ONLY <1>1, x \in Texts, HeadIs
<1>3. TrusteeTime(first, split.time).ok
    BY ONLY <1>1, Zenon DEF TrusteeWhole
<1>. HIDE DEF body
<1>4. /\ split.ok \in BOOLEAN /\ split.date \in Texts /\ split.time \in Texts
      /\ \/ split.time = <<>> /\ body = split.date
         \/ split.ok => split.time # <<>> /\ body = split.date \o <<"T">> \o split.time
    BY ONLY <1>2, SplitType, Zenon
<1>. HIDE DEF split
<1>5. first \in Reading /\ (first.ok => split.ok /\ Plain(split.date))
    BY ONLY <1>4, DatePlain
<1>. HIDE DEF first
<1>6. first.ok /\ Plain(split.time)
    BY ONLY <1>3, <1>4, <1>5, TimePlain
<1>7. <<"T">> \in Texts /\ Plain(<<"T">>) /\ <<"P">> \in Texts /\ Plain(<<"P">>)
    <2>1. <<"T">> \in Texts /\ <<"P">> \in Texts
        BY Letter
    <2>. QED BY <2>1 DEF Plain
<1>8. Plain(body)
    <2>1. CASE body = split.date
        BY ONLY <2>1, <1>5, <1>6, Zenon
    <2>2. CASE body = split.date \o <<"T">> \o split.time
        <3>1. split.date \o <<"T">> \in Texts /\ Plain(split.date \o <<"T">>)
            BY ONLY <1>4, <1>5, <1>6, <1>7, Join, PlainJoin, Zenon
        <3>. QED BY ONLY <2>2, <3>1, <1>4, <1>6, PlainJoin, Zenon
    <2>3. split.ok
        BY ONLY <1>5, <1>6, Zenon
    <2>. QED BY ONLY <1>4, <2>1, <2>2, <2>3, Zenon
<1>. QED BY ONLY <1>2, <1>7, <1>8, PlainJoin, Zenon

\* What is tried are texts.
LEMMA TextsTried == TextSpec => [](text \in Texts)
<1>1. TextInit => text \in Texts
    BY DEF TextInit, Texts
<1>2. text \in Texts /\ [TextNext]_text => (text \in Texts)'
    BY DEF TextNext, Texts
<1>. QED BY <1>1, <1>2, PTL DEF TextSpec

\* The theorem: whatever text a policy holds, the client's regular expression reads
\* it as `duration` reads its spelling in ASCII, and `duration` refuses it if that is
\* another text.  So the two agree on every text in ASCII, and no text is two
\* different lengths of time.
THEOREM ReadersAgree == TextSpec => []ReadAlike
<1>1. ASSUME NEW x \in Texts
      PROVE  /\ ClientDuration(x) = TrusteeDuration(Ascii(x))
             /\ x # Ascii(x) => TrusteeDuration(x) = Invalid
    BY Alike, DurationSpelled, PlainIs, TrusteePlain, Zenon
<1>2. text \in Texts => ReadAlike
    BY <1>1, Zenon DEF ReadAlike
<1>. QED BY <1>2, TextsTried, PTL

=============================================================================
