------------------------------- MODULE Slip39 -------------------------------
(* Validation of one SLIP-0039 share, src/src/slip39.rs.  A share is the       *)
(* sequence of its 33 words, each by its place in the word list (0..1023); the *)
(* list itself, and the splitting of a mnemonic into words, are left out.      *)
(* Checksums are sets of bit positions: xor is symmetric difference.           *)
EXTENDS Naturals, FiniteSets, Sequences, SequencesExt

CONSTANTS
    Vectors,        \* reference shares, with the verdict the standard's tool gives
    WrongWords,     \* the words an error may put in place of another
    MaxErrors       \* bound: errors made in one copy

WordCount == 33
Words == 0..1023

ASSUME ShareAssumption ==
    /\ \A v \in Vectors : v.words \in Seq(Words)
    /\ WrongWords \subseteq Words

Bits(n, width) == {i \in 0..(width - 1) : (n \div 2^i) % 2 = 1}

Xor(a, b) == (a \ b) \cup (b \ a)

(* ------------------------------- checksum -------------------------------- *)

\* GENERATOR, by the bit of `top` that selects it (0xE0E040, 0x1C1C080, ...).
Generator ==
    LET values == <<14737472, 29474944, 58949888, 117899776, 235798537, 470557714,
                    940076068, 814808136, 565311632, 66318624>>
    IN  [bit \in 0..9 |-> Bits(values[bit + 1], 30)]

\* Every generator the bits of `top` select, xored together.
Feedback(top) ==
    {i \in 0..29 : Cardinality({bit \in top : i \in Generator[bit]}) % 2 = 1}

\* One round of rs1024_polymod: `value` is a word, as a set of bits.
Round(checksum, value) ==
    LET top == {i \in 0..9 : i + 20 \in checksum}
        shifted == {i + 10 : i \in {j \in checksum : j < 20}}
    IN  Xor(Xor(shifted, value), Feedback(top))

\* `rs1024_polymod`: the rounds over `values`, from `checksum` on.
Rounds(checksum, values) ==
    LET after[n \in 0..Len(values)] ==
            IF n = 0 THEN checksum ELSE Round(after[n - 1], Bits(values[n], 10))
    IN  after[Len(values)]

\* The checksum after each customization string's bytes.
Shamir == Rounds(Bits(1, 30), <<115, 104, 97, 109, 105, 114>>)
ShamirExtendable == Rounds(Shamir, <<95, 101, 120, 116, 101, 110, 100, 97, 98, 108, 101>>)

\* Three facts about the numbers above.  They have no parameter: evaluating them,
\* as TLC does in every run of this module, is their proof.  The powers that
\* `Bits` divides by;
ASSUME PowersOfTwo ==
    <<2^0, 2^1, 2^2, 2^3, 2^4, 2^5, 2^6, 2^7, 2^8, 2^9>> =
        <<1, 2, 4, 8, 16, 32, 64, 128, 256, 512>>

\* the low words of the generators are independent: what is fed back shows in
\* its low word whether anything was;
ASSUME GeneratorIndependent ==
    \A top \in SUBSET (0..9) : top # {} => Feedback(top) \cap 0..9 # {}

\* two or three words after the customizations, their checksums still differ in
\* more than the last two words.
ASSUME CustomizationsApart ==
    LET twice == Round(Round(Xor(Shamir, ShamirExtendable), {}), {})
    IN  ~ (twice \subseteq 0..19) /\ ~ (Round(twice, {}) \subseteq 0..19)

(* -------------------------------- fields --------------------------------- *)

IdExp(share) == share[1] * 1024 + share[2]
Extendable(share) == (IdExp(share) \div 16) % 2 = 1

\* One of the five 4-bit fields of words 2 and 3.
Nibble(share, shift) == ((share[3] * 1024 + share[4]) \div 2^shift) % 16

\* Mutant: only the low word of the residue is compared.
MutChecksumHolds(share) ==
    Rounds(IF Extendable(share) THEN ShamirExtendable ELSE Shamir, share) \cap 0..9 = {0}

\* The residue over a valid share is 1; the flag picks the customization.
ChecksumHolds(share) ==
    Rounds(IF Extendable(share) THEN ShamirExtendable ELSE Shamir, share) = Bits(1, 30)

\* `decode`: what the words say, once they are a share at all.
WellFormed(share) ==
    /\ Len(share) = WordCount
    /\ ChecksumHolds(share)
    /\ share[5] \div 64 = 0

Fields(share) ==
    [identifier        |-> IdExp(share) \div 32,
     extendable        |-> Extendable(share),
     iterationExponent |-> IdExp(share) % 16,
     groupIndex        |-> Nibble(share, 16),
     groupThreshold    |-> Nibble(share, 12) + 1,
     groupCount        |-> Nibble(share, 8) + 1,
     memberIndex       |-> Nibble(share, 4),
     memberThreshold   |-> Nibble(share, 0) + 1]

\* `validate`: not extendable, exponent 0, one group, threshold at least 2.
InProfile(fields) ==
    /\ ~fields.extendable
    /\ fields.iterationExponent = 0
    /\ fields.groupIndex = 0
    /\ fields.groupThreshold = 1
    /\ fields.groupCount = 1
    /\ fields.memberThreshold >= 2

\* `validate`: "ok", or the ShareError.
Validate(share) ==
    IF ~WellFormed(share) THEN "malformed"
    ELSE IF ~InProfile(Fields(share)) THEN "unsupported"
    ELSE "ok"

(* ------------------------- the share that arrives ------------------------ *)

VARIABLES
    vector,     \* the reference share that was meant
    words,      \* the words `validate` is given
    errors      \* how many errors were made in between

shareVars == <<vector, words, errors>>

ShareInit ==
    /\ vector \in Vectors
    /\ words = vector.words
    /\ errors = 0

Changed(new) ==
    /\ errors < MaxErrors
    /\ errors' = errors + 1
    /\ words' = new
    /\ UNCHANGED vector

\* A word read as another, two neighbours exchanged, a word left out or
\* written twice.
Misread(i, w) == words[i] # w /\ Changed(ReplaceAt(words, i, w))
Exchange(i) == Changed([words EXCEPT ![i] = words[i + 1], ![i + 1] = words[i]])
Drop(i) == Changed(RemoveAt(words, i))
Repeat(i) == Changed(InsertAt(words, i, words[i]))

ShareNext ==
    \/ \E i \in 1..Len(words), w \in WrongWords : Misread(i, w)
    \/ \E i \in 1..(Len(words) - 1) : Exchange(i)
    \/ \E i \in 1..Len(words) : Drop(i) \/ Repeat(i)

ShareSpec == ShareInit /\ [][ShareNext]_shareVars

(* ------------------------------ properties ------------------------------- *)

\* An undamaged share gets the verdict of the reference tool, and its member and
\* threshold are read as that tool wrote them.  With words misread, exchanged, left
\* out or repeated it is malformed and never taken for another share ("No ...
\* correction", decode), also when an error flips the flag that picks the
\* checksum's customization.
SharesReadRight ==
    IF words # vector.words THEN Validate(words) = "malformed"
    ELSE errors = 0 =>
        /\ Validate(words) = vector.verdict
        /\ WellFormed(words) =>
              /\ Fields(words).memberIndex = vector.memberIndex
              /\ Fields(words).memberThreshold = vector.memberThreshold
=============================================================================
