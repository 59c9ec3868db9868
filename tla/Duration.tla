------------------------------ MODULE Duration ------------------------------
(* The two readers of ISO 8601 durations that should agree: the trustee's      *)
(* `duration` (src/src/wire.rs), which cuts the text at each unit in turn, and *)
(* the client's (src/tools/client.py), one regular expression.  The cooldown   *)
(* and lifetime of a policy are read by both.  A text is the sequence of its   *)
(* characters.                                                                 *)
(*                                                                             *)
(* A digit is more to the client than to the trustee: `\d` in a Python string  *)
(* matches the decimal digits of every script, and `int` reads them by their   *)
(* value, where the trustee asks for `is_ascii_digit`.                         *)
EXTENDS Integers, Sequences, SequencesExt

CONSTANTS
    MaxDigits,      \* digits in one component (6 in the code)
    MaxLength       \* bound: the longest text tried

ASSUME DurationAssumption == MaxDigits \in Nat

\* Two ASCII digits, and "1*": the digit of another script whose value is 1.
DigitValue == [c \in {"0", "1", "1*"} |-> IF c = "0" THEN 0 ELSE 1]
Digits == DOMAIN DigitValue
AsciiDigits == Digits \ {"1*"}
Characters == Digits \cup {"P", "T", "D", "H", "M", "S"}

\* Seconds in a unit.
Scale == [D |-> 86400, H |-> 3600, M |-> 60, S |-> 1]

Invalid == -1

\* The number a run of digits spells.
Number(digits) ==
    LET upTo[n \in 0..Len(digits)] ==
            IF n = 0 THEN 0 ELSE 10 * upTo[n - 1] + DigitValue[digits[n]]
    IN  upTo[Len(digits)]

(* ------------------------------ the trustee ------------------------------ *)

\* `split_once`: the first place of a character, 0 if there is none.
Place(text, c) == SelectInSeq(text, LAMBDA x : x = c)
Before(text, i) == SubSeq(text, 1, i - 1)
After(text, i) == SubSeq(text, i + 1, Len(text))

IsNumber(digits) ==
    /\ Len(digits) \in 1..MaxDigits
    /\ \A i \in 1..Len(digits) : digits[i] \in AsciiDigits

\* One turn of the inner loop: cut `read.part` at the unit, if it is there.
Cut(read, unit) ==
    LET i == Place(read.part, unit)
        digits == Before(read.part, i)
    IN  IF i = 0 THEN read
        ELSE IF ~IsNumber(digits) THEN [read EXCEPT !.ok = FALSE]
        ELSE [ok         |-> read.ok,
              seconds    |-> read.seconds + Number(digits) * Scale[unit],
              components |-> read.components + 1,
              part       |-> After(read.part, i)]

\* The end of the outer loop's turn: nothing of the date or time may be left over.
AllRead(read) == [read EXCEPT !.ok = read.ok /\ read.part = <<>>]

MutSplit(body) ==
    LET i == Place(body, "T")
    IN  IF i = 0 THEN [ok |-> TRUE, date |-> body, time |-> <<>>]
        ELSE [ok |-> TRUE, date |-> Before(body, i), time |-> After(body, i)]

\* The date and the time around "T"; a "T" that nothing follows is refused.
Split(body) ==
    LET i == Place(body, "T")
    IN  IF i = 0 THEN [ok |-> TRUE, date |-> body, time |-> <<>>]
        ELSE [ok   |-> After(body, i) # <<>>,
              date |-> Before(body, i), time |-> After(body, i)]

TrusteeDuration(text) ==
    LET split == Split(Tail(text))
        fresh == [ok |-> split.ok, seconds |-> 0, components |-> 0, part |-> split.date]
        date == AllRead(Cut(fresh, "D"))
        time == AllRead(Cut(Cut(Cut([date EXCEPT !.part = split.time], "H"), "M"), "S"))
    IN  IF text = <<>> \/ Head(text) # "P" THEN Invalid
        ELSE IF time.ok /\ time.components > 0 THEN time.seconds
        ELSE Invalid

(* ------------------------------- the client ------------------------------ *)

\* The expression's groups, each optional: (?:(\d{1,6})u)?, of digits of any script.
Group(unit) ==
    {<<>>} \cup {digits \o <<unit>> : digits \in UNION {[1..n -> Digits] : n \in 1..MaxDigits}}

\* The texts the expression matches in full.
Language ==
    LET time == {h \o m \o s : h \in Group("H"), m \in Group("M"), s \in Group("S")}
    IN  {<<"P">> \o d \o t : d \in Group("D"), t \in {<<>>} \cup {<<"T">> \o x : x \in time}}

\* What the unit's group captured, as a number: the digits right before it.
Captured(text, unit) ==
    LET end == Place(text, unit)
        start == SelectLastInSeq(Before(text, end), LAMBDA c : c \notin Digits)
    IN  IF end = 0 THEN 0 ELSE Number(SubSeq(text, start + 1, end - 1))

\* Texts that end in "P" or "T" raise, though the expression matches them.
ClientDuration(text) ==
    IF text \notin Language \/ Last(text) \in {"P", "T"} THEN Invalid
    ELSE ((Captured(text, "D") * 24 + Captured(text, "H")) * 60 + Captured(text, "M")) * 60
         + Captured(text, "S")

(* ------------------------------ the texts -------------------------------- *)

VARIABLE text

TextInit == text = <<>>

\* A text that does not start with "P", or holds another, is tried but not
\* continued: both refuse it.
TextNext ==
    /\ Len(text) < MaxLength
    /\ \A i \in 1..Len(text) : text[i] = "P" <=> i = 1
    /\ \E c \in Characters : text' = Append(text, c)

TextSpec == TextInit /\ [][TextNext]_text

\* The same text with its digits in ASCII.
Ascii(string) == [i \in 1..Len(string) |-> IF string[i] = "1*" THEN "1" ELSE string[i]]

\* The client reads a text as the trustee reads its ASCII spelling, and the trustee
\* refuses every other spelling.  So both refuse the same ASCII texts and read the
\* others as the same seconds, and what a trustee takes the client never reads as
\* something else: a session it plans is judged by the cooldown and lifetime it
\* was planned for.  All that sets them apart are the digits of other scripts,
\* which the client alone takes.
ReadAlike ==
    /\ ClientDuration(text) = TrusteeDuration(Ascii(text))
    /\ text # Ascii(text) => TrusteeDuration(text) = Invalid
=============================================================================
