------------------------------- MODULE Money -------------------------------
(***************************************************************************)
(* domain/money.py: the amount a statement prints becomes a number of      *)
(* minor units, and back.  A misreading here is multiplied into every      *)
(* balance and report, so the text is kept as a sequence of characters.    *)
(*                                                                         *)
(* Beside the digits a text has "blank" (any white space), "minus", "dash" *)
(* (a minus sign or dash of Unicode), "plus", "open", "close" (brackets),  *)
(* "comma", "point" and "other" (apostrophes, names of currencies).        *)
(***************************************************************************)
EXTENDS Integers, Sequences

CONSTANTS
    Exponents,  \* how many digits minor units have in the currencies of interest
    Precision,  \* significant digits of Python's decimal context, which are 28
    Inputs      \* texts of statements, and the amounts that are meant

Figures == <<"0", "1", "2", "3", "4", "5", "6", "7", "8", "9">>

Digits == {Figures[n] : n \in 1 .. 10}

ValueOf(c) == CHOOSE n \in 0 .. 9 : Figures[n + 1] = c

Separators == {"comma", "point"}

Signs == {"minus", "dash", "plus"}

Characters == Digits \cup Separators \cup Signs \cup {"blank", "open", "close", "other"}

ASSUME ExponentsAreISO == Exponents \subseteq {0, 2, 3}

ASSUME PrecisionIsPositive == Precision \in Nat \ {0}

\* clear: the text was printed in a manner that leaves no doubt of the amount
\* meant.
ASSUME InputsAreTexts ==
    \A i \in Inputs : /\ i.text \in Seq(Characters)
                      /\ i.exponent \in Exponents
                      /\ i.meant \in Int
                      /\ i.clear \in BOOLEAN

VARIABLES
    input,     \* the text, its currency's exponent, and the amount meant
    outcome,   \* what parse_amount did
    minor,     \* what it returned
    shown      \* what format_amount made of that

amountVars == <<input, outcome, minor, shown>>

----------------------------------------------------------------------------
\* What is left of a text when the characters at some places are kept.
Picked(text, places) ==
    LET upTo[i \in 0 .. Len(text)] ==
            IF i = 0 THEN <<>>
            ELSE IF i \in places THEN Append(upTo[i - 1], text[i]) ELSE upTo[i - 1]
    IN  upTo[Len(text)]

Places(C, text) == {i \in DOMAIN text : text[i] \in C}

Strip(text) ==
    LET filled == DOMAIN text \ Places({"blank"}, text)
    IN  Picked(text, {i \in DOMAIN text : \E j, k \in filled : j <= i /\ i <= k})

Bracketed(text) == Len(text) > 1 /\ text[1] = "open" /\ text[Len(text)] = "close"

Unbracketed(text) ==
    IF Bracketed(text) THEN Strip(Picked(text, 2 .. Len(text) - 1)) ELSE text

Replaced(c, d, text) == [i \in DOMAIN text |-> IF text[i] = c THEN d ELSE text[i]]

\* A bug of the code: a dash of Unicode is dropped with the other characters.
DroppedDash(text) == Picked(text, Places((Digits \cup Separators \cup Signs) \ {"dash"}, text))

\* Dashes become minus signs; what cannot be part of a number is dropped.
Cleaned(text) ==
    Picked(Replaced("dash", "minus", text), Places(Digits \cup Separators \cup Signs, text))

\* lstrip("+")
WithoutPlus(text) ==
    Picked(text, {i \in DOMAIN text : \E j \in 1 .. i : text[j] # "plus"})

Without(c, text) == Picked(text, DOMAIN text \ Places({c}, text))

\* Of two kinds of separators the last one is that of the fraction.
OnePoint(text) ==
    IF Places({"comma"}, text) # {} /\ Places({"point"}, text) # {}
    THEN IF \E i \in Places({"comma"}, text) : \A j \in Places({"point"}, text) : i > j
         THEN Replaced("comma", "point", Without("point", text))
         ELSE Without("comma", text)
    ELSE Replaced("comma", "point", text)

Normal(text) == OnePoint(WithoutPlus(Cleaned(Unbracketed(Strip(text)))))

\* _ALLOWED
Allowed(text) ==
    LET first == IF text # <<>> /\ text[1] = "minus" THEN 2 ELSE 1
    IN  /\ first <= Len(text)
        /\ \A i \in first .. Len(text) :
              \/ text[i] \in Digits
              \/ text[i] = "point" /\ i # first /\ i # Len(text)
        /\ \A i, j \in Places({"point"}, text) : i = j

\* The digits of a text as a number.
Number(text) ==
    LET upTo[i \in 0 .. Len(text)] ==
            IF i = 0 THEN 0
            ELSE IF text[i] \in Digits THEN 10 * upTo[i - 1] + ValueOf(text[i]) ELSE upTo[i - 1]
    IN  upTo[Len(text)]

\* How many digits stand behind the last separator; none without a separator.
Decimals(text) ==
    LET upTo[i \in 0 .. Len(text)] ==
            IF i = 0 \/ text[i] \in Separators THEN 0
            ELSE IF text[i] \in Digits THEN upTo[i - 1] + 1 ELSE upTo[i - 1]
    IN  IF Places(Separators, text) = {} THEN 0 ELSE upTo[Len(text)]

TenTo(k) ==
    LET power[i \in 0 .. k] == IF i = 0 THEN 1 ELSE 10 * power[i - 1]
    IN  power[k]

\* n without its last k digits.
Rest(n, k) ==
    LET rest[i \in 0 .. k] == IF i = 0 THEN n ELSE rest[i - 1] \div 10
    IN  rest[k]

\* How many digits n has; none when it is 0.
Length(n) ==
    LET length[m \in 0 .. n] == IF m = 0 THEN 0 ELSE length[m \div 10] + 1
    IN  length[n]

\* n to the significant digits of the context, ROUND_HALF_EVEN: what negating,
\* scaleb and no other operation in use does to a number that is longer.
Rounded(n) ==
    LET k == Length(n) - Precision
        kept == Rest(n, k)
        lost == n - kept * TenTo(k)
        up == 2 * lost > TenTo(k) \/ (2 * lost = TenTo(k) /\ kept % 2 = 1)
    IN  IF k <= 0 THEN n ELSE (IF up THEN kept + 1 ELSE kept) * TenTo(k)

\* Minor units in a number with that many decimals: scaleb.
Scaled(number, decimals, exponent) ==
    IF decimals > exponent
    THEN Rest(Rounded(number), decimals - exponent)
    ELSE Rounded(number) * TenTo(exponent - decimals)

\* A bug of _quantize: the remainder is rounded off, not refused.
ExactRounded(number, decimals, exponent) == TRUE

\* scaled = rounded: digits there are no minor units for are zeros.
Exact(number, decimals, exponent) ==
    decimals > exponent =>
        Rest(Rounded(number), decimals - exponent) * TenTo(decimals - exponent) = Rounded(number)

\* A minus sign inside brackets makes the amount positive again.
Negative(text) == ~ (Normal(text)[1] = "minus" <=> Bracketed(Strip(text)))

Readable(text, exponent) ==
    /\ Strip(text) # <<>>
    /\ Allowed(Normal(text))
    /\ Exact(Number(Normal(text)), Decimals(Normal(text)), exponent)

Size(m) == IF m < 0 THEN -m ELSE m

\* The digits that are printed of n, with a fraction of that width.
DigitSeq(n, width) ==
    LET k == IF Length(n) > width THEN Length(n) ELSE width + 1
    IN  [i \in 1 .. k |-> Figures[(Rest(n, k - i) % 10) + 1]]

\* A bug of format_amount: the sign is that of the whole part, which can be 0.
FormatSignOfWhole(m, exponent) ==
    LET digits == DigitSeq(Rounded(Size(m)), exponent)
        n == Len(digits) - exponent
    IN  (IF m < 0 /\ digits[1] # "0" THEN <<"minus">> ELSE <<>>) \o SubSeq(digits, 1, n)
            \o (IF exponent = 0 THEN <<>> ELSE <<"point">> \o SubSeq(digits, n + 1, n + exponent))

\* format_amount; without minor units str, which does not round
FormatAmount(m, exponent) ==
    LET digits == DigitSeq(IF exponent = 0 THEN Size(m) ELSE Rounded(Size(m)), exponent)
        n == Len(digits) - exponent
    IN  (IF m < 0 THEN <<"minus">> ELSE <<>>) \o SubSeq(digits, 1, n)
            \o (IF exponent = 0 THEN <<>> ELSE <<"point">> \o SubSeq(digits, n + 1, n + exponent))

----------------------------------------------------------------------------
\* What a printed text means.  The last separator is that of the fraction and
\* has digits on both sides; the others, those of groups, are of the other kind.
OneFraction(text) ==
    \A p \in Places(Separators, text) :
        (\A q \in Places(Separators, text) : q <= p) =>
            /\ \E i, k \in Places(Digits, text) : i < p /\ p < k
            /\ \A q \in Places(Separators, text) \ {p} : text[q] # text[p]

SignInFront(text) ==
    \A i \in Places(Signs, text) : /\ \A j \in Places(Signs, text) : i = j
                                   /\ \A k \in Places(Digits \cup Separators, text) : i < k

BelowZero(text) == Places({"minus", "dash"}, text) # {} \/ Bracketed(text)

Means(text, exponent, amount) ==
    /\ Places(Digits, text) # {} /\ OneFraction(text) /\ SignInFront(text)
    /\ IF Bracketed(text) THEN Places(Signs, text) = {} ELSE Places({"open"}, text) = {}
    /\ Decimals(text) <= exponent
    /\ LET n == Number(text) * TenTo(exponent - Decimals(text))
       IN  amount = IF BelowZero(text) THEN -n ELSE n

ASSUME ClearTextsMean ==
    \A i \in Inputs : i.clear => Means(i.text, i.exponent, i.meant)

----------------------------------------------------------------------------
AmountInit ==
    /\ input \in Inputs
    /\ outcome = "none"
    /\ minor = 0
    /\ shown = <<>>

ParseAmount ==
    /\ outcome = "none"
    /\ Readable(input.text, input.exponent)
    /\ LET normal == Normal(input.text)
           n == Scaled(Number(normal), Decimals(normal), input.exponent)
       IN  minor' = IF Negative(input.text) THEN -n ELSE n
    /\ outcome' = "parsed"
    /\ UNCHANGED <<input, shown>>

\* MoneyParseError
Refuse ==
    /\ outcome = "none"
    /\ ~ Readable(input.text, input.exponent)
    /\ outcome' = "refused"
    /\ UNCHANGED <<input, minor, shown>>

Show ==
    /\ outcome = "parsed"
    /\ outcome' = "shown"
    /\ shown' = FormatAmount(minor, input.exponent)
    /\ UNCHANGED <<input, minor>>

AmountNext == ParseAmount \/ Refuse \/ Show

AmountSpec == AmountInit /\ [][AmountNext]_amountVars

----------------------------------------------------------------------------
Read == outcome \in {"parsed", "shown"}

\* The number of the text has as many significant digits as the context keeps.
Fits(text) == Number(text) < TenTo(Precision)

\* An amount printed without ambiguity is read, and read as what was meant, in
\* every manner of grouping, sign and fraction (money.py:46-59).
ReadAsMeant ==
    input.clear /\ Fits(input.text) => outcome # "refused" /\ (Read => minor = input.meant)

SignInside(text) ==
    \E i, k \in Places(Digits, text) : \E j \in i .. k : text[j] \in Signs

\* Of any text at all: what is read from it are its digits, all of them, with
\* the point in the place of its last separator or behind the last digit;
\* nothing is rounded, and no sign stands between them (money.py:117).
DigitsKept ==
    Read => /\ Fits(input.text) =>
                  Size(minor) * TenTo(Decimals(input.text))
                      = Number(input.text) * TenTo(input.exponent)
            /\ ~ SignInside(input.text)

\* What format_amount prints is read back as the same amount, and has all
\* digits of the fraction (money.py:130).
ShownReadsBack ==
    outcome = "shown" =>
        /\ Readable(shown, input.exponent)
        /\ Scaled(Number(Normal(shown)), Decimals(Normal(shown)), input.exponent) = Size(minor)
        /\ Negative(shown) <=> minor < 0
        /\ Decimals(shown) = input.exponent

=============================================================================
