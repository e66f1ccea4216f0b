------------------------------ MODULE MCMoney ------------------------------
(***************************************************************************)
(* Amounts of up to seven digits in every manner of printing, and texts of *)
(* up to five characters in no manner at all.                              *)
(***************************************************************************)
EXTENDS Money, SequencesExt, FiniteSetsExt

Amounts == {0, 1, 5, 10, 99, 100, 1000, 1234, 1050, 123456, 100000, 1000000, 1234567}

\* The whole part in groups of three.
Grouped(digits, separator) ==
    LET n == Len(digits)
        group(i) == IF i > 1 /\ (n - i + 1) % 3 = 0 THEN separator \o <<digits[i]>> ELSE <<digits[i]>>
    IN  FoldLeft(LAMBDA text, i : text \o group(i), <<>>, [i \in 1 .. n |-> i])

\* Without the zeros at its end, of which one may have to stay.
Trimmed(fraction) ==
    LET kept == {1} \cup {i \in DOMAIN fraction : fraction[i] # "0"}
    IN  SubSeq(fraction, 1, Max(kept))

Manners == {"none", "plus", "minus", "dash", "brackets", "brackets and currency"}

Signed(sign, text) ==
    CASE sign = "none" -> text
      [] sign \in Signs -> <<sign>> \o text
      [] sign = "brackets" -> <<"open">> \o text \o <<"close">>
      [] sign = "brackets and currency" -> <<"open">> \o text \o <<"close", "blank", "other">>

\* Amounts printed with all digits of the fraction, without zeros at the end,
\* or without a fraction that is zero.
Printed(amount, exponent, sign, separator, mark, style) ==
    LET digits == DigitSeq(amount, exponent)
        n == Len(digits) - exponent
        fraction == SubSeq(digits, n + 1, Len(digits))
        whole == Grouped(SubSeq(digits, 1, n), separator)
        number == CASE style = "full" -> whole \o <<mark>> \o fraction
                    [] style = "trimmed" -> whole \o <<mark>> \o Trimmed(fraction)
                    [] style = "whole" -> whole
    IN  [text     |-> Signed(sign, number),
         exponent |-> exponent,
         meant    |-> IF sign \in {"none", "plus"} THEN amount ELSE -amount,
         clear    |-> /\ sign # "brackets and currency"
                      /\ style = "whole" => n <= 3 \/ separator \notin {<<"comma">>, <<"point">>}]

Grouping == {<<>>, <<"blank">>, <<"other">>, <<"comma">>, <<"point">>}

Statements ==
    UNION {
        {Printed(a, e, sign, sep, mark, "full") :
            a \in Amounts, e \in Exponents \ {0}, sign \in Manners,
            sep \in Grouping \ {<<mark>>}}
        \cup {Printed(a, e, sign, sep, mark, "trimmed") :
            a \in Amounts, e \in Exponents \ {0}, sign \in Manners,
            sep \in Grouping \ {<<mark>>}} : mark \in Separators}
    \cup {Printed(123456789, e, sign, <<>>, "comma", "full") : e \in Exponents \ {0}, sign \in Manners}
    \cup UNION {{Printed(a * 10 ^ e, e, sign, sep, "point", "whole") :
            a \in Amounts \ {1000000, 1234567}, sign \in Manners, sep \in Grouping} : e \in Exponents}

\* Cells with anything in them.
Cells ==
    {[text |-> t, exponent |-> e, meant |-> 0, clear |-> FALSE] :
        t \in UNION {[1 .. n -> {"1", "0", "minus", "plus", "open", "close", "comma", "point"}] : n \in 0 .. 4}
                 \cup [1 .. 5 -> {"1", "0", "minus", "comma", "point"}],
        e \in Exponents \ {0}}

TheInputs == Statements \cup Cells

=============================================================================
