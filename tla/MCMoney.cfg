\* Printed amounts and any short texts.
CONSTANTS
    Exponents = {0, 2, 3}
    Precision = 7
    Inputs <- TheInputs
SPECIFICATION AmountSpec
INVARIANTS
    ReadAsMeant
    DigitsKept
    ShownReadsBack
\* A text is read once.
CHECK_DEADLOCK FALSE
