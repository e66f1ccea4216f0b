\* Files of four operations.
CONSTANTS
    NoCard = NoCard
    NoBalance = NoBalance
    Cards <- TheCards
    Stems <- TheStems
    Descriptions <- TheDescriptions
    Currencies <- TheCurrencies
    Inputs <- TheInputs
SPECIFICATION Spec
INVARIANTS
    BreaksAreMisreads
    CollisionsAreRepeats
\* The script ends.
CHECK_DEADLOCK FALSE
