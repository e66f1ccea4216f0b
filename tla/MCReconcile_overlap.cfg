\* Statements that overlap, of four operations.
CONSTANTS
    NoCard = NoCard
    NoBalance = NoBalance
    Cards <- TheCards
    Stems <- TheStems
    Descriptions <- TheDescriptions
    Currencies <- TheCurrencies
    Inputs <- OverlappingInputs
SPECIFICATION Spec
INVARIANT BreakMeansError
\* The script ends.
CHECK_DEADLOCK FALSE
