\* Files of up to two rows above the header and three below.
CONSTANTS
    MaxAbove = 2
    MaxBelow = 3
    HeadLimit = 2
    HeaderLimit = 3
    Titles <- TheTitles
    Operations <- TheOperations
    Files <- TheFiles
SPECIFICATION Spec
INVARIANTS
    RowsAccounted
    SourceRowsLeadBack
    ShownIsRead
    ParsedAsItsBank
\* A file is read once.
CHECK_DEADLOCK FALSE
