\* Books whose first sheet is empty.
CONSTANTS
    MaxAbove = 2
    MaxBelow = 1
    HeadLimit = 2
    HeaderLimit = 3
    Titles <- TheTitles
    Operations <- TheOperations
    Files <- TheFiles
SPECIFICATION Spec
INVARIANT FilledBookIsRead
\* A file is read once.
CHECK_DEADLOCK FALSE
