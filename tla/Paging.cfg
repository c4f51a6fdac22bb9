SPECIFICATION PagingSpec
CONSTANTS
    Null = Null
    Unset = Unset
    RowKeys <- MCKeys
    Width = 2
    Vals <- MCVals
    Carried <- MCCarried
    Walks <- MCWalks
    MaxChanges = 2
INVARIANTS
    KeysetWalk
    OffsetWalk
\* A walk ends.
CHECK_DEADLOCK FALSE
