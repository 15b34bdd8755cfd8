CONSTANT Files <- MCFiles
SPECIFICATION FairSpec
INVARIANTS
    TypeOK
    InterBlockIsExact
    NothingLost
    BlocksInOrder
PROPERTY Returns
