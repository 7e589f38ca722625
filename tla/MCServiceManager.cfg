CONSTANT MaxLines = 3
SPECIFICATION FairSpec
INVARIANTS
    TypeOK
    OutputComplete
PROPERTY WaitReturns
