CONSTANTS
    d1 = d1
    d2 = d2
    o1 = o1
    o2 = o2
    Database <- MCDatabase
    Object <- MCObject
    Main = d1
    MaxRows = 2
    Executions = 2
    RowSetSizes <- MCRowSetSizes
    MaxChunk = 2
    MaxBytes = 4
    BufferSizes <- MCBufferSizes
    ForeignBlobs <- MCForeignBlobs
SYMMETRY MCSymmetry
SPECIFICATION Spec
INVARIANTS
    TypeOK
    PreparedIsAtomic
    NoneLeftActive
    RowsInOrder
    RowIsCurrent
    BytesConserved
CHECK_DEADLOCK FALSE
