SPECIFICATION Spec
CONSTANTS
    d1 = d1
    d2 = d2
    r1 = r1
    r2 = r2
    Docs <- MCDocs
    Requests <- MCRequests
    NoDoc = NoDoc
    MaxTroubles = 2
SYMMETRY MCSymmetry
INVARIANTS
    TypeOK
    AnswersKept
    StraysExplained
