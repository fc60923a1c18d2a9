SPECIFICATION ReadsSpec
CONSTANTS
    j1 = j1
    t1 = t1
    t2 = t2
    doc1 = doc1
    doc2 = doc2
    failure = failure
    r1 = r1
    r2 = r2
    Null = Null
    Jobs <- MCJobs
    Tokens <- MCTokens
    Documents <- MCDocuments
    Details <- MCDetails
    Times <- MCTimes
    Requests <- MCRequests
SYMMETRY Symmetry
INVARIANTS
    RowsCoherent
    ForeignSees404
PROPERTIES
    KeepsLifecycle
    AnswersNeverRegress
