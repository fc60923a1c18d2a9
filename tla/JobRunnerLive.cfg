SPECIFICATION FairSpec
CONSTANTS
    j1 = j1
    j2 = j2
    t1 = t1
    doc1 = doc1
    crashed = crashed
    internal = internal
    interrupted = interrupted
    Null = Null
    Jobs <- OneJob
    Tokens <- MCTokens
    Documents <- MCDocuments
    Details <- MCDetails
    ParseFailures <- MCParseFailures
    Times <- MCTimes
    InternalError <- internal
    Interrupted <- interrupted
    MaxErrors = 3
    MaxStops = 3
INVARIANTS
    IncompleteIsOwned
    UploadIsOwned
    InterruptedIsLost
PROPERTIES
    AcceptedSettles
    TasksEnd
