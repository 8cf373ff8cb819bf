\* Two connections and two messages through the loop, the pipeline and the index.
SPECIFICATION FairSpec
CONSTANTS
    p1 = p1
    p2 = p2
    p3 = p3
    p4 = p4
    c1 = c1
    c2 = c2
    Paths = {p1, p2, p3, p4}
    Corpus <- MCCorpus
    Widths = {64, 128}
    ConfigWidth = 128
    Blank = Blank
    MaxFloats = 6
    MaxMetadata = 12
    Conns = {c1, c2}
    Requests <- MCRequests
    Messages <- MCMessages
    MaxSent = 2
    DefaultWidth = 64
    DefaultTopK = 5
    MaxHistogram = 1
    Missing = Missing
    NotANumber = NotANumber
CHECK_DEADLOCK FALSE
INVARIANTS
    NothingToBatch
    MetricsAgree
    ResultsDistinct
    ReadyIndexBuilt
PROPERTIES
    AdmittedIndexSearched
    EverythingRead
