\* Is every vector found with the chunk it was made from?
SPECIFICATION StoreSpec
CONSTANTS
    p1 = p1
    p2 = p2
    p3 = p3
    p4 = p4
    p5 = p5
    Paths = {p1, p2, p3, p4, p5}
    Corpus <- MCCorpus
    Widths = {64, 128}
    ConfigWidth = 128
    Blank = Blank
    MaxFloats = 6
    MaxMetadata = 6
INVARIANT FoundDescribed
