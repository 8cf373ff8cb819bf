\* Loads, saves and searches over two good files, one too large, one missing and one without vectors.
SPECIFICATION StoreSpec
CONSTANTS
    p1 = p1
    p2 = p2
    p3 = p3
    p4 = p4
    p5 = p5
    Paths = {p1, p2, p3, p4, p5}
    Corpus <- MCCorpus
    Widths = {64, 128}
    ConfigWidth = 128
    Blank = Blank
    MaxFloats = 6
    MaxMetadata = 6
INVARIANTS
    StoreTypeOK
    MetadataCovers
    OneFileIndexed
    LatestDescribed
PROPERTIES
    StaysLoaded
