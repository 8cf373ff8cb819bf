\* Two threads, three batches of one or two texts, for either service.
SPECIFICATION OSpec
CONSTANTS
    a = a
    b = b
    c = c
    Callers = {w1, w2}
    Texts = {a, b, c}
    Seed <- MCSeed
    Chars <- MCChars
    Dimension = 1
    MaxBatch = 2
    Batches = 3
    SeqLen = 2
    CLS = 101
SYMMETRY MCSymmetry
CHECK_DEADLOCK FALSE
INVARIANTS
    CpuDeterministic
    FunctionOfText
    Distinguishes
