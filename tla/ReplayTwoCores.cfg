SPECIFICATION Spec
CONSTANTS
    c0 = c0
    c1 = c1
    v1 = v1
    v2 = v2
    Cores = {c0, c1}
    Programs <- SomePrograms
    Values = {v1, v2}
    Pairs <- SomePairs
    QueueCapacity = 1
    MaxSteps = 3
    MaxLines = 2
SYMMETRY Symmetry
CHECK_DEADLOCK FALSE
INVARIANTS TypeOK KeepsTheLog NothingMissed Reproduced
