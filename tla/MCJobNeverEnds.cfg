SPECIFICATION FairJobSpec
CONSTANTS
    i1 = i1
    i2 = i2
    i3 = i3
    Items <- TwoItems
    Concurrency = 1
    SpawnOutcomes = {"ok", "error"}
PROPERTY
    JobEnds
