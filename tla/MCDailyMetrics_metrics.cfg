SPECIFICATION Spec
CONSTANTS
    Metrics = {cpu, memory}
    Usages <- MCUsages
    LastDay = 2
    RetentionDays <- MCRetentionDays
    MaxRounds = 4
    None = None
SYMMETRY MCSymmetry
INVARIANTS
    TypeOK
    SamplesConserved
    RowsSound
