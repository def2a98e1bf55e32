CONSTANTS
    Files = {f1, f2}
    Size <- MCSize
    MaxOffset = 3
    MaxLen = 2
    MaxVersion = 2
    MaxGrowth = 2
SPECIFICATION Spec
SYMMETRY Symmetry
INVARIANTS
    TypeOK
    FilesMatch
    AnswersTrue
