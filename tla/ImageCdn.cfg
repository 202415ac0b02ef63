SPECIFICATION Spec
CONSTANTS
    r1 = r1
    r2 = r2
    Request <- MCRequest
    Ask <- MCAsk
    Key = {"cat"}
    Format = {"webp"}
    Original = Original
    NoImage = NoImage
    MaxUploads = 2
INVARIANTS
    TypeOK
    CacheIsRight
    AnswersAreTrue
SYMMETRY Symmetry
