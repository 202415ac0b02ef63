SPECIFICATION Spec
CONSTANTS
    Request = {r1, r2}
    User = {ann, bob}
    NoUser = NoUser
    Text = {t}
    NoText = NoText
    Malformed = Malformed
    MaxId = 2
    MaxSend = 1
    MaxStray = 1
SYMMETRY Symmetry
VIEW View
INVARIANTS
    TypeOK
    WritersAreAuthors
    UndeletedPostsIntact
PROPERTIES
    NoTakeover
    GhostIsForever
