SPECIFICATION Spec
CONSTANTS
    Request = {r1, r2}
    User = {ann, bob}
    NoUser = NoUser
    Kept = Kept
    Id = {i1, i2}
    NoId = NoId
    Text = {t, u}
    NoText = NoText
SYMMETRY Symmetry
PROPERTIES
    WritersWereAuthors
    NoRevival
