SPECIFICATION Spec
CONSTANTS
    Request = {r1, r2}
    User = {ann, bob}
    NoUser = NoUser
    Id = {i1, i2}
    NoId = NoId
    Field = {"title", "content"}
    Value = {v, w}
    NoValue = NoValue
SYMMETRY Symmetry
INVARIANTS
    TypeOK
PROPERTIES
    BoardSpec
