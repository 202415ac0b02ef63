SPECIFICATION Spec
CONSTANTS
    Request = {a1, a2}
    BoardRequest = {b1}
    User = {ann, bob}
    NoUser = NoUser
    Sid = {s1, s2}
    NoSid = NoSid
    Id = {i1}
    NoId = NoId
    Text = {t}
    NoText = NoText
    Kept = Kept
SYMMETRY Symmetry
VIEW View
INVARIANTS
    SessionTypeOK
    SessionsComeFromLogins
    WritersLoggedIn
PROPERTIES
    LogoutIsFinal
    NothingWithoutSession
