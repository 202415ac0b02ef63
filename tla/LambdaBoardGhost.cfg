SPECIFICATION Spec
CONSTANTS
    Request = {r1, r2}
    User = {ann}
    NoUser = NoUser
    Text = {t}
    NoText = NoText
    Malformed = Malformed
    MaxId = 1
    MaxSend = 0
    MaxStray = 0
PROPERTIES
    UpdateAnswersWithAPost
