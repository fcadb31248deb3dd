\* Two calls at a time, each of any kind, until the ids are used up.
SPECIFICATION Spec
CONSTANTS
    Orgs = {o1, o2}
    Users = {u1, u2}
    Platform = Platform
    Ids = {i1, i2, i3}
    Calls = {c1, c2}
    None = None
SYMMETRY Symmetric
INVARIANT TablesStand
PROPERTY JoinIsRecorded
PROPERTY AnswersStand
PROPERTY ImplementsRegister
