\* One file, two calls at the same time, and targets that are deleted under them.
SPECIFICATION Spec
CONSTANTS
    Files = {f1}
    Calls = {c1, c2}
    Folders = {d1, d2}
    Classes = {k1}
    Plans = {p1}
    Texts = {t1, t2}
    Opaque = {o1}
    None = None
SYMMETRY Symmetric
CHECK_DEADLOCK FALSE
INVARIANT ListedHasObject
INVARIANT OrphansAreExplained
INVARIANT ContextIsCurrent
PROPERTY LinksStand
