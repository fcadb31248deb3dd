SPECIFICATION MCSpec
CONSTANTS
    Folders = {f1, f2, f3}
    Files = {x1}
    Calls = {c1, c2}
    Root = Root
    Unborn = Unborn
    Gone = Gone
INVARIANT LibraryStands
PROPERTY ImplementsLibrary
PROPERTY CallsAreAnswered
