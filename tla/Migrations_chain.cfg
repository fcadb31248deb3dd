\* Every revision up and down, with rows that arrive between any two commands.
SPECIFICATION Spec
CONSTANTS
    Texts <- ThreeTexts
    MaxSubjects = 2
    None = None
    Broken = Broken
INVARIANT TypeOK
INVARIANT FailuresAreKnown
INVARIANT DowngradeUndoesUpgrade
INVARIANT KeysActAsDeclared
PROPERTY GoalsKeepWords
