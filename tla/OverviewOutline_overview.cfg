SPECIFICATION Spec
CONSTANTS
    NumLessons = 3
    NumParagraphs = 6
    MaxLength = 3
    Title <- MCTitle
    Texts <- MCTexts
    Placeholders <- MCPlaceholders
    Outlines <- MCOutlines
    Goals = {"g1", "g2"}
    Matches = {{2}}
    Patches <- MCPatches
    NoText = NoText
    None = None
INVARIANT StoredIsComplete
INVARIANT ReadingIsStable
PROPERTY PreviewIsPublished
PROPERTY RefusalsAreFew
\* A plan ends with its lessons or failed.
CHECK_DEADLOCK FALSE
