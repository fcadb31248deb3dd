\* The deployment of an empty database.
SPECIFICATION Spec
CONSTANTS
    Texts <- ThreeTexts
    MaxSubjects = 1
    None = None
    Broken = Broken
INVARIANT DeploysFromEmpty
