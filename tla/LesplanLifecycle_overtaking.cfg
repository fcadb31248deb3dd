\* Two calls that both find the request free.
SPECIFICATION Spec
CONSTANTS
    Calls = {c1, c2}
    NumLessons = 1
    MaxRuns = 1
    MaxJobs = 4
    Faults = {}
SYMMETRY CallSymmetry
PROPERTY ClaimsFromRequiredStatus
