\* Three calls, and a worker that is restarted at any step and runs its jobs again.
SPECIFICATION Spec
CONSTANTS
    Calls = {c1, c2, c3}
    NumLessons = 2
    MaxRuns = 2
    MaxJobs = 2
    Faults = {"restart"}
SYMMETRY CallSymmetry
INVARIANT RevisionsKept
INVARIANT LessonsMatchOverview
INVARIANT CompletedHasAllLessons
