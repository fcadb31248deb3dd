\* Two calls in progress at the same time on a lesson with up to two todos.
SPECIFICATION Spec
CONSTANTS
    Todos = {t1, t2}
    Calls = {c1, c2}
    Objectives = {o1}
    NotAList = NotAList
    NotIterable = NotIterable
    Wordings = {w1, w2}
    Dates = {d1}
    Answers <- SomeAnswers
    MaxFresh = 1
    MaxBegun = 3
    None = None
SYMMETRY Symmetric
CHECK_DEADLOCK FALSE
INVARIANT TypeOK
INVARIANT ObjectivesInStep
INVARIANT TodosFitLesson
INVARIANT MaterialsArePrepared
INVARIANT DueDatesFollow
PROPERTY DoneWorkStays
