\* One revision at a time, of a lesson whose objectives are linked to learning goals.
SPECIFICATION Spec
CONSTANTS
    Todos = {t1}
    Calls = {c1}
    Objectives = {o1, o2}
    NotAList = NotAList
    NotIterable = NotIterable
    Wordings = {w1, w2}
    Dates = {d1}
    Answers <- SomeAnswers
    MaxFresh = 1
    MaxBegun = 1
    None = None
CHECK_DEADLOCK FALSE
INVARIANT ObjectivesCanBeRevised
