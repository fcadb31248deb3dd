------------------------------ MODULE LessonRevision ------------------------------
(***************************************************************************)
(* One stored lesson: its content, the records of its objectives, its      *)
(* planned date and its preparation todos, under the calls and jobs that   *)
(* change them at the same time (src/app/tasks.py, apply_lesson_feedback_  *)
(* task, and src/app/routes/lesplan/preparation_todo_routes.py).           *)
(*                                                                         *)
(* A revision job reads the lesson in one session, waits for two agents,   *)
(* and writes in another; a change of the planned date reads and writes in *)
(* one session.  Both update the row of the lesson before they list the    *)
(* todos, so from there to their commit they exclude each other; the calls *)
(* on a single todo take no such lock.                                     *)
(***************************************************************************)
EXTENDS Naturals, FiniteSets

CONSTANTS
    Todos,      \* bound: rows of lesson_preparation_todo that are there at one time
    Calls,      \* bound: revision jobs and date changes in progress at one time
    Objectives,  \* lists of learning objectives
    NotAList,    \* a text or an object in their place, which can be gone through like a list
    NotIterable, \* null or a number in their place, which cannot
    Wordings,    \* what the title and the teacher notes say together
    Dates,
    Answers,    \* answers of the feedback agent, as records of the four fields
    MaxFresh,   \* bound: todos that one generation gives
    MaxBegun,   \* bound: calls that begin
    None

ASSUME MaxFreshAssumption == MaxFresh \in Nat \ {0}
ASSUME MaxBegunAssumption == MaxBegun \in Nat

VARIABLES
    lesson,     \* the columns of lesson_plan: content and planned date
    records,    \* the objectives as rows of lesson_objective, None for no rows
    linked,     \* whether rows of lesson_objective_goal point at those rows
    todos,      \* the rows of lesson_preparation_todo
    calls,      \* the revisions and date changes in progress, and how the last one ended
    lock,       \* the call that holds the row lock of the lesson
    seen,       \* observers: what happened that a property makes an exception for
    begun       \* how many calls have begun

vars == <<lesson, records, linked, todos, calls, lock, seen, begun>>

-----------------------------------------------------------------------------------
\* What preparation is made from.  Materials and time sections are "fine"; or "odd": the
\* prompt takes them but the fallback may raise, as for materials that are null; or "broken":
\* the prompt raises too, as for a section without its keys.  Notes or a title of the wrong
\* type, and sections that are no list, never get as far as a commit (Interrupt).
Contents == [objectives : Objectives \union {NotAList, NotIterable},
             materials : {"none", "fine", "odd", "broken"},
             sections : {"fine", "odd", "broken"}, wording : Wordings]

TodoRows == [status : {"PENDING", "DONE"}, due : Dates \union {None}, outdated : BOOLEAN,
             own : BOOLEAN,                     \* observer: the due date was set by the user
             made : Contents \union {None}]     \* observer: the content it was generated from

Generated(content) == [status |-> "PENDING", due |-> None, outdated |-> FALSE, own |-> FALSE,
                       made |-> content]

\* The prompt can be built from it,
Askable(content) ==
    /\ content.objectives # NotIterable
    /\ "broken" \notin {content.materials, content.sections}

\* and if the agent has no answer the fallback makes a todo of the materials.
Provided(content) == Askable(content) /\ content.materials = "fine" /\ content.sections = "fine"

\* Mutant: without an answer of the agent there are no todos.
FreshWithoutFallback(content) == IF Askable(content) THEN 0..MaxFresh ELSE {0}

\* How many todos a generation can give.  The prompt is built outside the agent's try block:
\* if that raises, the task swallows the error and goes on without any.
Fresh(content) ==
    IF ~Askable(content) THEN {0} ELSE IF Provided(content) THEN 1..MaxFresh ELSE 0..MaxFresh

\* None is none of the values it stands beside, and an answer has the four fields.
ASSUME Sentinels ==
    /\ None \notin Objectives \union {NotAList, NotIterable}
    /\ None \notin Dates \union Wordings \union {"none", "fine", "odd", "broken"}
    /\ None \notin Contents /\ None \notin TodoRows /\ None \notin Calls
    /\ NotAList \notin Objectives /\ NotIterable \notin Objectives
    /\ Answers \subseteq [objectives : Objectives \union {NotAList, NotIterable, None},
                          materials : {"none", "fine", "odd", "broken", None},
                          sections : {"fine", "odd", "broken", None},
                          wording : Wordings \union {None}]

Rows == {t \in Todos : todos[t] # None}
\* An id of a todo that is gone is not used again while a call has listed it.
Lists(call) ==
    IF call.kind = "none" \/ call.at # "listed" THEN {}
    ELSE IF call.kind = "date" THEN call.moved ELSE call.pending \union call.done
Free == {t \in Todos \ Rows : \A c \in Calls : t \notin Lists(calls[c])}
Content == [objectives |-> lesson.objectives, materials |-> lesson.materials,
            sections |-> lesson.sections, wording |-> lesson.wording]
Unset == [kind |-> "none", ended |-> "applied"]

\* generate_lessons_task has stored the lesson, with links if its answer had any.
Init ==
    \E content \in {c \in Contents : /\ c.objectives \in Objectives
                                     /\ c.materials \in {"none", "fine"} /\ c.sections = "fine"},
       fresh \in SUBSET Todos :
        /\ Cardinality(fresh) \in Fresh(content)
        /\ lesson = [objectives |-> content.objectives, materials |-> content.materials,
                     sections |-> content.sections, wording |-> content.wording, planned |-> None]
        /\ records = content.objectives
        /\ linked \in BOOLEAN
        /\ todos = [t \in Todos |-> IF t \in fresh THEN Generated(content) ELSE None]
        /\ calls = [c \in Calls |-> Unset]
        /\ lock = None
        /\ seen = [revisions |-> FALSE, dates |-> FALSE, deletes |-> FALSE, reworded |-> FALSE]
        /\ begun = 0

Stored == <<lesson, records, linked, todos>>
Ends(c, how) == calls' = [calls EXCEPT ![c] = [kind |-> "none", ended |-> how]]
Released(c) == lock' = IF lock = c THEN None ELSE lock
Begins == begun < MaxBegun /\ begun' = begun + 1
Busy(kind) == \E c \in Calls : calls[c].kind = kind

-----------------------------------------------------------------------------------
(***************************************************************************)
(* A revision job.                                                         *)
(***************************************************************************)
LoadLesson(c) ==
    /\ calls[c].kind = "none" /\ Begins
    /\ calls' = [calls EXCEPT ![c] = [kind |-> "revision", at |-> "loaded", base |-> Content]]
    /\ seen' = [seen EXCEPT !.revisions = @ \/ Busy("revision")]
    /\ UNCHANGED <<Stored, lock>>

\* The answer of the feedback agent has a new value for some fields and None for those it
\* leaves out.
Over(old, new) == IF new = None THEN old ELSE new
Merged(content, answer) ==
    [objectives |-> Over(content.objectives, answer.objectives),
     materials |-> Over(content.materials, answer.materials),
     sections |-> Over(content.sections, answer.sections),
     wording |-> Over(content.wording, answer.wording)]

\* It names a field of _TODO_TRIGGER_FIELDS, which the title and the notes are not.
Triggers(answer) ==
    answer.objectives # None \/ answer.materials # None \/ answer.sections # None

\* Mutant: the todos are generated from the lesson as it was.
AskAgentsUnmerged(c, answer) ==
    /\ calls[c].kind = "revision" /\ calls[c].at = "loaded"
    /\ \E fresh \in IF Triggers(answer) THEN Fresh(calls[c].base) ELSE {0} :
            calls' = [calls EXCEPT ![c] = [kind |-> "revision", at |-> "answered", answer |-> answer,
                        fresh |-> fresh, made |-> calls[c].base]]
    /\ UNCHANGED <<Stored, lock, seen, begun>>

AskAgents(c, answer) ==
    LET merged == Merged(calls[c].base, answer) IN
    /\ calls[c].kind = "revision" /\ calls[c].at = "loaded"
    /\ \E fresh \in IF Triggers(answer) THEN Fresh(merged) ELSE {0} :
            calls' = [calls EXCEPT ![c] = [kind |-> "revision", at |-> "answered", answer |-> answer,
                        fresh |-> fresh, made |-> merged]]
    /\ UNCHANGED <<Stored, lock, seen, begun>>

\* The fields are set and flushed, which locks the row.  The records of the objectives are
\* deleted; the session first clears the links to them, which the database refuses.
FlushLesson(c) ==
    /\ calls[c].kind = "revision" /\ calls[c].at = "answered" /\ Triggers(calls[c].answer)
    /\ lock = None
    /\ UNCHANGED <<Stored, seen, begun>>
    /\ IF calls[c].answer.objectives # None /\ linked
       THEN Ends(c, "refused") /\ UNCHANGED lock
       ELSE /\ lock' = c
            /\ calls' = [calls EXCEPT ![c] =
                    [kind |-> "revision", at |-> "listed", answer |-> @.answer, fresh |-> @.fresh,
                     made |-> @.made, pending |-> {t \in Rows : todos[t].status = "PENDING"},
                     done |-> {t \in Rows : todos[t].status = "DONE"},
                     marked |-> {t \in Rows : todos[t].outdated}]]

RecordsOf(objectives) == IF objectives \in Objectives THEN objectives ELSE None

Outdated(row) == [row EXCEPT !.outdated = TRUE]

\* Mutant: todos that are done are deleted with the others.
ReconciledAll(call, fresh) ==
    [t \in Todos |-> IF t \in fresh THEN Generated(call.made)
                     ELSE IF t \in call.pending \union call.done THEN None ELSE todos[t]]

\* What becomes of the todos: those that were pending when they were listed go, those that
\* were done are outdated, and the new ones come.
Reconciled(call, fresh) ==
    [t \in Todos |-> IF t \in fresh THEN Generated(call.made)
                     ELSE IF t \in call.pending \/ todos[t] = None THEN None
                     ELSE IF t \in call.done THEN Outdated(todos[t]) ELSE todos[t]]

\* An update of a row that was deleted since it was listed raises, unless the driver sends
\* several rows at once and does not count them.
MayRaise(updated) == updated \ Rows # {}
MayPass(updated) == updated \subseteq Rows \/ Cardinality(updated) > 1

\* Mutant: the records of the objectives are left as they were.
WrittenRecordsNot(answer) == records

WrittenRecords(answer) == IF answer.objectives = None THEN records ELSE RecordsOf(answer.objectives)

CommitRevision(c) ==
    LET call == calls[c]
        updated == call.done \ call.marked IN
    /\ call.kind = "revision" /\ call.at = "listed"
    /\ UNCHANGED begun
    /\ Released(c)
    /\ \/ /\ MayPass(updated)
          /\ \E fresh \in SUBSET Free :
                /\ Cardinality(fresh) = call.fresh
                /\ todos' = Reconciled(call, fresh)
          /\ lesson' = LET merged == Merged(Content, call.answer) IN
                       [lesson EXCEPT !.objectives = merged.objectives,
                                      !.materials = merged.materials,
                                      !.sections = merged.sections, !.wording = merged.wording]
          /\ records' = WrittenRecords(call.answer)
          /\ seen' = [seen EXCEPT !.reworded = FALSE]
          /\ UNCHANGED linked
          /\ Ends(c, "applied")
       \/ /\ MayRaise(updated)
          /\ UNCHANGED <<Stored, seen>>
          /\ Ends(c, "failed")

\* Only the title or the notes, or nothing: the todos are left as they are.
CommitWording(c) ==
    LET wording == Over(lesson.wording, calls[c].answer.wording) IN
    /\ calls[c].kind = "revision" /\ calls[c].at = "answered" /\ ~Triggers(calls[c].answer)
    /\ wording # lesson.wording => lock = None
    /\ lesson' = [lesson EXCEPT !.wording = wording]
    /\ seen' = [seen EXCEPT !.reworded = @ \/ wording # lesson.wording]
    /\ Ends(c, "applied")
    /\ UNCHANGED <<records, linked, todos, lock, begun>>

-----------------------------------------------------------------------------------
(***************************************************************************)
(* A change of the planned date.                                           *)
(***************************************************************************)
LoadDate(c) ==
    /\ calls[c].kind = "none" /\ Begins
    /\ calls' = [calls EXCEPT ![c] = [kind |-> "date", at |-> "loaded", old |-> lesson.planned]]
    /\ seen' = [seen EXCEPT !.dates = @ \/ Busy("date")]
    /\ UNCHANGED <<Stored, lock>>

\* Mutant: todos that have the old date keep it.
FollowsUnset(row, old) == row.due = None

Follows(row, old) == row.due = None \/ row.due = old

\* A date that is not changed is not written, and locks nothing.
ListTodos(c, date) ==
    LET changes == date # calls[c].old IN
    /\ calls[c].kind = "date" /\ calls[c].at = "loaded"
    /\ changes => lock = None
    /\ lock' = IF changes THEN c ELSE lock
    /\ calls' = [calls EXCEPT ![c] =
            [kind |-> "date", at |-> "listed", old |-> @.old, new |-> date,
             moved |-> {t \in Rows : Follows(todos[t], @.old) /\ todos[t].due # date}]]
    /\ UNCHANGED <<Stored, seen, begun>>

CommitDate(c) ==
    LET call == calls[c] IN
    /\ call.kind = "date" /\ call.at = "listed"
    /\ UNCHANGED <<records, linked, seen, begun>>
    /\ Released(c)
    /\ \/ /\ MayPass(call.moved)
          /\ lesson' = IF call.new = call.old THEN lesson ELSE [lesson EXCEPT !.planned = call.new]
          /\ todos' = [t \in Todos |-> IF t \in call.moved /\ todos[t] # None
                                       THEN [todos[t] EXCEPT !.due = call.new] ELSE todos[t]]
          /\ Ends(c, "applied")
       \/ /\ MayRaise(call.moved)
          /\ UNCHANGED <<lesson, todos>>
          /\ Ends(c, "failed")

\* An error, a cancelled job or a restart: the transaction is rolled back.
Interrupt(c) ==
    /\ calls[c].kind # "none"
    /\ Ends(c, "failed")
    /\ Released(c)
    /\ UNCHANGED <<Stored, seen, begun>>

-----------------------------------------------------------------------------------
(***************************************************************************)
(* Calls on one todo.  What they read of it they do not use, so each is    *)
(* its one statement.                                                      *)
(***************************************************************************)
CreateTodo(t, status, due) ==
    /\ t \in Free
    /\ todos' = [todos EXCEPT ![t] = [status |-> status, due |-> due, outdated |-> FALSE,
                                      own |-> due # None, made |-> None]]
    /\ UNCHANGED <<lesson, records, linked, calls, lock, seen, begun>>

\* Mutant: a null in the body is written like a value.
PatchStatusNull(t, status) ==
    /\ t \in Rows
    /\ \E written \in {status, None} : todos' = [todos EXCEPT ![t].status = written]
    /\ UNCHANGED <<lesson, records, linked, calls, lock, seen, begun>>

PatchStatus(t, status) ==
    /\ t \in Rows
    /\ todos' = [todos EXCEPT ![t].status = status]
    /\ UNCHANGED <<lesson, records, linked, calls, lock, seen, begun>>

PatchDue(t, due) ==
    /\ t \in Rows
    /\ todos' = [todos EXCEPT ![t].due = due, ![t].own = due # None]
    /\ UNCHANGED <<lesson, records, linked, calls, lock, seen, begun>>

DeleteTodo(t) ==
    /\ t \in Rows
    /\ todos' = [todos EXCEPT ![t] = None]
    /\ seen' = [seen EXCEPT !.deletes = TRUE]
    /\ UNCHANGED <<lesson, records, linked, calls, lock, begun>>

Next ==
    \/ \E c \in Calls :
        \/ LoadLesson(c)
        \/ \E answer \in Answers : AskAgents(c, answer)
        \/ FlushLesson(c)
        \/ CommitRevision(c)
        \/ CommitWording(c)
        \/ LoadDate(c)
        \/ \E date \in Dates \union {None} : ListTodos(c, date)
        \/ CommitDate(c)
        \/ Interrupt(c)
    \/ \E t \in Todos :
        \/ \E status \in {"PENDING", "DONE"}, due \in Dates \union {None} : CreateTodo(t, status, due)
        \/ \E status \in {"PENDING", "DONE"} : PatchStatus(t, status)
        \/ \E due \in Dates \union {None} : PatchDue(t, due)
        \/ DeleteTodo(t)

Spec == Init /\ [][Next]_vars

-----------------------------------------------------------------------------------
(***************************************************************************)
(* Properties.                                                             *)
(***************************************************************************)
\* The rows and the calls have their types, and only a call that has listed the todos
\* holds the lock.
TypeOK ==
    /\ Content \in Contents /\ lesson.planned \in Dates \union {None}
    /\ \A t \in Rows : todos[t] \in TodoRows
    /\ \A c \in Calls : calls[c].kind \in {"none", "revision", "date"}
    /\ lock # None => calls[lock].kind # "none" /\ calls[lock].at = "listed"

\* The rows of lesson_objective say what the column learning_objectives says, whatever
\* revisions overlap, and links only ever point at the objectives they were made for
\* (tasks.py:811-830, 588-601).
ObjectivesInStep == records = RecordsOf(lesson.objectives)

\* A todo that is not marked as outdated was generated from the objectives, materials and
\* sections that the lesson has now, and from its title and notes unless a revision of those
\* alone came after it, which keeps the todos (tasks.py:668): a revision leaves none behind that
\* is about an older version (tasks.py:832-855), unless two revisions ran at the same time,
\* when one of them wrote from an old copy.
TodosFitLesson ==
    ~seen.revisions =>
        \A t \in Rows : todos[t].made # None /\ ~todos[t].outdated =>
            /\ todos[t].made = [Content EXCEPT !.wording = todos[t].made.wording]
            /\ todos[t].made.wording = lesson.wording \/ seen.reworded

\* A lesson with materials that the prompt and the fallback can read has preparation to show
\* for it, unless the user removed todos or two revisions overlapped.  A lesson that cannot be
\* put to the agent has lost its pending todos to the swallowed error (tasks.py:773-779,
\* preparation_agent.py:211-250, 273-292, 315).
MaterialsArePrepared ==
    Provided(Content) /\ ~seen.deletes /\ ~seen.revisions => Rows # {}

\* Work that is marked as done disappears when its user deletes it or when it was still
\* pending as the job listed the todos, and otherwise stays (tasks.py:841-845).
DoneWorkStays ==
    [][\A t \in Rows :
        todos[t].status = "DONE" /\ todos'[t] = None =>
            \/ DeleteTodo(t)
            \/ \E c \in Calls : /\ calls[c].kind = "revision" /\ calls[c].at = "listed"
                                /\ t \in calls[c].pending]_vars

\* A due date that the user did not choose is the planned date of the lesson, unless two
\* changes of that date overlapped (preparation_todo_routes.py:88-98).
DueDatesFollow ==
    ~seen.dates =>
        \A t \in Rows : todos[t].due # None /\ ~todos[t].own => todos[t].due = lesson.planned

\* tasks.py:811: "Sync LessonObjective records when objectives are updated".  A revision
\* that names the objectives can be stored.
ObjectivesCanBeRevised == \A c \in Calls : calls[c].kind = "none" => calls[c].ended # "refused"
===================================================================================
