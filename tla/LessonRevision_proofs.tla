-------------------------- MODULE LessonRevision_proofs --------------------------
(***************************************************************************)
(* Proofs about LessonRevision, for any todos, calls, answers and dates.   *)
(***************************************************************************)
EXTENDS LessonRevision, FiniteSetTheorems, TLAPS

\* What a call is, wherever it stands.
IdleCalls == [kind : {"none"}, ended : {"applied", "failed", "refused"}]
LoadedRevisions == [kind : {"revision"}, at : {"loaded"}, base : Contents]
AnsweredRevisions == [kind : {"revision"}, at : {"answered"}, answer : Answers, fresh : Nat,
                      made : Contents]
ListedRevisions == [kind : {"revision"}, at : {"listed"}, answer : Answers, fresh : Nat,
                    made : Contents, pending : SUBSET Todos, done : SUBSET Todos,
                    marked : SUBSET Todos]
LoadedDates == [kind : {"date"}, at : {"loaded"}, old : Dates \union {None}]
ListedDates == [kind : {"date"}, at : {"listed"}, old : Dates \union {None},
                new : Dates \union {None}, moved : SUBSET Todos]

CallStates == IdleCalls \union LoadedRevisions \union AnsweredRevisions \union ListedRevisions
                \union LoadedDates \union ListedDates

\* The columns of the lesson, and the observers.
Lessons == [objectives : Objectives \union {NotAList, NotIterable},
            materials : {"none", "fine", "odd", "broken"}, sections : {"fine", "odd", "broken"},
            wording : Wordings, planned : Dates \union {None}]
Observers == [revisions : BOOLEAN, dates : BOOLEAN, deletes : BOOLEAN, reworded : BOOLEAN]

\* The inductive invariant behind the types.
TypeInv ==
    /\ lesson \in Lessons
    /\ todos \in [Todos -> TodoRows \union {None}]
    /\ calls \in [Calls -> CallStates]
    /\ lock \in Calls \union {None}
    /\ lock # None => calls[lock].kind # "none" /\ calls[lock].at = "listed"
    /\ seen \in Observers

-----------------------------------------------------------------------------------
\* What the kind and the place of a call say of its fields.
LEMMA CallShapes ==
  ASSUME NEW call \in CallStates
  PROVE  /\ call.kind \in {"none", "revision", "date"}
         /\ call.kind = "none" => call \in IdleCalls
         /\ call.kind = "revision" /\ call.at = "loaded" => call \in LoadedRevisions
         /\ call.kind = "revision" /\ call.at = "answered" => call \in AnsweredRevisions
         /\ call.kind = "revision" /\ call.at = "listed" => call \in ListedRevisions
         /\ call.kind = "date" /\ call.at = "loaded" => call \in LoadedDates
         /\ call.kind = "date" /\ call.at = "listed" => call \in ListedDates
         /\ call.kind # "none" => call.at \in {"loaded", "answered", "listed"}
  BY DEF CallStates, IdleCalls, LoadedRevisions, AnsweredRevisions, ListedRevisions,
     LoadedDates, ListedDates

\* An answer laid over a content is a content.
LEMMA MergedContents ==
  ASSUME NEW content \in Contents, NEW answer \in Answers
  PROVE  Merged(content, answer) \in Contents
  BY Sentinels DEF Merged, Over, Contents

LEMMA ContentType == TypeInv => Content \in Contents
  BY DEF TypeInv, Lessons, Content, Contents

\* The number of todos that a generation gives: at least one of materials that can be read.
LEMMA FreshNumbers ==
  ASSUME NEW content \in Contents, NEW n \in Fresh(content)
  PROVE  /\ n \in Nat
         /\ Provided(content) => n # 0
  BY MaxFreshAssumption DEF Fresh, Provided, Contents

\* A step of a call: where it stands and which call holds the lock keep their types.
LEMMA StepTypes ==
  ASSUME TypeInv, NEW c \in Calls, NEW over \in CallStates,
         calls' = [calls EXCEPT ![c] = over],
         \/ lock' \in {lock, None} /\ lock' # c
         \/ lock' = c /\ over.kind # "none" /\ over.at = "listed"
  PROVE  /\ calls' \in [Calls -> CallStates]
         /\ calls'[c] = over
         /\ \A d \in Calls \ {c} : calls'[d] = calls[d]
         /\ lock' \in Calls \union {None}
         /\ lock' # None => calls'[lock'].kind # "none" /\ calls'[lock'].at = "listed"
<1>1. calls' \in [Calls -> CallStates] /\ calls'[c] = over /\ \A d \in Calls \ {c} : calls'[d] = calls[d]
  BY DEF TypeInv
<1>2. CASE lock' = c /\ over.kind # "none" /\ over.at = "listed"
  BY <1>1, <1>2
<1>3. CASE lock' \in {lock, None} /\ lock' # c
  BY <1>1, <1>3 DEF TypeInv
<1> QED
  BY <1>2, <1>3, <1>1

\* A call that ends.
LEMMA EndTypes ==
  ASSUME TypeInv, NEW c \in Calls,
         Ends(c, "applied") \/ Ends(c, "failed") \/ Ends(c, "refused"),
         Released(c) \/ (lock' = lock /\ lock # c)
  PROVE  /\ calls' \in [Calls -> CallStates]
         /\ calls'[c].kind = "none"
         /\ \A d \in Calls \ {c} : calls'[d] = calls[d]
         /\ lock' \in Calls \union {None}
         /\ lock' # None => calls'[lock'].kind # "none" /\ calls'[lock'].at = "listed"
<1>1. PICK over \in IdleCalls : calls' = [calls EXCEPT ![c] = over]
  BY DEF Ends, IdleCalls
<1>2. over \in CallStates /\ over.kind = "none"
  BY DEF CallStates, IdleCalls
<1>3. lock' \in {lock, None} /\ lock' # c
  BY Sentinels DEF TypeInv, Released
<1> QED
  BY <1>1, <1>2, <1>3, StepTypes

LEMMA Unlocked ==
  ASSUME TypeInv, NEW c \in Calls, calls[c].kind = "none" \/ calls[c].at # "listed"
  PROVE  lock # c
  BY Sentinels DEF TypeInv

\* What the helpers make of a row.
LEMMA GeneratedRow ==
  ASSUME NEW content \in Contents
  PROVE  /\ Generated(content) \in TodoRows
         /\ Generated(content).made = content
         /\ Generated(content).due = None
  BY DEF Generated, TodoRows

LEMMA OutdatedRow ==
  ASSUME NEW row \in TodoRows
  PROVE  /\ Outdated(row) \in TodoRows
         /\ Outdated(row).outdated
         /\ Outdated(row).due = row.due
         /\ Outdated(row).own = row.own
         /\ Outdated(row).made = row.made
  BY DEF Outdated, TodoRows

\* What becomes of each row when a revision is committed.
LEMMA ReconciledRows ==
  ASSUME TypeInv, NEW call \in ListedRevisions, NEW fresh \in SUBSET Todos
  PROVE  /\ Reconciled(call, fresh) \in [Todos -> TodoRows \union {None}]
         /\ \A t \in fresh : Reconciled(call, fresh)[t] = Generated(call.made)
         /\ \A t \in Todos \ fresh :
              /\ todos[t] = None => Reconciled(call, fresh)[t] = None
              /\ t \in call.pending => Reconciled(call, fresh)[t] = None
              /\ todos[t] # None /\ t \in call.done \ call.pending =>
                   Reconciled(call, fresh)[t] = Outdated(todos[t])
              /\ todos[t] # None /\ t \notin call.done \union call.pending =>
                   Reconciled(call, fresh)[t] = todos[t]
<1>1. call.made \in Contents
  BY DEF ListedRevisions
<1>2. Generated(call.made) \in TodoRows
  BY <1>1, GeneratedRow
<1>3. \A t \in Todos : todos[t] # None => todos[t] \in TodoRows /\ Outdated(todos[t]) \in TodoRows
  BY OutdatedRow DEF TypeInv
<1> QED
  BY <1>2, <1>3 DEF Reconciled, TypeInv

-----------------------------------------------------------------------------------
LEMMA TypeInvInit == Init => TypeInv
<1> SUFFICES ASSUME Init PROVE TypeInv
  OBVIOUS
<1>1. PICK content \in Contents, fresh \in SUBSET Todos :
        /\ lesson = [objectives |-> content.objectives, materials |-> content.materials,
                     sections |-> content.sections, wording |-> content.wording, planned |-> None]
        /\ todos = [t \in Todos |-> IF t \in fresh THEN Generated(content) ELSE None]
  BY DEF Init
<1>2. todos \in [Todos -> TodoRows \union {None}]
  BY <1>1, GeneratedRow
<1>3. lesson \in Lessons
  BY <1>1 DEF Contents, Lessons
<1>4. calls \in [Calls -> CallStates]
  BY DEF Init, Unset, CallStates, IdleCalls
<1> QED
  BY <1>2, <1>3, <1>4 DEF Init, TypeInv, Observers

\* The steps of the calls.
LEMMA LoadLessonTypes ==
  ASSUME TypeInv, NEW c \in Calls, LoadLesson(c)
  PROVE  TypeInv'
<1> DEFINE over == [kind |-> "revision", at |-> "loaded", base |-> Content]
<1>1. over \in CallStates
  BY ContentType DEF CallStates, LoadedRevisions
<1>2. calls' = [calls EXCEPT ![c] = over] /\ lock' = lock /\ lock # c
  BY Unlocked DEF LoadLesson
<1> HIDE DEF over
<1>3. seen' \in Observers
  BY DEF LoadLesson, TypeInv, Busy, Observers
<1> QED
  BY <1>1, <1>2, <1>3, StepTypes DEF LoadLesson, Stored, TypeInv

LEMMA AskAgentsTypes ==
  ASSUME TypeInv, NEW c \in Calls, NEW answer \in Answers, AskAgents(c, answer)
  PROVE  TypeInv'
<1> DEFINE merged == Merged(calls[c].base, answer)
           over(n) == [kind |-> "revision", at |-> "answered", answer |-> answer, fresh |-> n,
                       made |-> merged]
<1>1. calls[c] \in LoadedRevisions
  BY CallShapes DEF AskAgents, TypeInv
<1>2. merged \in Contents
  BY <1>1, MergedContents DEF LoadedRevisions
<1>3. PICK n \in (IF Triggers(answer) THEN Fresh(merged) ELSE {0}) : calls' = [calls EXCEPT ![c] = over(n)]
  BY DEF AskAgents
<1> HIDE DEF merged
<1>4. n \in Nat
  BY <1>2, <1>3, FreshNumbers
<1>5. over(n) \in CallStates
  BY <1>2, <1>4 DEF CallStates, AnsweredRevisions
<1>6. lock' = lock /\ lock # c
  BY Unlocked DEF AskAgents
<1> HIDE DEF over
<1> QED
  BY <1>3, <1>5, <1>6, StepTypes DEF AskAgents, Stored, TypeInv

\* The call after FlushLesson, unless the database refuses.
ListedOf(c) ==
    [kind |-> "revision", at |-> "listed", answer |-> calls[c].answer, fresh |-> calls[c].fresh,
     made |-> calls[c].made, pending |-> {t \in Rows : todos[t].status = "PENDING"},
     done |-> {t \in Rows : todos[t].status = "DONE"}, marked |-> {t \in Rows : todos[t].outdated}]

LEMMA FlushLessonTypes ==
  ASSUME TypeInv, NEW c \in Calls, FlushLesson(c)
  PROVE  TypeInv'
<1>1. calls[c] \in AnsweredRevisions
  BY CallShapes DEF FlushLesson, TypeInv
<1>2. CASE Ends(c, "refused") /\ UNCHANGED lock
  <2>1. lock # c
    BY Unlocked DEF FlushLesson
  <2> QED
    BY <1>2, <2>1, EndTypes DEF FlushLesson, Stored, TypeInv
<1>3. CASE lock' = c /\ calls' = [calls EXCEPT ![c] = ListedOf(c)]
  <2>1. ListedOf(c) \in CallStates
    BY <1>1 DEF CallStates, ListedOf, ListedRevisions, AnsweredRevisions, Rows
  <2>2. ListedOf(c).kind = "revision" /\ ListedOf(c).at = "listed"
    BY DEF ListedOf
  <2> QED
    BY <1>3, <2>1, <2>2, StepTypes DEF FlushLesson, Stored, TypeInv
<1> QED
  BY <1>2, <1>3 DEF FlushLesson, ListedOf

LEMMA CommitRevisionTypes ==
  ASSUME TypeInv, NEW c \in Calls, CommitRevision(c)
  PROVE  TypeInv'
<1> DEFINE call == calls[c]
<1>1. call \in ListedRevisions
  BY CallShapes DEF CommitRevision, TypeInv
<1>2. /\ calls' \in [Calls -> CallStates]
      /\ lock' \in Calls \union {None}
      /\ lock' # None => calls'[lock'].kind # "none" /\ calls'[lock'].at = "listed"
  <2>1. Released(c) /\ (Ends(c, "applied") \/ Ends(c, "failed"))
    BY DEF CommitRevision
  <2> QED
    BY <2>1, EndTypes
<1>3. CASE UNCHANGED <<Stored, seen>>
  BY <1>2, <1>3 DEF CommitRevision, Stored, TypeInv
<1>4. CASE /\ seen' = [seen EXCEPT !.reworded = FALSE]
           /\ \E fresh \in SUBSET Free : todos' = Reconciled(call, fresh)
           /\ LET merged == Merged(Content, call.answer) IN
                lesson' = [lesson EXCEPT !.objectives = merged.objectives,
                                         !.materials = merged.materials,
                                         !.sections = merged.sections, !.wording = merged.wording]
  <2>1. todos' \in [Todos -> TodoRows \union {None}]
    BY <1>1, <1>4, ReconciledRows DEF Free, Rows
  <2>2. Merged(Content, call.answer) \in Contents
    BY <1>1, ContentType, MergedContents DEF ListedRevisions
  <2>3. lesson' \in Lessons
    BY <1>4, <2>2 DEF TypeInv, Lessons, Contents
  <2>4. seen' \in Observers
    BY <1>4 DEF TypeInv, Observers
  <2> QED
    BY <1>2, <2>1, <2>3, <2>4 DEF TypeInv
<1> QED
  BY <1>3, <1>4 DEF CommitRevision

LEMMA CommitWordingTypes ==
  ASSUME TypeInv, NEW c \in Calls, CommitWording(c)
  PROVE  TypeInv'
<1>1. lock # c
  BY Unlocked DEF CommitWording
<1>2. calls[c].answer \in Answers
  BY CallShapes DEF CommitWording, TypeInv, AnsweredRevisions
<1>3. Over(lesson.wording, calls[c].answer.wording) \in Wordings
  BY <1>2, Sentinels DEF Over, TypeInv, Lessons
<1>4. lesson' \in Lessons
  BY <1>3 DEF CommitWording, TypeInv, Lessons
<1>5. seen' \in Observers
  BY DEF CommitWording, TypeInv, Observers
<1> QED
  BY <1>1, <1>4, <1>5, EndTypes DEF CommitWording, TypeInv

LEMMA LoadDateTypes ==
  ASSUME TypeInv, NEW c \in Calls, LoadDate(c)
  PROVE  TypeInv'
<1> DEFINE over == [kind |-> "date", at |-> "loaded", old |-> lesson.planned]
<1>1. over \in CallStates
  BY DEF CallStates, LoadedDates, TypeInv, Lessons
<1>2. calls' = [calls EXCEPT ![c] = over] /\ lock' = lock /\ lock # c
  BY Unlocked DEF LoadDate
<1> HIDE DEF over
<1>3. seen' \in Observers
  BY DEF LoadDate, TypeInv, Busy, Observers
<1> QED
  BY <1>1, <1>2, <1>3, StepTypes DEF LoadDate, Stored, TypeInv

\* The call after ListTodos.
MovesOf(c, date) ==
    [kind |-> "date", at |-> "listed", old |-> calls[c].old, new |-> date,
     moved |-> {t \in Rows : Follows(todos[t], calls[c].old) /\ todos[t].due # date}]

LEMMA ListTodosTypes ==
  ASSUME TypeInv, NEW c \in Calls, NEW date \in Dates \union {None}, ListTodos(c, date)
  PROVE  TypeInv'
<1>1. calls[c] \in LoadedDates
  BY CallShapes DEF ListTodos, TypeInv
<1>2. MovesOf(c, date) \in CallStates
  BY <1>1 DEF CallStates, MovesOf, ListedDates, LoadedDates, Rows
<1>3. MovesOf(c, date).kind = "date" /\ MovesOf(c, date).at = "listed"
  BY DEF MovesOf
<1>4. calls' = [calls EXCEPT ![c] = MovesOf(c, date)]
  BY DEF ListTodos, MovesOf
<1>5. lock' = c \/ (lock' = lock /\ lock # c)
  BY Unlocked DEF ListTodos
<1> QED
  BY <1>2, <1>3, <1>4, <1>5, StepTypes DEF ListTodos, Stored, TypeInv

LEMMA CommitDateTypes ==
  ASSUME TypeInv, NEW c \in Calls, CommitDate(c)
  PROVE  TypeInv'
<1> DEFINE call == calls[c]
<1>1. call \in ListedDates
  BY CallShapes DEF CommitDate, TypeInv
<1>2. /\ calls' \in [Calls -> CallStates]
      /\ lock' \in Calls \union {None}
      /\ lock' # None => calls'[lock'].kind # "none" /\ calls'[lock'].at = "listed"
  <2>1. Released(c) /\ (Ends(c, "applied") \/ Ends(c, "failed"))
    BY DEF CommitDate
  <2> QED
    BY <2>1, EndTypes
<1>3. CASE UNCHANGED <<lesson, todos>>
  BY <1>2, <1>3 DEF CommitDate, TypeInv
<1>4. CASE /\ lesson' = IF call.new = call.old THEN lesson ELSE [lesson EXCEPT !.planned = call.new]
           /\ todos' = [t \in Todos |-> IF t \in call.moved /\ todos[t] # None
                                        THEN [todos[t] EXCEPT !.due = call.new] ELSE todos[t]]
  <2>1. call.new \in Dates \union {None}
    BY <1>1 DEF ListedDates
  <2>2. \A row \in TodoRows : [row EXCEPT !.due = call.new] \in TodoRows
    BY <2>1 DEF TodoRows
  <2>3. todos' \in [Todos -> TodoRows \union {None}]
    BY <1>4, <2>2 DEF TypeInv
  <2>4. lesson' \in Lessons
    BY <1>4, <2>1 DEF TypeInv, Lessons
  <2> QED
    BY <1>2, <2>3, <2>4 DEF CommitDate, TypeInv
<1> QED
  BY <1>3, <1>4 DEF CommitDate

LEMMA InterruptTypes ==
  ASSUME TypeInv, NEW c \in Calls, Interrupt(c)
  PROVE  TypeInv'
<1>1. Ends(c, "failed") /\ Released(c)
  BY DEF Interrupt
<1>2. /\ calls' \in [Calls -> CallStates]
      /\ lock' \in Calls \union {None}
      /\ lock' # None => calls'[lock'].kind # "none" /\ calls'[lock'].at = "listed"
  BY <1>1, EndTypes
<1> QED
  BY <1>2 DEF Interrupt, Stored, TypeInv

\* The calls on one todo.
LEMMA TodoTypes ==
  ASSUME TypeInv, NEW t \in Todos, NEW status \in {"PENDING", "DONE"}, NEW due \in Dates \union {None},
         \/ CreateTodo(t, status, due)
         \/ PatchStatus(t, status)
         \/ PatchDue(t, due)
         \/ DeleteTodo(t)
  PROVE  TypeInv'
<1>1. todos' \in [Todos -> TodoRows \union {None}]
  <2>1. CASE CreateTodo(t, status, due)
    <3>1. [status |-> status, due |-> due, outdated |-> FALSE, own |-> due # None, made |-> None] \in TodoRows
      BY DEF TodoRows
    <3> QED
      BY <2>1, <3>1 DEF CreateTodo, TypeInv
  <2>2. CASE PatchStatus(t, status)
    <3>1. \A row \in TodoRows : [row EXCEPT !.status = status] \in TodoRows
      BY DEF TodoRows
    <3> QED
      BY <2>2, <3>1 DEF PatchStatus, TypeInv, Rows
  <2>3. CASE PatchDue(t, due)
    <3>1. \A row \in TodoRows : [row EXCEPT !.due = due, !.own = due # None] \in TodoRows
      BY DEF TodoRows
    <3>2. todos[t] \in TodoRows /\ todos' = [todos EXCEPT ![t] = [todos[t] EXCEPT !.due = due, !.own = due # None]]
      BY <2>3 DEF PatchDue, TypeInv, Rows
    <3> QED
      BY <3>1, <3>2 DEF TypeInv
  <2>4. CASE DeleteTodo(t)
    BY <2>4 DEF DeleteTodo, TypeInv
  <2> QED
    BY <2>1, <2>2, <2>3, <2>4
<1>2. UNCHANGED <<lesson, calls, lock>>
  BY DEF CreateTodo, PatchStatus, PatchDue, DeleteTodo
<1>3. seen' \in Observers
  BY DEF CreateTodo, PatchStatus, PatchDue, DeleteTodo, TypeInv, Observers
<1> QED
  BY <1>1, <1>2, <1>3 DEF TypeInv

LEMMA TypeInvNext == TypeInv /\ [Next]_vars => TypeInv'
<1> SUFFICES ASSUME TypeInv, [Next]_vars PROVE TypeInv'
  OBVIOUS
<1>1. CASE UNCHANGED vars
  BY <1>1 DEF vars, TypeInv
<1>2. ASSUME NEW c \in Calls,
             \/ LoadLesson(c)
             \/ \E answer \in Answers : AskAgents(c, answer)
             \/ FlushLesson(c)
             \/ CommitRevision(c)
             \/ CommitWording(c)
             \/ LoadDate(c)
             \/ \E date \in Dates \union {None} : ListTodos(c, date)
             \/ CommitDate(c)
             \/ Interrupt(c)
      PROVE  TypeInv'
  BY <1>2, LoadLessonTypes, AskAgentsTypes, FlushLessonTypes, CommitRevisionTypes, CommitWordingTypes,
     LoadDateTypes, ListTodosTypes, CommitDateTypes, InterruptTypes
<1>3. ASSUME NEW t \in Todos,
             \/ \E status \in {"PENDING", "DONE"}, due \in Dates \union {None} : CreateTodo(t, status, due)
             \/ \E status \in {"PENDING", "DONE"} : PatchStatus(t, status)
             \/ \E due \in Dates \union {None} : PatchDue(t, due)
             \/ DeleteTodo(t)
      PROVE  TypeInv'
  BY <1>3, TodoTypes
<1> QED
  BY <1>1, <1>2, <1>3 DEF Next

LEMMA Typed == TypeInv => TypeOK
<1> SUFFICES ASSUME TypeInv PROVE TypeOK
  OBVIOUS
<1>1. \A c \in Calls : calls[c].kind \in {"none", "revision", "date"}
  BY CallShapes DEF TypeInv
<1>2. \A t \in Rows : todos[t] \in TodoRows
  BY DEF TypeInv, Rows
<1> QED
  BY <1>1, <1>2, ContentType DEF TypeInv, Lessons, TypeOK

LEMMA TypeInvAlways == Spec => []TypeInv
  BY TypeInvInit, TypeInvNext, PTL DEF Spec

\* Rows, calls and the lock keep their types, and only a call that has listed the todos
\* holds the lock.  (tasks.py:719-860, preparation_todo_routes.py:55-171)
THEOREM TypesHold == Spec => []TypeOK
  BY TypeInvAlways, Typed, PTL

-----------------------------------------------------------------------------------
\* Both columns are written together, from the same answer.
LEMMA ObjectivesNext == TypeInv /\ ObjectivesInStep /\ [Next]_vars => ObjectivesInStep'
<1> SUFFICES ASSUME TypeInv, ObjectivesInStep, [Next]_vars PROVE ObjectivesInStep'
  OBVIOUS
<1>1. CASE UNCHANGED <<lesson, records>>
  BY <1>1 DEF ObjectivesInStep
<1>2. ASSUME NEW c \in Calls, CommitRevision(c), ~ UNCHANGED Stored
      PROVE  ObjectivesInStep'
  <2>1. /\ lesson'.objectives = Over(lesson.objectives, calls[c].answer.objectives)
        /\ records' = WrittenRecords(calls[c].answer)
    <3>1. records' = WrittenRecords(calls[c].answer)
      BY <1>2 DEF CommitRevision
    <3>2. PICK merged \in {Merged(Content, calls[c].answer)} :
            lesson' = [lesson EXCEPT !.objectives = merged.objectives,
                                     !.materials = merged.materials,
                                     !.sections = merged.sections, !.wording = merged.wording]
      BY <1>2 DEF CommitRevision
    <3>3. lesson'.objectives = merged.objectives
      BY <3>2 DEF TypeInv, Lessons
    <3> QED
      BY <3>1, <3>2, <3>3 DEF Merged, Content
  <2> QED
    BY <2>1 DEF ObjectivesInStep, WrittenRecords, Over
<1>3. ASSUME NEW c \in Calls, CommitDate(c) \/ CommitWording(c)
      PROVE  ObjectivesInStep'
  <2>1. lesson'.objectives = lesson.objectives /\ records' = records
    BY <1>3 DEF CommitDate, CommitWording, TypeInv, Lessons
  <2> QED
    BY <2>1 DEF ObjectivesInStep
<1> QED
  BY <1>1, <1>2, <1>3 DEF Next, vars, Stored, LoadLesson, AskAgents, FlushLesson, CommitRevision,
     LoadDate, ListTodos, Interrupt, CreateTodo, PatchStatus, PatchDue, DeleteTodo

\* However revisions overlap, fail and are interrupted, the rows of the objectives say what the
\* column says.  (tasks.py:811-830)
THEOREM ObjectivesAgree == Spec => []ObjectivesInStep
<1>1. Init => ObjectivesInStep
  BY DEF Init, ObjectivesInStep, RecordsOf, Contents
<1> QED
  BY <1>1, ObjectivesNext, TypeInvAlways, PTL DEF Spec

-----------------------------------------------------------------------------------
\* While no two revisions have overlapped, the one in progress works on the lesson as it is.
Alone(kind) ==
    \A c, d \in Calls : calls[c].kind = kind /\ calls[d].kind = kind => c = d

\* A generated todo that is not marked as outdated.
Standing(t) == todos[t].made # None /\ ~todos[t].outdated

Works(c) ==
    /\ calls[c].at = "loaded" => calls[c].base = Content
    /\ calls[c].at \in {"answered", "listed"} /\ Triggers(calls[c].answer) =>
         /\ calls[c].made = Merged(Content, calls[c].answer)
         /\ calls[c].fresh \in Fresh(calls[c].made)
    /\ calls[c].at = "listed" =>
         /\ Triggers(calls[c].answer)
         /\ \A t \in Rows : Standing(t) => t \in calls[c].pending \union calls[c].done

\* It is about the lesson as it is, but for a title and notes that were revised alone.
About(t) ==
    /\ todos[t].made = [Content EXCEPT !.wording = todos[t].made.wording]
    /\ todos[t].made.wording = lesson.wording \/ seen.reworded

Fits == \A t \in Rows : Standing(t) => About(t)

Prepared == Provided(Content) /\ ~seen.deletes => Rows # {}

RevisionInv ==
    ~seen.revisions =>
        /\ Alone("revision")
        /\ \A c \in Calls : calls[c].kind = "revision" => Works(c)
        /\ Fits /\ Prepared

LEMMA RevisionInvInit == Init => RevisionInv
<1> SUFFICES ASSUME Init PROVE RevisionInv
  OBVIOUS
<1>1. PICK content \in Contents, fresh \in SUBSET Todos :
        /\ Cardinality(fresh) \in Fresh(content)
        /\ lesson = [objectives |-> content.objectives, materials |-> content.materials,
                     sections |-> content.sections, wording |-> content.wording, planned |-> None]
        /\ todos = [t \in Todos |-> IF t \in fresh THEN Generated(content) ELSE None]
  BY DEF Init
<1>2. Content = content
  BY <1>1 DEF Content, Contents
<1>3. Generated(content) # None /\ Generated(content).made = content
  BY GeneratedRow, Sentinels
<1>4. Rows = fresh
  BY <1>1, <1>3 DEF Rows
<1>5. Fits
  <2> SUFFICES ASSUME NEW t \in Rows PROVE About(t)
    BY DEF Fits
  <2>1. todos[t].made = Content
    BY <1>1, <1>2, <1>3, <1>4
  <2> QED
    BY <2>1 DEF About, Content
<1>6. Prepared
  BY <1>1, <1>2, <1>4, FreshNumbers, FS_EmptySet DEF Prepared
<1>7. \A c \in Calls : calls[c].kind = "none"
  BY DEF Init, Unset
<1> QED
  BY <1>5, <1>6, <1>7 DEF RevisionInv, Alone

\* A step that leaves the content and every revision in progress alone, adds no standing
\* todo and does not take the last one away without saying so.
LEMMA RevisionUndisturbed ==
  ASSUME RevisionInv, seen'.revisions = seen.revisions, seen'.reworded = seen.reworded,
         Content' = Content,
         \A d \in Calls : calls'[d].kind = "revision" => calls'[d] = calls[d],
         \A t \in Rows' : Standing(t)' =>
            t \in Rows /\ Standing(t) /\ todos'[t].made = todos[t].made,
         (Prepared => Prepared')
  PROVE  RevisionInv'
<1> SUFFICES ASSUME ~seen.revisions PROVE RevisionInv'
  BY DEF RevisionInv
<1>1. Alone("revision")'
  BY DEF RevisionInv, Alone
<1>2. ASSUME NEW c \in Calls, calls'[c].kind = "revision"
      PROVE  Works(c)'
  <2>1. calls'[c] = calls[c] /\ Works(c)
    BY <1>2 DEF RevisionInv
  <2> QED
    BY <2>1 DEF Works
<1>3. Fits'
  <2> SUFFICES ASSUME NEW t \in Rows', Standing(t)' PROVE About(t)'
    BY DEF Fits
  <2>1. t \in Rows /\ About(t) /\ todos'[t].made = todos[t].made
    BY DEF RevisionInv, Fits
  <2>2. lesson'.wording = lesson.wording
    BY DEF Content
  <2> QED
    BY <2>1, <2>2 DEF About
<1> QED
  BY <1>1, <1>2, <1>3 DEF RevisionInv

LEMMA LoadLessonFits ==
  ASSUME TypeInv, RevisionInv, NEW c \in Calls, LoadLesson(c)
  PROVE  RevisionInv'
<1> SUFFICES ASSUME ~seen'.revisions PROVE RevisionInv'
  BY DEF RevisionInv
<1>1. /\ ~seen.revisions /\ ~Busy("revision") /\ seen'.deletes = seen.deletes
      /\ seen'.reworded = seen.reworded
  BY DEF LoadLesson, TypeInv, Busy, Observers
<1>2. UNCHANGED Stored
  BY DEF LoadLesson
<1>3. calls'[c] = [kind |-> "revision", at |-> "loaded", base |-> Content]
  BY DEF LoadLesson, TypeInv
<1>4. \A d \in Calls : calls'[d].kind = "revision" => d = c
  BY <1>1 DEF LoadLesson, TypeInv, Busy
<1>5. Works(c)'
  BY <1>2, <1>3 DEF Works, Stored, Content
<1>6. Fits' /\ Prepared'
  BY <1>1, <1>2 DEF RevisionInv, Fits, About, Prepared, Stored, Content, Rows, Standing
<1> QED
  BY <1>4, <1>5, <1>6 DEF RevisionInv, Alone

LEMMA AskAgentsFits ==
  ASSUME TypeInv, RevisionInv, NEW c \in Calls, NEW answer \in Answers, AskAgents(c, answer)
  PROVE  RevisionInv'
<1> SUFFICES ASSUME ~seen'.revisions PROVE RevisionInv'
  BY DEF RevisionInv
<1>1. UNCHANGED Stored /\ seen' = seen
  BY DEF AskAgents
<1>2. calls[c].kind = "revision" /\ calls[c].at = "loaded" /\ calls[c].base = Content
  BY <1>1 DEF AskAgents, RevisionInv, Works
<1>3. PICK n \in (IF Triggers(answer) THEN Fresh(Merged(Content, answer)) ELSE {0}) :
        calls' = [calls EXCEPT ![c] = [kind |-> "revision", at |-> "answered", answer |-> answer,
                                       fresh |-> n, made |-> Merged(Content, answer)]]
  BY <1>2 DEF AskAgents
<1>4. calls'[c] = [kind |-> "revision", at |-> "answered", answer |-> answer, fresh |-> n,
                   made |-> Merged(Content, answer)]
  BY <1>3 DEF TypeInv
<1>5. \A d \in Calls : calls'[d].kind = "revision" => d = c
  BY <1>1, <1>2, <1>3 DEF RevisionInv, Alone, TypeInv
<1>6. Content' = Content
  BY <1>1 DEF Stored, Content
<1>7. Works(c)'
  BY <1>3, <1>4, <1>6 DEF Works
<1>8. Fits' /\ Prepared'
  BY <1>1 DEF RevisionInv, Fits, About, Prepared, Stored, Content, Rows, Standing
<1> QED
  BY <1>5, <1>7, <1>8 DEF RevisionInv, Alone

LEMMA FlushLessonFits ==
  ASSUME TypeInv, RevisionInv, NEW c \in Calls, FlushLesson(c)
  PROVE  RevisionInv'
<1> SUFFICES ASSUME ~seen'.revisions PROVE RevisionInv'
  BY DEF RevisionInv
<1>1. UNCHANGED Stored /\ seen' = seen
  BY DEF FlushLesson
<1>2. /\ calls[c].kind = "revision" /\ calls[c].at = "answered" /\ Triggers(calls[c].answer)
      /\ Works(c) /\ \A d \in Calls : calls[d].kind = "revision" => d = c
  BY <1>1 DEF FlushLesson, RevisionInv, Alone
<1>3. Content' = Content
  BY <1>1 DEF Stored, Content
<1>4. Fits' /\ Prepared'
  BY <1>1 DEF RevisionInv, Fits, About, Prepared, Stored, Content, Rows, Standing
<1>5. CASE Ends(c, "refused")
  <2>1. \A d \in Calls : calls'[d].kind # "revision"
    BY <1>2, <1>5 DEF Ends, TypeInv
  <2> QED
    BY <1>4, <2>1 DEF RevisionInv, Alone
<1>6. CASE calls' = [calls EXCEPT ![c] = ListedOf(c)]
  <2>1. calls'[c] = ListedOf(c) /\ \A d \in Calls : calls'[d].kind = "revision" => d = c
    BY <1>2, <1>6 DEF TypeInv
  <2>2. \A t \in Rows : t \in ListedOf(c).pending \union ListedOf(c).done
    BY DEF TypeInv, ListedOf, Rows, TodoRows
  <2>3. /\ ListedOf(c).at = "listed" /\ ListedOf(c).answer = calls[c].answer
        /\ ListedOf(c).made = calls[c].made /\ ListedOf(c).fresh = calls[c].fresh
    BY DEF ListedOf
  <2>4. Rows' = Rows
    BY <1>1 DEF Stored, Rows
  <2>5. Works(c)'
    BY <1>2, <1>3, <2>1, <2>2, <2>3, <2>4 DEF Works
  <2> QED
    BY <1>4, <2>1, <2>5 DEF RevisionInv, Alone
<1> QED
  BY <1>5, <1>6 DEF FlushLesson, ListedOf

\* A revision that ends without writing.
LEMMA EndFits ==
  ASSUME TypeInv, RevisionInv, NEW c \in Calls, UNCHANGED Stored, seen' = seen,
         Ends(c, "failed")
  PROVE  RevisionInv'
<1>1. \A d \in Calls : calls'[d].kind = "revision" => calls'[d] = calls[d]
  BY DEF Ends, TypeInv
<1>2. Content' = Content /\ (Prepared => Prepared')
  BY DEF Stored, Content, Prepared, Rows
<1>3. \A t \in Rows' : Standing(t)' => t \in Rows /\ Standing(t) /\ todos'[t].made = todos[t].made
  BY DEF Stored, Rows, Standing
<1> QED
  BY <1>1, <1>2, <1>3, RevisionUndisturbed

LEMMA CommitRevisionFits ==
  ASSUME TypeInv, RevisionInv, NEW c \in Calls, CommitRevision(c)
  PROVE  RevisionInv'
<1> DEFINE call == calls[c]
<1> SUFFICES ASSUME ~seen'.revisions PROVE RevisionInv'
  BY DEF RevisionInv
<1>1. ~seen.revisions
  BY DEF CommitRevision, TypeInv, Observers
<1>2. CASE UNCHANGED <<Stored, seen>> /\ Ends(c, "failed")
  BY <1>2, EndFits
<1>3. ASSUME Ends(c, "applied"),
             NEW fresh \in SUBSET Free, Cardinality(fresh) = call.fresh,
             todos' = Reconciled(call, fresh),
             NEW merged, merged = Merged(Content, call.answer),
             lesson' = [lesson EXCEPT !.objectives = merged.objectives,
                                      !.materials = merged.materials,
                                      !.sections = merged.sections, !.wording = merged.wording]
      PROVE  RevisionInv'
  <2>1. call \in ListedRevisions
    BY CallShapes DEF CommitRevision, TypeInv
  <2>2. /\ Works(c) /\ call.kind = "revision" /\ call.at = "listed"
        /\ \A d \in Calls : calls[d].kind = "revision" => d = c
    BY <1>1 DEF CommitRevision, RevisionInv, Alone
  <2>3. merged \in Contents /\ call.made = merged /\ call.fresh \in Fresh(merged)
    BY <1>3, <2>1, <2>2, ContentType, MergedContents DEF Works, ListedRevisions
  <2>4. Content' = merged
    BY <1>3, <2>3 DEF Content, Contents, TypeInv, Lessons
  <2>5. Generated(merged) # None /\ Generated(merged).made = merged
    BY <2>3, GeneratedRow, Sentinels
  <2>6. fresh \in SUBSET Todos
    BY DEF Free
  <2>7. Fits'
    <3> SUFFICES ASSUME NEW t \in Rows', Standing(t)'
                 PROVE  todos'[t].made = merged
      <4>1. merged = [merged EXCEPT !.wording = merged.wording] /\ lesson'.wording = merged.wording
        BY <2>3, <2>4 DEF Contents, Content
      <4> QED
        BY <2>4, <4>1 DEF Fits, About
    <3>1. CASE t \in fresh
      BY <1>3, <2>1, <2>3, <2>5, <2>6, <3>1, ReconciledRows
    <3>2. CASE t \notin fresh
      <4>1. t \in Todos /\ todos[t] # None /\ t \notin call.pending
        BY <1>3, <2>1, <2>6, <3>2, ReconciledRows DEF Rows
      <4>2. t \notin call.done
        <5> SUFFICES ASSUME t \in call.done PROVE FALSE
          OBVIOUS
        <5>1. todos'[t] = Outdated(todos[t])
          BY <1>3, <2>1, <2>6, <3>2, <4>1, ReconciledRows
        <5>2. todos[t] \in TodoRows
          BY <4>1 DEF TypeInv
        <5> QED
          BY <5>1, <5>2, OutdatedRow DEF Standing
      <4>3. todos'[t] = todos[t]
        BY <1>3, <2>1, <2>6, <3>2, <4>1, <4>2, ReconciledRows
      <4>4. t \in Rows /\ Standing(t)
        BY <4>1, <4>3 DEF Rows, Standing
      <4> QED
        BY <2>2, <4>1, <4>2, <4>4 DEF Works
    <3> QED
      BY <3>1, <3>2
  <2>8. Prepared'
    <3> SUFFICES ASSUME Provided(merged) PROVE Rows' # {}
      BY <2>4 DEF Prepared
    <3>1. Cardinality(fresh) # 0
      BY <1>3, <2>3, FreshNumbers
    <3>2. PICK t \in fresh : TRUE
      BY <3>1, FS_EmptySet
    <3>3. todos'[t] # None /\ t \in Todos
      BY <1>3, <2>1, <2>3, <2>5, <2>6, <3>2, ReconciledRows
    <3> QED
      BY <3>3 DEF Rows
  <2>9. \A d \in Calls : calls'[d].kind # "revision"
    BY <1>3, <2>2 DEF Ends, TypeInv
  <2> QED
    BY <2>7, <2>8, <2>9 DEF RevisionInv, Alone
<1> QED
  BY <1>2, <1>3 DEF CommitRevision

\* A revision of the title and the notes alone, which leaves the todos as they are.
LEMMA CommitWordingFits ==
  ASSUME TypeInv, RevisionInv, NEW c \in Calls, CommitWording(c)
  PROVE  RevisionInv'
<1> SUFFICES ASSUME ~seen'.revisions PROVE RevisionInv'
  BY DEF RevisionInv
<1>1. /\ ~seen.revisions /\ seen'.deletes = seen.deletes /\ UNCHANGED todos
      /\ (lesson'.wording = lesson.wording /\ seen'.reworded = seen.reworded) \/ seen'.reworded
  BY DEF CommitWording, TypeInv, Lessons, Observers
<1>2. Content' = [Content EXCEPT !.wording = lesson'.wording]
  BY DEF CommitWording, Content, TypeInv, Lessons
<1>3. \A d \in Calls : calls'[d].kind # "revision"
  BY <1>1 DEF CommitWording, Ends, RevisionInv, Alone, TypeInv
<1>4. Fits'
  <2> SUFFICES ASSUME NEW t \in Rows', Standing(t)' PROVE About(t)'
    BY DEF Fits
  <2>1. About(t)
    BY <1>1 DEF RevisionInv, Fits, Rows, Standing
  <2>2. todos'[t].made = [Content' EXCEPT !.wording = todos'[t].made.wording]
    BY <1>1, <1>2, <2>1 DEF About, Content
  <2> QED
    BY <1>1, <2>1, <2>2 DEF About
<1>5. Provided(Content)' => Provided(Content)
  BY <1>2 DEF Provided, Askable, Content
<1>6. Prepared'
  BY <1>1, <1>5 DEF RevisionInv, Prepared, Rows
<1> QED
  BY <1>3, <1>4, <1>6 DEF RevisionInv, Alone

\* The steps of the date, which touch neither the content nor a revision.
LEMMA DateFits ==
  ASSUME TypeInv, TypeInv', RevisionInv, NEW c \in Calls, NEW date \in Dates \union {None},
         LoadDate(c) \/ ListTodos(c, date) \/ CommitDate(c)
  PROVE  RevisionInv'
<1>1. /\ seen'.revisions = seen.revisions /\ seen'.deletes = seen.deletes
      /\ seen'.reworded = seen.reworded
  BY DEF LoadDate, ListTodos, CommitDate, TypeInv, Observers
<1>2. \A d \in Calls : calls'[d].kind = "revision" => calls'[d] = calls[d]
  BY DEF LoadDate, ListTodos, CommitDate, Ends, TypeInv
<1>3. /\ lesson'.objectives = lesson.objectives /\ lesson'.materials = lesson.materials
      /\ lesson'.sections = lesson.sections /\ lesson'.wording = lesson.wording
  BY DEF LoadDate, ListTodos, CommitDate, Stored, TypeInv, Lessons
<1>4. \A t \in Todos :
        /\ todos'[t] = None <=> todos[t] = None
        /\ todos[t] # None => /\ todos'[t].made = todos[t].made
                              /\ todos'[t].outdated = todos[t].outdated
  <2>1. CASE UNCHANGED todos
    BY <2>1
  <2>2. CASE CommitDate(c) /\ ~ UNCHANGED todos
    <3>1. todos' = [t \in Todos |-> IF t \in calls[c].moved /\ todos[t] # None
                                    THEN [todos[t] EXCEPT !.due = calls[c].new] ELSE todos[t]]
      BY <2>2 DEF CommitDate
    <3>2. \A t \in Todos : todos[t] # None => todos[t] \in TodoRows
      BY DEF TypeInv
    <3>3. \A t \in Todos : todos[t] # None => todos'[t] # None
      <4> SUFFICES ASSUME NEW t \in Todos, todos[t] # None, todos'[t] = None PROVE FALSE
        OBVIOUS
      <4>1. todos'[t] = [todos[t] EXCEPT !.due = calls[c].new]
        BY <3>1
      <4>2. calls[c] \in ListedDates
        BY <2>2, CallShapes DEF CommitDate, TypeInv
      <4>3. todos'[t] \in TodoRows
        BY <3>2, <4>1, <4>2 DEF TodoRows, ListedDates
      <4> QED
        BY <4>3, Sentinels
    <3> QED
      BY <3>1, <3>2, <3>3 DEF TodoRows
  <2> QED
    BY <2>1, <2>2 DEF LoadDate, ListTodos, Stored
<1>5. Content' = Content /\ Rows' = Rows
  BY <1>3, <1>4 DEF Content, Rows
<1>6. \A t \in Rows' : Standing(t)' => t \in Rows /\ Standing(t) /\ todos'[t].made = todos[t].made
  BY <1>4, <1>5 DEF Standing, Rows
<1>7. Prepared => Prepared'
  BY <1>1, <1>3, <1>5 DEF Prepared
<1> QED
  BY <1>1, <1>2, <1>5, <1>6, <1>7, RevisionUndisturbed

LEMMA TodoFits ==
  ASSUME TypeInv, RevisionInv, NEW t \in Todos, NEW status \in {"PENDING", "DONE"},
         NEW due \in Dates \union {None},
         \/ CreateTodo(t, status, due)
         \/ PatchStatus(t, status)
         \/ PatchDue(t, due)
         \/ DeleteTodo(t)
  PROVE  RevisionInv'
<1>1. /\ UNCHANGED <<lesson, calls>> /\ seen'.revisions = seen.revisions
      /\ seen'.reworded = seen.reworded
  BY DEF CreateTodo, PatchStatus, PatchDue, DeleteTodo, TypeInv, Observers
<1>2. \A u \in Todos \ {t} : todos'[u] = todos[u]
  BY DEF CreateTodo, PatchStatus, PatchDue, DeleteTodo, TypeInv
<1>0. Content' = Content
  BY <1>1 DEF Content
<1>3. CASE CreateTodo(t, status, due)
  <2>1. t \notin Rows /\ seen' = seen /\ todos'[t].made = None
    BY <1>3 DEF CreateTodo, Free, TypeInv
  <2>2. Prepared => Prepared'
    BY <1>0, <1>1, <1>2, <2>1 DEF Prepared, Rows
  <2>3. \A u \in Rows' : Standing(u)' => u \in Rows /\ Standing(u) /\ todos'[u].made = todos[u].made
    BY <1>2, <2>1 DEF Rows, Standing
  <2> QED
    BY <1>0, <1>1, <2>2, <2>3, RevisionUndisturbed
<1>4. CASE PatchStatus(t, status) \/ PatchDue(t, due)
  <2>1. t \in Rows /\ seen' = seen /\ todos[t] \in TodoRows
    BY <1>4 DEF PatchStatus, PatchDue, Rows, TypeInv
  <2>2. todos'[t].made = todos[t].made /\ todos'[t].outdated = todos[t].outdated
    BY <1>4, <2>1 DEF PatchStatus, PatchDue, TypeInv, TodoRows
  <2>3. todos'[t] # None
    BY <1>4, <2>1, TodoTypes, Sentinels DEF PatchStatus, PatchDue, TypeInv, TodoRows
  <2>4. Prepared => Prepared'
    BY <1>0, <1>1, <2>1, <2>3 DEF Prepared, Rows
  <2>5. \A u \in Rows' : Standing(u)' => u \in Rows /\ Standing(u) /\ todos'[u].made = todos[u].made
    BY <1>2, <2>1, <2>2, <2>3 DEF Rows, Standing
  <2> QED
    BY <1>0, <1>1, <2>4, <2>5, RevisionUndisturbed
<1>5. CASE DeleteTodo(t)
  <2>1. todos'[t] = None /\ seen'.deletes
    BY <1>5 DEF DeleteTodo, TypeInv
  <2>2. Prepared => Prepared'
    BY <2>1 DEF Prepared
  <2>3. \A u \in Rows' : Standing(u)' => u \in Rows /\ Standing(u) /\ todos'[u].made = todos[u].made
    BY <1>2, <2>1 DEF Rows, Standing
  <2> QED
    BY <1>0, <1>1, <2>2, <2>3, RevisionUndisturbed
<1> QED
  BY <1>3, <1>4, <1>5

LEMMA RevisionInvNext == TypeInv /\ RevisionInv /\ [Next]_vars => RevisionInv'
<1> SUFFICES ASSUME TypeInv, RevisionInv, [Next]_vars PROVE RevisionInv'
  OBVIOUS
<1>1. CASE UNCHANGED vars
  <2>1. Content' = Content /\ (Prepared => Prepared') /\ Rows' = Rows
    BY <1>1 DEF vars, Content, Prepared, Rows
  <2> QED
    BY <1>1, <2>1, RevisionUndisturbed DEF vars, Standing
<1>2. ASSUME NEW c \in Calls, LoadDate(c) \/ (\E date \in Dates \union {None} : ListTodos(c, date)) \/ CommitDate(c)
      PROVE  RevisionInv'
  BY <1>2, TypeInvNext, DateFits
<1>3. ASSUME NEW c \in Calls, Interrupt(c)
      PROVE  RevisionInv'
  BY <1>3, EndFits DEF Interrupt
<1>4. ASSUME NEW c \in Calls,
             \/ LoadLesson(c)
             \/ \E answer \in Answers : AskAgents(c, answer)
             \/ FlushLesson(c)
             \/ CommitRevision(c)
             \/ CommitWording(c)
      PROVE  RevisionInv'
  BY <1>4, LoadLessonFits, AskAgentsFits, FlushLessonFits, CommitRevisionFits, CommitWordingFits
<1>5. ASSUME NEW t \in Todos,
             \/ \E status \in {"PENDING", "DONE"}, due \in Dates \union {None} : CreateTodo(t, status, due)
             \/ \E status \in {"PENDING", "DONE"} : PatchStatus(t, status)
             \/ \E due \in Dates \union {None} : PatchDue(t, due)
             \/ DeleteTodo(t)
      PROVE  RevisionInv'
  BY <1>5, TodoFits
<1> QED
  BY <1>1, <1>2, <1>3, <1>4, <1>5 DEF Next

LEMMA RevisionInvAlways == Spec => []RevisionInv
  BY RevisionInvInit, RevisionInvNext, TypeInvAlways, PTL DEF Spec

\* Unless two revisions overlap, no generated todo is about older objectives, materials or
\* sections without being marked so, nor about an older title or notes unless these have been
\* revised alone since, whatever the user does to the todos meanwhile.  (tasks.py:668, 832-855)
THEOREM TodosAlwaysFit == Spec => []TodosFitLesson
<1>1. RevisionInv => TodosFitLesson
  BY DEF RevisionInv, Fits, About, Standing, TodosFitLesson
<1> QED
  BY <1>1, RevisionInvAlways, PTL

\* Unless two revisions overlap or the user deletes a todo, a lesson with materials that the
\* prompt and the fallback can read has some preparation, also when the agent failed.
\* (tasks.py:773-779, preparation_agent.py:211-250, 273-292, 315)
THEOREM MaterialsAlwaysPrepared == Spec => []MaterialsArePrepared
<1>1. RevisionInv => MaterialsArePrepared
  BY DEF RevisionInv, Prepared, MaterialsArePrepared
<1> QED
  BY <1>1, RevisionInvAlways, PTL

-----------------------------------------------------------------------------------
\* A due date that the user did not choose.
Carried(t) == todos[t].due # None /\ ~todos[t].own

\* While no two changes of the date have overlapped, the one in progress knows the date.
KnowsDate(c) ==
    /\ calls[c].old = lesson.planned
    /\ calls[c].at = "listed" /\ calls[c].new # calls[c].old =>
         \A t \in Rows : Carried(t) => t \in calls[c].moved \/ todos[t].due = calls[c].new

DateInv ==
    ~seen.dates =>
        /\ Alone("date")
        /\ \A c \in Calls : calls[c].kind = "date" => KnowsDate(c)
        /\ \A t \in Rows : Carried(t) => todos[t].due = lesson.planned

LEMMA DateInvInit == Init => DateInv
<1> SUFFICES ASSUME Init PROVE DateInv
  OBVIOUS
<1>1. PICK content \in Contents, fresh \in SUBSET Todos :
        todos = [t \in Todos |-> IF t \in fresh THEN Generated(content) ELSE None]
  BY DEF Init
<1>2. \A t \in Rows : ~Carried(t)
  BY <1>1, GeneratedRow DEF Rows, Carried
<1>3. \A c \in Calls : calls[c].kind = "none"
  BY DEF Init, Unset
<1> QED
  BY <1>2, <1>3 DEF DateInv, Alone

\* A step that leaves the planned date and every change in progress alone and carries no due
\* date on that was not there.
LEMMA DateUndisturbed ==
  ASSUME DateInv, seen'.dates = seen.dates, lesson'.planned = lesson.planned,
         \A d \in Calls : calls'[d].kind = "date" => calls'[d] = calls[d],
         \A t \in Rows' : Carried(t)' => t \in Rows /\ Carried(t) /\ todos'[t].due = todos[t].due
  PROVE  DateInv'
<1> SUFFICES ASSUME ~seen.dates PROVE DateInv'
  BY DEF DateInv
<1>1. Alone("date")'
  BY DEF DateInv, Alone
<1>2. ASSUME NEW c \in Calls, calls'[c].kind = "date"
      PROVE  KnowsDate(c)'
  <2>1. calls'[c] = calls[c] /\ KnowsDate(c)
    BY <1>2 DEF DateInv
  <2> QED
    BY <2>1 DEF KnowsDate
<1>3. \A t \in Rows' : Carried(t)' => todos'[t].due = lesson'.planned
  BY DEF DateInv
<1> QED
  BY <1>1, <1>2, <1>3 DEF DateInv

LEMMA LoadDateFollows ==
  ASSUME TypeInv, DateInv, NEW c \in Calls, LoadDate(c)
  PROVE  DateInv'
<1> SUFFICES ASSUME ~seen'.dates PROVE DateInv'
  BY DEF DateInv
<1>1. ~seen.dates /\ ~Busy("date") /\ UNCHANGED Stored
  BY DEF LoadDate, TypeInv, Busy, Observers
<1>2. calls'[c] = [kind |-> "date", at |-> "loaded", old |-> lesson.planned]
  BY DEF LoadDate, TypeInv
<1>3. \A d \in Calls : calls'[d].kind = "date" => d = c
  BY <1>1 DEF LoadDate, TypeInv, Busy
<1>4. KnowsDate(c)'
  BY <1>1, <1>2 DEF KnowsDate, Stored
<1>5. \A t \in Rows' : Carried(t)' => todos'[t].due = lesson'.planned
  BY <1>1 DEF DateInv, Stored, Rows, Carried
<1> QED
  BY <1>3, <1>4, <1>5 DEF DateInv, Alone

LEMMA ListTodosFollows ==
  ASSUME TypeInv, DateInv, NEW c \in Calls, NEW date \in Dates \union {None}, ListTodos(c, date)
  PROVE  DateInv'
<1> SUFFICES ASSUME ~seen'.dates PROVE DateInv'
  BY DEF DateInv
<1>1. seen' = seen /\ UNCHANGED Stored
  BY DEF ListTodos
<1>2. /\ calls[c].kind = "date" /\ calls[c].old = lesson.planned
      /\ \A d \in Calls : calls[d].kind = "date" => d = c
  BY <1>1 DEF ListTodos, DateInv, Alone, KnowsDate
<1>3. calls'[c] = MovesOf(c, date) /\ \A d \in Calls : calls'[d].kind = "date" => d = c
  BY <1>2 DEF ListTodos, MovesOf, TypeInv
<1>4. \A t \in Rows : Carried(t) => todos[t].due = lesson.planned
  BY <1>1 DEF DateInv
<1>5. \A t \in Rows : Carried(t) => t \in MovesOf(c, date).moved \/ todos[t].due = date
  BY <1>2, <1>4 DEF MovesOf, Follows
<1>6. MovesOf(c, date).old = lesson.planned /\ MovesOf(c, date).new = date
  BY <1>2 DEF MovesOf
<1>7. KnowsDate(c)'
  BY <1>1, <1>3, <1>5, <1>6 DEF KnowsDate, Stored, Rows, Carried
<1>8. \A t \in Rows' : Carried(t)' => todos'[t].due = lesson'.planned
  BY <1>1, <1>4 DEF Stored, Rows, Carried
<1> QED
  BY <1>3, <1>7, <1>8 DEF DateInv, Alone

LEMMA EndFollows ==
  ASSUME TypeInv, DateInv, NEW c \in Calls, UNCHANGED Stored, seen' = seen,
         Ends(c, "applied") \/ Ends(c, "failed") \/ Ends(c, "refused")
  PROVE  DateInv'
<1>1. \A d \in Calls : calls'[d].kind = "date" => calls'[d] = calls[d]
  BY DEF Ends, TypeInv
<1>2. \A t \in Rows' : Carried(t)' => t \in Rows /\ Carried(t) /\ todos'[t].due = todos[t].due
  BY DEF Stored, Rows, Carried
<1> QED
  BY <1>1, <1>2, DateUndisturbed DEF Stored

LEMMA CommitDateFollows ==
  ASSUME TypeInv, DateInv, NEW c \in Calls, CommitDate(c)
  PROVE  DateInv'
<1> DEFINE call == calls[c]
<1> SUFFICES ASSUME ~seen'.dates PROVE DateInv'
  BY DEF DateInv
<1>1. CASE UNCHANGED <<lesson, todos>> /\ Ends(c, "failed")
  BY <1>1, EndFollows DEF CommitDate, Stored
<1>2. CASE /\ lesson' = IF call.new = call.old THEN lesson ELSE [lesson EXCEPT !.planned = call.new]
           /\ todos' = [t \in Todos |-> IF t \in call.moved /\ todos[t] # None
                                        THEN [todos[t] EXCEPT !.due = call.new] ELSE todos[t]]
           /\ Ends(c, "applied")
  <2>1. /\ ~seen.dates /\ call.kind = "date" /\ call.at = "listed" /\ KnowsDate(c)
        /\ \A d \in Calls : calls[d].kind = "date" => d = c
    BY DEF CommitDate, DateInv, Alone
  <2>2. lesson'.planned = call.new
    BY <1>2, <2>1 DEF KnowsDate, TypeInv
  <2>3. \A d \in Calls : calls'[d].kind # "date"
    BY <1>2, <2>1 DEF Ends, TypeInv
  <2>4. ASSUME NEW t \in Rows', Carried(t)'
        PROVE  todos'[t].due = call.new
    <3>1. t \in Rows
      BY <1>2 DEF Rows
    <3>2. todos[t] \in TodoRows
      BY <3>1 DEF TypeInv, Rows
    <3>3. CASE t \in call.moved
      BY <1>2, <3>1, <3>2, <3>3 DEF Rows, TodoRows
    <3>4. CASE t \notin call.moved
      <4>1. todos'[t] = todos[t]
        BY <1>2, <3>1, <3>4 DEF Rows
      <4>2. Carried(t) /\ todos[t].due = lesson.planned
        BY <2>1, <2>4, <3>1, <4>1 DEF DateInv, Carried
      <4> QED
        BY <2>1, <3>1, <3>4, <4>1, <4>2 DEF KnowsDate
    <3> QED
      BY <3>3, <3>4
  <2> QED
    BY <2>2, <2>3, <2>4 DEF DateInv, Alone
<1> QED
  BY <1>1, <1>2 DEF CommitDate

\* The steps of a revision, which know nothing of dates: a new todo has none.
LEMMA RevisionFollows ==
  ASSUME TypeInv, DateInv, NEW c \in Calls, NEW answer \in Answers,
         LoadLesson(c) \/ AskAgents(c, answer)
  PROVE  DateInv'
<1>1. seen'.dates = seen.dates /\ UNCHANGED Stored
  BY DEF LoadLesson, AskAgents, TypeInv, Observers
<1>2. \A d \in Calls : calls'[d].kind = "date" => calls'[d] = calls[d]
  BY DEF LoadLesson, AskAgents, TypeInv
<1>3. \A t \in Rows' : Carried(t)' => t \in Rows /\ Carried(t) /\ todos'[t].due = todos[t].due
  BY <1>1 DEF Stored, Rows, Carried
<1> QED
  BY <1>1, <1>2, <1>3, DateUndisturbed DEF Stored

LEMMA FlushLessonFollows ==
  ASSUME TypeInv, DateInv, NEW c \in Calls, FlushLesson(c)
  PROVE  DateInv'
<1>1. seen' = seen /\ UNCHANGED Stored
  BY DEF FlushLesson
<1>2. \A d \in Calls : calls'[d].kind = "date" => calls'[d] = calls[d]
  BY DEF FlushLesson, Ends, TypeInv
<1>3. \A t \in Rows' : Carried(t)' => t \in Rows /\ Carried(t) /\ todos'[t].due = todos[t].due
  BY <1>1 DEF Stored, Rows, Carried
<1> QED
  BY <1>1, <1>2, <1>3, DateUndisturbed DEF Stored

LEMMA CommitRevisionFollows ==
  ASSUME TypeInv, DateInv, NEW c \in Calls, CommitRevision(c)
  PROVE  DateInv'
<1> DEFINE call == calls[c]
<1>1. seen'.dates = seen.dates
  BY DEF CommitRevision, TypeInv, Observers
<1>2. CASE UNCHANGED <<Stored, seen>> /\ Ends(c, "failed")
  BY <1>2, EndFollows
<1>3. ASSUME Ends(c, "applied"),
             NEW fresh \in SUBSET Free, todos' = Reconciled(call, fresh),
             NEW merged,
             lesson' = [lesson EXCEPT !.objectives = merged.objectives,
                                      !.materials = merged.materials,
                                      !.sections = merged.sections, !.wording = merged.wording]
      PROVE  DateInv'
  <2>1. call \in ListedRevisions
    BY CallShapes DEF CommitRevision, TypeInv
  <2>2. lesson'.planned = lesson.planned
    BY <1>3 DEF TypeInv, Lessons
  <2>3. \A d \in Calls : calls'[d].kind = "date" => calls'[d] = calls[d]
    BY <1>3 DEF Ends, TypeInv
  <2>4. fresh \in SUBSET Todos
    BY DEF Free
  <2>5. ASSUME NEW t \in Rows', Carried(t)'
        PROVE  t \in Rows /\ Carried(t) /\ todos'[t].due = todos[t].due
    <3>1. t \notin fresh
      <4>1. call.made \in Contents
        BY <2>1 DEF ListedRevisions
      <4> QED
        BY <1>3, <2>1, <2>4, <2>5, <4>1, ReconciledRows, GeneratedRow DEF Carried
    <3>2. t \in Rows /\ todos[t] \in TodoRows
      BY <1>3, <2>1, <2>4, <3>1, ReconciledRows DEF Rows, TypeInv
    <3>3. todos'[t] \in {todos[t], Outdated(todos[t])}
      BY <1>3, <2>1, <2>4, <3>1, <3>2, ReconciledRows DEF Rows
    <3> QED
      BY <2>5, <3>2, <3>3, OutdatedRow DEF Carried
  <2> QED
    BY <1>1, <2>2, <2>3, <2>5, DateUndisturbed
<1> QED
  BY <1>2, <1>3 DEF CommitRevision

LEMMA TodoFollows ==
  ASSUME TypeInv, DateInv, NEW t \in Todos, NEW status \in {"PENDING", "DONE"},
         NEW due \in Dates \union {None},
         \/ CreateTodo(t, status, due)
         \/ PatchStatus(t, status)
         \/ PatchDue(t, due)
         \/ DeleteTodo(t)
  PROVE  DateInv'
<1>1. UNCHANGED <<lesson, calls>> /\ seen'.dates = seen.dates
  BY DEF CreateTodo, PatchStatus, PatchDue, DeleteTodo, TypeInv, Observers
<1>2. \A u \in Todos \ {t} : todos'[u] = todos[u]
  BY DEF CreateTodo, PatchStatus, PatchDue, DeleteTodo, TypeInv
<1>3. t \in Rows' /\ Carried(t)' => t \in Rows /\ Carried(t) /\ todos'[t].due = todos[t].due
  <2>0. CASE DeleteTodo(t)
    BY <2>0 DEF DeleteTodo, Rows, TypeInv
  <2>1. CASE CreateTodo(t, status, due)
    <3>1. todos'[t].due = due /\ todos'[t].own = (due # None)
      BY <2>1 DEF CreateTodo, TypeInv
    <3> QED
      BY <3>1 DEF Carried
  <2>2. CASE PatchStatus(t, status) \/ PatchDue(t, due)
    <3>1. t \in Rows /\ todos[t] \in TodoRows
      BY <2>2 DEF PatchStatus, PatchDue, Rows, TypeInv
    <3> QED
      BY <2>2, <3>1 DEF PatchStatus, PatchDue, Carried, TodoRows, TypeInv
  <2> QED
    BY <2>0, <2>1, <2>2
<1> QED
  BY <1>1, <1>2, <1>3, DateUndisturbed DEF Rows, Carried

LEMMA DateInvNext == TypeInv /\ DateInv /\ [Next]_vars => DateInv'
<1> SUFFICES ASSUME TypeInv, DateInv, [Next]_vars PROVE DateInv'
  OBVIOUS
<1>1. CASE UNCHANGED vars
  BY <1>1, DateUndisturbed DEF vars, Rows, Carried
<1>2. ASSUME NEW c \in Calls, LoadDate(c) \/ (\E date \in Dates \union {None} : ListTodos(c, date)) \/ CommitDate(c)
      PROVE  DateInv'
  BY <1>2, LoadDateFollows, ListTodosFollows, CommitDateFollows
<1>3. ASSUME NEW c \in Calls, Interrupt(c)
      PROVE  DateInv'
  BY <1>3, EndFollows DEF Interrupt
<1>4. ASSUME NEW c \in Calls, LoadLesson(c) \/ CommitWording(c)
      PROVE  DateInv'
  <2>1. seen'.dates = seen.dates /\ lesson'.planned = lesson.planned /\ UNCHANGED todos
    BY <1>4 DEF LoadLesson, CommitWording, Stored, TypeInv, Lessons, Observers
  <2>2. \A d \in Calls : calls'[d].kind = "date" => calls'[d] = calls[d]
    BY <1>4 DEF LoadLesson, CommitWording, Ends, TypeInv
  <2> QED
    BY <2>1, <2>2, DateUndisturbed DEF Rows, Carried
<1>5. ASSUME NEW c \in Calls,
             \/ \E answer \in Answers : AskAgents(c, answer)
             \/ FlushLesson(c)
             \/ CommitRevision(c)
      PROVE  DateInv'
  BY <1>5, RevisionFollows, FlushLessonFollows, CommitRevisionFollows
<1>6. ASSUME NEW t \in Todos,
             \/ \E status \in {"PENDING", "DONE"}, due \in Dates \union {None} : CreateTodo(t, status, due)
             \/ \E status \in {"PENDING", "DONE"} : PatchStatus(t, status)
             \/ \E due \in Dates \union {None} : PatchDue(t, due)
             \/ DeleteTodo(t)
      PROVE  DateInv'
  BY <1>6, TodoFollows
<1> QED
  BY <1>1, <1>2, <1>3, <1>4, <1>5, <1>6 DEF Next

\* Unless two changes of the planned date overlap, a due date that the user did not choose is
\* the planned date, whatever revisions and the user do to the todos meanwhile.
\* (preparation_todo_routes.py:88-98)
THEOREM DueDatesAlwaysFollow == Spec => []DueDatesFollow
<1>1. DateInv => DueDatesFollow
  BY DEF DateInv, Carried, DueDatesFollow
<1> QED
  BY <1>1, DateInvInit, DateInvNext, TypeInvAlways, PTL DEF Spec

-----------------------------------------------------------------------------------
\* Of the steps that make a row disappear.
LEMMA RowsDisappear ==
  ASSUME TypeInv, [Next]_vars, NEW t \in Rows, todos'[t] = None
  PROVE  \/ DeleteTodo(t)
         \/ \E c \in Calls : /\ calls[c].kind = "revision" /\ calls[c].at = "listed"
                             /\ t \in calls[c].pending
<1>0. t \in Todos /\ todos[t] # None /\ todos[t] \in TodoRows
  BY DEF Rows, TypeInv
<1>1. CASE UNCHANGED todos
  BY <1>0, <1>1
<1>2. ASSUME NEW c \in Calls, CommitRevision(c), ~ UNCHANGED todos
      PROVE  calls[c].kind = "revision" /\ calls[c].at = "listed" /\ t \in calls[c].pending
  <2>1. calls[c].kind = "revision" /\ calls[c].at = "listed" /\ calls[c] \in ListedRevisions
    BY <1>2, CallShapes DEF CommitRevision, TypeInv
  <2>2. PICK fresh \in SUBSET Free : todos' = Reconciled(calls[c], fresh)
    BY <1>2 DEF CommitRevision, Stored
  <2>3. t \notin fresh /\ fresh \in SUBSET Todos
    BY DEF Free
  <2>4. Outdated(todos[t]) # None
    BY <1>0, OutdatedRow, Sentinels
  <2> QED
    BY <1>0, <2>1, <2>2, <2>3, <2>4, ReconciledRows
<1>3. ASSUME NEW c \in Calls, CommitDate(c), ~ UNCHANGED todos
      PROVE  FALSE
  <2>1. calls[c] \in ListedDates
    BY <1>3, CallShapes DEF CommitDate, TypeInv
  <2>2. todos'[t] \in {todos[t], [todos[t] EXCEPT !.due = calls[c].new]}
    BY <1>0, <1>3 DEF CommitDate
  <2>3. todos'[t] \in TodoRows
    BY <1>0, <2>1, <2>2 DEF TodoRows, ListedDates
  <2> QED
    BY <2>3, Sentinels
<1>4. ASSUME NEW u \in Todos, NEW status \in {"PENDING", "DONE"}, NEW due \in Dates \union {None},
             CreateTodo(u, status, due) \/ PatchStatus(u, status) \/ PatchDue(u, due)
      PROVE  FALSE
  <2>1. CASE CreateTodo(u, status, due)
    BY <1>0, <2>1 DEF CreateTodo, Free, Rows, TypeInv
  <2>2. CASE PatchStatus(u, status) \/ PatchDue(u, due)
    <3>1. todos'[t] \in TodoRows
      BY <1>0, <2>2 DEF PatchStatus, PatchDue, TypeInv, TodoRows
    <3> QED
      BY <3>1, Sentinels
  <2> QED
    BY <1>4, <2>1, <2>2
<1>5. ASSUME NEW u \in Todos, DeleteTodo(u)
      PROVE  DeleteTodo(t)
  BY <1>0, <1>5 DEF DeleteTodo, TypeInv
<1> QED
  BY <1>1, <1>2, <1>3, <1>4, <1>5 DEF Next, vars, Stored, LoadLesson, AskAgents, FlushLesson,
     CommitWording, LoadDate, ListTodos, Interrupt

\* Work that is done disappears only when its user deletes it or when it was still pending as
\* a job listed it, however jobs, date changes and the user's calls interleave.
\* (tasks.py:841-845)
THEOREM DoneWorkAlwaysStays == Spec => DoneWorkStays
<1>1. TypeInv /\ [Next]_vars =>
        [\A t \in Rows :
            todos[t].status = "DONE" /\ todos'[t] = None =>
                \/ DeleteTodo(t)
                \/ \E c \in Calls : /\ calls[c].kind = "revision" /\ calls[c].at = "listed"
                                    /\ t \in calls[c].pending]_vars
  BY RowsDisappear
<1> QED
  BY <1>1, TypeInvAlways, PTL DEF Spec, DoneWorkStays
===================================================================================
