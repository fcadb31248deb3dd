---------------------------- MODULE LesplanLifecycle ----------------------------
(***************************************************************************)
(* The life of one lesson-plan request (a row of lesplan_request).  HTTP   *)
(* calls check its status, mark it busy, write a task record to Redis and  *)
(* enqueue an ARQ job; the worker's jobs run the LLM steps, persist what   *)
(* they produce and give the status back.  Nothing but the status column   *)
(* keeps two jobs apart: it is read without a lock, and written whatever   *)
(* it has become.                                                          *)
(*                                                                         *)
(* A call submits at most one job, so a call's name is its job's name.     *)
(* Texts are left out: an overview is how far it has been filled in        *)
(* (stage) and whose revisions it contains (edits); a lesson row is which  *)
(* job, run and item of the LLM's answer it came from.                     *)
(***************************************************************************)
EXTENDS Naturals, FiniteSets

CONSTANTS
    Calls,       \* the HTTP calls that submit work for the request
    NumLessons,  \* most lessons the LLM returns in one answer (bound)
    MaxRuns,     \* arq's max_tries: times a job is started before arq gives up
    MaxJobs,     \* WorkerSettings.max_jobs
    Faults       \* the faults that may happen in a run of the model

AllFaults == {"broker", "job_error", "handler", "timeout", "restart", "expiry", "delete"}

ASSUME ConstantsOK ==
    /\ NumLessons \in Nat \ {0}
    /\ MaxRuns \in Nat \ {0}
    /\ MaxJobs \in Nat \ {0}
    /\ Faults \subseteq AllFaults

VARIABLES
    status,     \* lesplan_request.status, "GONE" once the row is deleted
    stage,      \* how much of the stored overview has been generated
    edits,      \* the feedback calls whose revision the stored overview contains
    rows,       \* the lesson_plan rows
    pc,         \* where each HTTP call stands
    op,         \* what each HTTP call asked for
    task,       \* the record under task:<id> in Redis
    job,        \* where each ARQ job stands
    run,        \* how many times arq has started the job
    snapStage,  \* the overview a job read when it loaded its context: its stage
    snapEdits,  \*   and its revisions
    want,       \* lessons in the answer of the LLM
    made,       \* lessons of that answer stored so far
    held,       \* the LearningGoal rows a lessons job holds
    records,    \* batches of Feedback rows written for the call
    history     \* which of the known overlaps have happened (observer)

apiVars  == <<pc, op>>
snapVars == <<snapStage, snapEdits, want, made>>
vars == <<status, stage, edits, rows, pc, op, task, job, run,
          snapStage, snapEdits, want, made, held, records, history>>

-----------------------------------------------------------------------------
\* The four operations, and the statuses each needs, sets and leaves behind.

Ops == {"generate_overview", "apply_feedback", "generate_lessons", "apply_lesson_feedback"}

Statuses == {"PENDING", "GENERATING_OVERVIEW", "OVERVIEW_READY", "REVISING_OVERVIEW",
             "GENERATING_LESSONS", "COMPLETED", "REVISING_LESSON", "FAILED"}

\* Mutant: overview feedback still accepted after the lessons are there.
AcceptsLateFeedback ==
    [generate_overview     |-> "PENDING",
     apply_feedback        |-> "COMPLETED",
     generate_lessons      |-> "OVERVIEW_READY",
     apply_lesson_feedback |-> "COMPLETED"]

\* The status an endpoint insists on.
Accepts ==
    [generate_overview     |-> "PENDING",
     apply_feedback        |-> "OVERVIEW_READY",
     generate_lessons      |-> "OVERVIEW_READY",
     apply_lesson_feedback |-> "COMPLETED"]

\* The status it commits before it enqueues the job.
BusyOf ==
    [generate_overview     |-> "GENERATING_OVERVIEW",
     apply_feedback        |-> "REVISING_OVERVIEW",
     generate_lessons      |-> "GENERATING_LESSONS",
     apply_lesson_feedback |-> "REVISING_LESSON"]

\* Mutant: the handler of another task copied.
FailureOfCopied ==
    [generate_overview     |-> "OVERVIEW_READY",
     apply_feedback        |-> "OVERVIEW_READY",
     generate_lessons      |-> "FAILED",
     apply_lesson_feedback |-> "COMPLETED"]
\* The status a job's exception handler writes.
FailureOf ==
    [generate_overview     |-> "FAILED",
     apply_feedback        |-> "OVERVIEW_READY",
     generate_lessons      |-> "FAILED",
     apply_lesson_feedback |-> "COMPLETED"]

BusyStatuses == {"GENERATING_OVERVIEW", "REVISING_OVERVIEW",
                 "GENERATING_LESSONS", "REVISING_LESSON"}

Stages == {"none", "identity", "goals", "sequence", "final"}

PcStates == {"idle", "checked", "committed", "stated", "accepted", "refused", "failed"}

\* Where a job stands inside its try block, in the order of the code.
Working == {"load", "identity", "goals", "sequence", "notes",
            "revise", "generate", "prepare", "revise_lesson", "report"}
Handling == {"handling", "resetting"}
\* All that is left is to leave the coroutine and arq's record of the end of the job.
Finishing == {"finishing"}
Running == Working \union Handling \union Finishing
JobStates == {"none", "queued", "done", "dropped"} \union Running

TaskStates == {"absent", "queued", "running", "completed", "failed"}

Row == [call: Calls, run: 1..MaxRuns, item: 1..NumLessons,
        linked: BOOLEAN, basis: SUBSET Calls]

\* The step of its try block a job enters once its context is loaded.
FirstStep ==
    [generate_overview     |-> "identity",
     apply_feedback        |-> "revise",
     generate_lessons      |-> "generate",
     apply_lesson_feedback |-> "revise_lesson"]

-----------------------------------------------------------------------------
Init ==
    /\ status = "PENDING"
    /\ stage = "none" /\ edits = {} /\ rows = {}
    /\ pc = [c \in Calls |-> "idle"]
    /\ op = [c \in Calls |-> "none"]
    /\ task = [c \in Calls |-> "absent"]
    /\ job = [c \in Calls |-> "none"]
    /\ run = [c \in Calls |-> 0]
    /\ snapStage = [c \in Calls |-> "none"]
    /\ snapEdits = [c \in Calls |-> {}]
    /\ want = [c \in Calls |-> 0]
    /\ made = [c \in Calls |-> 0]
    /\ held = [c \in Calls |-> "none"]
    /\ records = [c \in Calls |-> 0]
    /\ history = {}

-----------------------------------------------------------------------------
\* The API side: one call.

dataVars == <<stage, edits, rows, held, records>>

\* The endpoint loads the request and refuses it with 404 or 409, or goes on.  The
\* session takes no lock on the row.
Request(c, o) ==
    LET admitted == /\ status = Accepts[o]
                    /\ o = "apply_lesson_feedback" => rows # {}
    IN  /\ pc[c] = "idle"
        /\ op' = [op EXCEPT ![c] = o]
        /\ pc' = [pc EXCEPT ![c] = IF admitted THEN "checked" ELSE "refused"]
        /\ UNCHANGED <<status, dataVars, task, job, run, snapVars, history>>

\* The endpoint's commit: UPDATE ... WHERE id, whatever the status has become since it
\* was read.  The update of a deleted row raises and the call ends in a 500.
Commit(c) ==
    /\ pc[c] = "checked"
    /\ IF status = "GONE"
         THEN /\ pc' = [pc EXCEPT ![c] = "refused"]
              /\ UNCHANGED <<status, history>>
         ELSE /\ pc' = [pc EXCEPT ![c] = "committed"]
              /\ status' = BusyOf[op[c]]
              /\ history' = history \union
                    (IF status = Accepts[op[c]] THEN {} ELSE {"overtaken"})
    /\ UNCHANGED <<op, dataVars, task, job, run, snapVars>>

\* _enqueue_task writes the Redis record first,
SetTaskState(c) ==
    /\ pc[c] = "committed"
    /\ pc' = [pc EXCEPT ![c] = "stated"]
    /\ task' = [task EXCEPT ![c] = "queued"]
    /\ UNCHANGED <<op, status, dataVars, job, run, snapVars, history>>

\* then hands the job to arq and answers the client.
Enqueue(c) ==
    /\ pc[c] = "stated"
    /\ pc' = [pc EXCEPT ![c] = "accepted"]
    /\ job' = [job EXCEPT ![c] = "queued"]
    /\ UNCHANGED <<op, status, dataVars, task, run, snapVars, history>>

\* Redis refuses the record or the job, or the API is restarted: the commit stands,
\* no job follows it.
EnqueueFails(c) ==
    /\ "broker" \in Faults
    /\ pc[c] \in {"committed", "stated"}
    /\ pc' = [pc EXCEPT ![c] = "failed"]
    /\ UNCHANGED <<op, status, dataVars, task, job, run, snapVars, history>>

-----------------------------------------------------------------------------
\* The worker side: one job.

\* update_task_progress rewrites the record, and returns silently when it has expired.
Progress(c, s) == task' = [task EXCEPT ![c] = IF @ = "absent" THEN @ ELSE s]

Goto(c, step) == job' = [job EXCEPT ![c] = step]

\* An exception leaves the try block for the task's except clause.
Throw(c) ==
    /\ Goto(c, "handling")
    /\ UNCHANGED <<status, dataVars, apiVars, task, run, snapVars, history>>

\* Mutant: a job is only ever started once.
StartOnce(c) ==
    /\ job[c] = "queued" /\ run[c] = 0
    /\ Cardinality({d \in Calls : job[d] \in Running}) < MaxJobs
    /\ run' = [run EXCEPT ![c] = @ + 1]
    /\ Goto(c, "load")
    /\ Progress(c, "running")
    /\ UNCHANGED <<status, dataVars, apiVars, snapVars, history>>

\* arq starts a queued job from its first line; the first Redis update shows it running.
Start(c) ==
    /\ job[c] = "queued"
    /\ Cardinality({d \in Calls : job[d] \in Running}) < MaxJobs
    /\ run' = [run EXCEPT ![c] = @ + 1]
    /\ Goto(c, "load")
    /\ Progress(c, "running")
    /\ UNCHANGED <<status, dataVars, apiVars, snapVars, history>>

\* Step 1 of every task: read the request and what it needs, and keep the overview in
\* memory while the session is closed.  A deleted request or a missing overview raises.
Load(c) ==
    /\ job[c] = "load"
    /\ IF \/ status = "GONE"
          \/ op[c] \in {"apply_feedback", "generate_lessons"} /\ stage = "none"
         THEN Throw(c)
         ELSE /\ Goto(c, FirstStep[op[c]])
              /\ snapStage' = [snapStage EXCEPT ![c] = stage]
              /\ snapEdits' = [snapEdits EXCEPT ![c] = edits]
              /\ UNCHANGED <<status, dataVars, apiVars, task, run, want, made, history>>

\* _persist_overview can go through: the request is there, and no lesson objective refers
\* to the LearningGoal rows it deletes (the mapper would blank a NOT NULL column).
Persistable == status # "GONE" /\ \A r \in rows : ~r.linked

\* _persist_overview: every column from the payload, and all LearningGoal rows replaced.
PersistOverview(s, e) ==
    /\ stage' = s
    /\ edits' = e
    /\ held' = [d \in Calls |-> IF held[d] = "current" THEN "stale" ELSE held[d]]

\* A partial persist of the overview pipeline: the payload gathered so far, in a
\* transaction of its own.
PersistPart(c, s, next) ==
    IF Persistable
      THEN /\ Goto(c, next)
           /\ PersistOverview(s, {})
           /\ UNCHANGED <<status, rows, apiVars, task, run, snapVars, records, history>>
      ELSE Throw(c)

\* Mutant: the plan is announced with its first part.
PersistIdentityEarly(c) ==
    /\ job[c] = "identity"
    /\ IF Persistable
         THEN /\ Goto(c, "goals")
              /\ PersistOverview("identity", {})
              /\ status' = "OVERVIEW_READY"
              /\ UNCHANGED <<rows, apiVars, task, run, snapVars, records, history>>
         ELSE Throw(c)

PersistIdentity(c) == job[c] = "identity" /\ PersistPart(c, "identity", "goals")
PersistGoals(c)    == job[c] = "goals"    /\ PersistPart(c, "goals", "sequence")
PersistSequence(c) == job[c] = "sequence" /\ PersistPart(c, "sequence", "notes")

\* Teacher notes, composition and validation, then the whole overview and the status in
\* one transaction.
PublishOverview(c) ==
    /\ job[c] = "notes"
    /\ IF Persistable
         THEN /\ Goto(c, "report")
              /\ PersistOverview("final", {})
              /\ status' = "OVERVIEW_READY"
              /\ UNCHANGED <<rows, apiVars, task, run, snapVars, records, history>>
         ELSE Throw(c)

\* Mutant: the revision replaces what earlier revisions changed.
PublishRevisionForgets(c) ==
    /\ job[c] = "revise"
    /\ IF Persistable
         THEN /\ Goto(c, "report")
              /\ PersistOverview(snapStage[c], {c})
              /\ records' = [records EXCEPT ![c] = @ + 1]
              /\ status' = "OVERVIEW_READY"
              /\ UNCHANGED <<rows, apiVars, task, run, snapVars, history>>
         ELSE Throw(c)

\* The feedback agent's fields are laid over the payload read in Load, and the whole
\* payload is persisted with the Feedback rows and the status.
PublishRevision(c) ==
    /\ job[c] = "revise"
    /\ IF Persistable
         THEN /\ Goto(c, "report")
              /\ PersistOverview(snapStage[c], snapEdits[c] \union {c})
              /\ records' = [records EXCEPT ![c] = @ + 1]
              /\ status' = "OVERVIEW_READY"
              /\ UNCHANGED <<rows, apiVars, task, run, snapVars, history>>
         ELSE Throw(c)

\* generate_lessons validates the overview it was given (an outline still made of
\* placeholders is refused) and asks the LLM; the length of the answer is not checked.
\* Then the task reads the LearningGoal rows it will link to.
LoadGoals(c) ==
    /\ job[c] = "generate"
    /\ \/ /\ snapStage[c] \in {"sequence", "final"}
          /\ \E n \in 0..NumLessons : want' = [want EXCEPT ![c] = n]
          /\ made' = [made EXCEPT ![c] = 0]
          /\ held' = [held EXCEPT ![c] = IF status = "GONE" THEN "none" ELSE "current"]
          /\ Goto(c, "prepare")
          /\ UNCHANGED <<status, stage, edits, rows, apiVars, task, run,
                         snapStage, snapEdits, records, history>>
       \/ /\ snapStage[c] # "final"
          /\ Throw(c)

\* Mutant: the bound of the loop dropped.
StoreLessonUnbounded(c) ==
    /\ job[c] = "prepare"
    /\ \E linked \in BOOLEAN :
         /\ rows' = rows \union {[call |-> c, run |-> run[c], item |-> made[c] + 1,
                                  linked |-> linked, basis |-> snapEdits[c]]}
         /\ made' = [made EXCEPT ![c] = @ + 1]
         /\ UNCHANGED <<status, stage, edits, apiVars, task, job, run, snapStage,
                        snapEdits, want, held, records, history>>

\* One turn of the loop: the lesson, its objectives and their links to the goals read
\* before, committed on their own.  A deleted overview, or a link to a replaced goal,
\* violates a foreign key.
StoreLesson(c) ==
    /\ job[c] = "prepare"
    /\ made[c] < want[c]
    /\ \E linked \in BOOLEAN :
         /\ linked => held[c] # "none"
         /\ IF status = "GONE" \/ (linked /\ held[c] = "stale")
              THEN Throw(c)
              ELSE /\ rows' = rows \union {[call |-> c, run |-> run[c], item |-> made[c] + 1,
                                            linked |-> linked, basis |-> snapEdits[c]]}
                   /\ made' = [made EXCEPT ![c] = @ + 1]
                   /\ UNCHANGED <<status, stage, edits, apiVars, task, job, run, snapStage,
                                  snapEdits, want, held, records, history>>

\* Mutant: the loop ends one lesson early.
CompleteLessonsEarly(c) ==
    /\ job[c] = "prepare"
    /\ made[c] + 1 >= want[c]
    /\ Goto(c, "report")
    /\ status' = IF status = "GONE" THEN status ELSE "COMPLETED"
    /\ UNCHANGED <<dataVars, apiVars, task, run, snapVars, history>>

\* After the loop the request is marked complete, if it still exists.
CompleteLessons(c) ==
    /\ job[c] = "prepare"
    /\ made[c] = want[c]
    /\ Goto(c, "report")
    /\ status' = IF status = "GONE" THEN status ELSE "COMPLETED"
    /\ UNCHANGED <<dataVars, apiVars, task, run, snapVars, history>>

\* The lesson's fields, its todos, the Feedback rows and the status in one transaction.
\* Deleting an objective that is linked to a goal raises, as does a deleted lesson.
PublishLesson(c) ==
    /\ job[c] = "revise_lesson"
    /\ \/ /\ status # "GONE"
          /\ Goto(c, "report")
          /\ status' = "COMPLETED"
          /\ records' = [records EXCEPT ![c] = @ + 1]
          /\ UNCHANGED <<stage, edits, rows, held, apiVars, task, run, snapVars, history>>
       \/ /\ status = "GONE" \/ \E r \in rows : r.linked
          /\ Throw(c)

\* Mutant: the client is told before the revision is stored.
ReportEarly(c) ==
    /\ job[c] \in {"report", "revise"}
    /\ Goto(c, "finishing")
    /\ Progress(c, "completed")
    /\ UNCHANGED <<status, dataVars, apiVars, run, snapVars, history>>

\* The last line of the try block shows the task completed.
Report(c) ==
    /\ job[c] = "report"
    /\ Goto(c, "finishing")
    /\ Progress(c, "completed")
    /\ UNCHANGED <<status, dataVars, apiVars, run, snapVars, history>>

\* Any step inside the try block may raise: the LLM, its validation, the database or
\* Redis.  An error of the final Redis update comes after the result is committed.
Raise(c) ==
    /\ "job_error" \in Faults
    /\ job[c] \in Working
    /\ Goto(c, "handling")
    /\ history' = history \union (IF job[c] = "report" THEN {"late_failure"} ELSE {})
    /\ UNCHANGED <<status, dataVars, apiVars, task, run, snapVars>>

\* The except clause: first the Redis record,
HandleReport(c) ==
    /\ job[c] = "handling"
    /\ Goto(c, "resetting")
    /\ Progress(c, "failed")
    /\ UNCHANGED <<status, dataVars, apiVars, run, snapVars, history>>

\* Mutant: the handler tells the client and leaves the row alone.
HandleResetForgets(c) ==
    /\ job[c] = "resetting"
    /\ Goto(c, "finishing")
    /\ UNCHANGED <<status, dataVars, apiVars, task, run, snapVars, history>>

\* then the status, whatever it is by now.
HandleReset(c) ==
    /\ job[c] = "resetting"
    /\ Goto(c, "finishing")
    /\ status' = IF status = "GONE" THEN status ELSE FailureOf[op[c]]
    /\ UNCHANGED <<dataVars, apiVars, task, run, snapVars, history>>

\* The session is closed, the coroutine returns, and arq takes the job out of its queue.
Finish(c) ==
    /\ job[c] = "finishing"
    /\ Goto(c, "done")
    /\ UNCHANGED <<status, dataVars, apiVars, task, run, snapVars, history>>

\* Redis is down in the except clause, outside any try, or the database refuses the
\* reset, which is logged: the job ends and the status stays.
HandlerFails(c) ==
    /\ "handler" \in Faults
    /\ job[c] \in Handling
    /\ Goto(c, "dropped")
    /\ UNCHANGED <<status, dataVars, apiVars, task, run, snapVars, history>>

-----------------------------------------------------------------------------
\* What arq, the operator and the rest of the API do to jobs and data.

\* job_timeout or an abort cancels the coroutine: CancelledError is no Exception, so the
\* handler is skipped, and arq does not try again.  A job with nothing left to do has only
\* its end before it.
Cancel(c) ==
    /\ "timeout" \in Faults
    /\ job[c] \in Running \ Finishing
    /\ Goto(c, "dropped")
    /\ UNCHANGED <<status, dataVars, apiVars, task, run, snapVars, history>>

\* The worker is restarted: every job whose end arq has not recorded is started again from
\* its first line, unless it has used up its tries.  That includes the jobs that had given
\* the status back, with a result or from their handler.
RestartWorker ==
    /\ "restart" \in Faults
    /\ \E c \in Calls : job[c] \in Running
    /\ job' = [c \in Calls |->
                 IF job[c] \notin Running THEN job[c]
                 ELSE IF run[c] < MaxRuns THEN "queued"
                 ELSE IF job[c] \in Finishing THEN "done" ELSE "dropped"]
    /\ history' = history \union
          (IF \E c \in Calls : job[c] \in {"report"} \union Finishing /\ run[c] < MaxRuns
             THEN {"replayed"} ELSE {})
    /\ UNCHANGED <<status, dataVars, apiVars, task, run, snapVars>>

\* The Redis record outlives redis_task_ttl_seconds without an update.
ExpireTask(c) ==
    /\ "expiry" \in Faults
    /\ task[c] # "absent"
    /\ task' = [task EXCEPT ![c] = "absent"]
    /\ UNCHANGED <<status, dataVars, apiVars, job, run, snapVars, history>>

\* delete_class removes the class, and the cascade takes the request, its overview, its
\* goals and its lessons.
DeleteClass ==
    /\ "delete" \in Faults
    /\ status # "GONE"
    /\ status' = "GONE"
    /\ stage' = "none" /\ edits' = {} /\ rows' = {}
    /\ held' = [d \in Calls |-> IF held[d] = "current" THEN "stale" ELSE held[d]]
    /\ UNCHANGED <<apiVars, task, job, run, snapVars, records, history>>

\* Every call has been answered and every job has ended: the only place to stop.
Quiescent ==
    /\ \A c \in Calls : /\ pc[c] \in {"accepted", "refused", "failed"}
                        /\ job[c] \in {"none", "done", "dropped"}
    /\ UNCHANGED vars

ApiStep(c) == Commit(c) \/ SetTaskState(c) \/ Enqueue(c)

WorkerStep(c) ==
    \/ Start(c) \/ Load(c)
    \/ PersistIdentity(c) \/ PersistGoals(c) \/ PersistSequence(c) \/ PublishOverview(c)
    \/ PublishRevision(c)
    \/ LoadGoals(c) \/ StoreLesson(c) \/ CompleteLessons(c)
    \/ PublishLesson(c)
    \/ Report(c) \/ HandleReport(c) \/ HandleReset(c) \/ Finish(c)

FaultStep(c) == EnqueueFails(c) \/ Raise(c) \/ HandlerFails(c) \/ Cancel(c) \/ ExpireTask(c)

Next ==
    \/ \E c \in Calls : \/ \E o \in Ops : Request(c, o)
                        \/ ApiStep(c)
                        \/ WorkerStep(c)
                        \/ FaultStep(c)
    \/ RestartWorker
    \/ DeleteClass
    \/ Quiescent

Spec == Init /\ [][Next]_vars

\* Handlers run to their end unless a fault takes them, and arq keeps polling its queue.
Fairness == \A c \in Calls : WF_vars(ApiStep(c)) /\ WF_vars(WorkerStep(c))

FairSpec == Spec /\ Fairness

-----------------------------------------------------------------------------
\* Properties.

\* Every variable holds a value of its kind, and no job outruns its bounds.
TypeOK ==
    /\ status \in Statuses \union {"GONE"}
    /\ stage \in Stages
    /\ edits \subseteq Calls
    /\ rows \subseteq Row
    /\ pc \in [Calls -> PcStates]
    /\ op \in [Calls -> Ops \union {"none"}]
    /\ task \in [Calls -> TaskStates]
    /\ job \in [Calls -> JobStates]
    /\ run \in [Calls -> 0..MaxRuns]
    /\ snapStage \in [Calls -> Stages]
    /\ snapEdits \in [Calls -> SUBSET Calls]
    /\ want \in [Calls -> 0..NumLessons]
    /\ made \in [Calls -> 0..NumLessons]
    /\ held \in [Calls -> {"none", "current", "stale"}]
    /\ records \in [Calls -> 0..MaxRuns]
    /\ history \subseteq {"overtaken", "replayed", "late_failure"}

\* The call has committed its busy status and its job has not given a status back yet.
Outstanding(c) ==
    \/ pc[c] \in {"committed", "stated"}
    \/ job[c] \in {"queued"} \union (Running \ (Finishing \union {"report"}))

\* The call or its job was lost on the way: no code will ever give a status back for it.
Casualty(c) == pc[c] = "failed" \/ job[c] = "dropped"

\* A request is never stuck in a busy status by the code itself: as long as it is busy,
\* some call of that very operation is still on its way to give the status back, or was
\* lost to a crash, a timeout or a failing handler.  Holds in every interleaving, also
\* when two calls overtook each other.  (route.py:189-192, tasks.py:264-299)
BusyHasOwner ==
    status \in BusyStatuses =>
        \E c \in Calls : /\ op[c] \in Ops
                         /\ status = BusyOf[op[c]]
                         /\ Outstanding(c) \/ Casualty(c)

\* Unless one of the three overlaps has happened, the status column is a lock: at most one
\* call is outstanding, and as long as it is, the request shows that call's busy status (or
\* is deleted).  (route.py:184-190, 217-223, 256-262; preparation_todo_routes.py:201-207)
SoleOwner ==
    history = {} =>
        \A c \in Calls :
            Outstanding(c) =>
                /\ status \in {BusyOf[op[c]], "GONE"}
                /\ \A d \in Calls : Outstanding(d) => d = c

\* Unless they overlap, a plan that is shown as ready, or has gone past that, has a
\* complete overview: no partial persist of the pipeline is left in it.
\* (tasks.py:140-142, 166-168, 206-208, 264-269)
OverviewComplete ==
    history = {} /\ status \in {"OVERVIEW_READY", "REVISING_OVERVIEW", "GENERATING_LESSONS",
                                "COMPLETED", "REVISING_LESSON"}
        => stage = "final"

\* Unless they overlap, a revision that was recorded is in the stored overview for good,
\* and it is recorded once, however often arq started the job.  (tasks.py:350, 394-419)
RevisionsKept ==
    history = {} =>
        \A c \in Calls :
            /\ records[c] <= 1
            /\ records[c] = 1 /\ op[c] = "apply_feedback" /\ status # "GONE" => c \in edits

\* Unless they overlap, the stored lessons were made from the overview that is stored
\* beside them, with all its revisions and no others.  (tasks.py:484-488, 575-617)
LessonsMatchOverview == history = {} => \A r \in rows : r.basis = edits

\* Unless they overlap, a completed plan holds every lesson of one answer of the LLM.
\* (tasks.py:540-632)
CompletedHasAllLessons ==
    history = {} /\ status \in {"COMPLETED", "REVISING_LESSON"} =>
        \E c \in Calls : /\ op[c] = "generate_lessons"
                         /\ {r.item : r \in {q \in rows : q.call = c /\ q.run = run[c]}}
                              = 1..want[c]

\* Unless they overlap, a client that polls /tasks and reads "completed" finds the result
\* in the database.  (tasks.py:264-279, 396-429, 617-642, 801-888)
CompletedTaskIsStored ==
    \A c \in Calls :
        history = {} /\ task[c] = "completed" /\ status # "GONE" =>
            /\ status # BusyOf[op[c]] \/ \E d \in Calls \ {c} : op[d] = op[c]
            /\ op[c] = "generate_overview" => stage = "final"
            /\ op[c] = "apply_feedback" => c \in edits
            /\ op[c] = "generate_lessons" => Cardinality({r \in rows : r.call = c}) >= want[c]
            /\ op[c] = "apply_lesson_feedback" => records[c] = 1

\* The request as its clients see it: its status, the calls whose operation is under way,
\* and whether an overlap has happened.
Lock == INSTANCE StatusLock WITH
            phase <- status,
            holders <- {c \in Calls : Outstanding(c)},
            raced <- history # {}

\* Endpoints, jobs, handlers, retries and losses together do what StatusLock promises:
\* unless they overlap, the status is taken only from the one status that admits the
\* operation, by one call at a time, and is given back only by that call, in a status from
\* which the user can go on: in particular nothing leaves FAILED and nothing returns to
\* PENDING.  (enums.py:82-90, route.py:184-190, tasks.py:264-299, 432-449, 891-908)
ImplementsStatusLock == Lock!Spec

\* A busy request does not stay busy unless a call or a job was lost.
BusyEnds == status \in BusyStatuses ~> (status \notin BusyStatuses \/ \E c \in Calls : Casualty(c))

\* The work of an operation is only claimed for a request in the status the operation needs
\* ("Overview can only be generated from PENDING status", route.py:186).  The status is read
\* without a lock, so a second call may commit in between.
ClaimsFromRequiredStatus ==
    [][\A c \in Calls : pc[c] = "checked" /\ pc'[c] = "committed" => status = Accepts[op[c]]]_vars
==================================================================================
