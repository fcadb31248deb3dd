------------------------- MODULE LesplanLifecycle_proofs -------------------------
(***************************************************************************)
(* Proofs about LesplanLifecycle, for every set of calls, every set of     *)
(* faults and every bound.                                                 *)
(***************************************************************************)
EXTENDS LesplanLifecycle, FiniteSetTheorems, TLAPS

\* The operation each step of a job belongs to.
StepOf(c) ==
    /\ job[c] \in {"identity", "goals", "sequence", "notes"} => op[c] = "generate_overview"
    /\ job[c] = "revise" => op[c] = "apply_feedback"
    /\ job[c] \in {"generate", "prepare"} => op[c] = "generate_lessons"
    /\ job[c] = "revise_lesson" => op[c] = "apply_lesson_feedback"

\* How a call, its job and its counters go together.
CallOK(c) ==
    /\ pc[c] = "idle" <=> op[c] = "none"
    /\ pc[c] # "accepted" => job[c] = "none" /\ run[c] = 0 /\ records[c] = 0
    /\ job[c] = "queued" => run[c] < MaxRuns
    /\ job[c] \in Running => run[c] >= 1
    /\ records[c] <= run[c]
    /\ job[c] \in {"load", "revise", "revise_lesson"} => records[c] < run[c]
    /\ StepOf(c)

WellFormed == \A c \in Calls : CallOK(c)

\* The inductive invariant behind type correctness.
TypeInv == TypeOK /\ WellFormed

LEMMA TypeInvInit == Init => TypeInv
  BY ConstantsOK DEF Init, TypeInv, TypeOK, WellFormed, CallOK, StepOf, Statuses, Stages,
     PcStates, JobStates, Running, Working, Handling, Finishing, TaskStates

USE DEF Statuses, Stages, PcStates, JobStates, Running, Working, Handling, Finishing, TaskStates, Ops

\* The statuses an operation may leave behind.
Results == [generate_overview     |-> {"OVERVIEW_READY", "FAILED"},
            apply_feedback        |-> {"OVERVIEW_READY"},
            generate_lessons      |-> {"COMPLETED", "FAILED"},
            apply_lesson_feedback |-> {"COMPLETED"}]

\* What the tables of statuses and steps contain, whatever their entries.
LEMMA TableTypes ==
  ASSUME NEW o \in Ops
  PROVE  /\ Accepts[o] \in Statuses \ BusyStatuses
         /\ BusyOf[o] \in BusyStatuses
         /\ FailureOf[o] \in Statuses \ BusyStatuses
         /\ FirstStep[o] \in {"identity", "revise", "generate", "revise_lesson"}
         /\ FailureOf[o] \in Results[o] /\ Results[o] \subseteq Statuses \ BusyStatuses
<1>1. CASE o = "generate_overview"
  BY <1>1 DEF Accepts, BusyOf, FailureOf, FirstStep, Results, BusyStatuses
<1>2. CASE o = "apply_feedback"
  BY <1>2 DEF Accepts, BusyOf, FailureOf, FirstStep, Results, BusyStatuses
<1>3. CASE o = "generate_lessons"
  BY <1>3 DEF Accepts, BusyOf, FailureOf, FirstStep, Results, BusyStatuses
<1>4. CASE o = "apply_lesson_feedback"
  BY <1>4 DEF Accepts, BusyOf, FailureOf, FirstStep, Results, BusyStatuses
<1> QED BY <1>1, <1>2, <1>3, <1>4

LEMMA TypeInvApi ==
  ASSUME TypeInv, NEW c \in Calls,
         (\E o \in Ops : Request(c, o)) \/ ApiStep(c) \/ EnqueueFails(c)
  PROVE  TypeInv'
<1> USE ConstantsOK DEF TypeInv, TypeOK, WellFormed, CallOK, StepOf, dataVars, snapVars, apiVars
<1>1. ASSUME NEW o \in Ops, Request(c, o) PROVE TypeInv'
  BY <1>1 DEF Request
<1>2. CASE Commit(c)
  <2>1. op[c] \in Ops
    BY <1>2 DEF Commit
  <2>2. BusyOf[op[c]] \in Statuses
    BY <2>1, TableTypes DEF BusyStatuses
  <2>3. CASE status = "GONE"
    <3>1. /\ pc[c] = "checked" /\ pc' = [pc EXCEPT ![c] = "refused"]
          /\ UNCHANGED <<status, history, op, dataVars, task, job, run, snapVars>>
      BY <1>2, <2>3 DEF Commit
    <3> QED BY <2>1, <3>1
  <2>4. CASE status # "GONE"
    <3> DEFINE B == BusyOf[op[c]]
               H == IF status = Accepts[op[c]] THEN {} ELSE {"overtaken"}
    <3>1. B \in Statuses /\ H \subseteq {"overtaken"}
      BY <2>2
    <3>2. /\ status' = B /\ history' = history \union H
          /\ pc[c] = "checked" /\ pc' = [pc EXCEPT ![c] = "committed"]
          /\ UNCHANGED <<op, dataVars, task, job, run, snapVars>>
      BY <1>2, <2>4 DEF Commit
    <3> HIDE DEF B, H
    <3>3. TypeOK'
      BY <3>1, <3>2
    <3>4. WellFormed'
      BY <3>2
    <3> QED BY <3>3, <3>4
  <2> QED BY <2>3, <2>4
<1>3. CASE SetTaskState(c)
  BY <1>3 DEF SetTaskState
<1>4. CASE Enqueue(c)
  BY <1>4 DEF Enqueue
<1>5. CASE EnqueueFails(c)
  BY <1>5 DEF EnqueueFails
<1> QED BY <1>1, <1>2, <1>3, <1>4, <1>5 DEF ApiStep

LEMMA TypeInvFault ==
  ASSUME TypeInv, NEW c \in Calls, FaultStep(c)
  PROVE  TypeInv'
<1> USE ConstantsOK DEF TypeInv, TypeOK, WellFormed, CallOK, StepOf, dataVars, snapVars, apiVars
<1>1. CASE EnqueueFails(c)
  BY <1>1 DEF EnqueueFails
<1>2. CASE Raise(c)
  BY <1>2 DEF Raise, Goto
<1>3. CASE HandlerFails(c)
  BY <1>3 DEF HandlerFails, Goto
<1>4. CASE Cancel(c)
  BY <1>4 DEF Cancel, Goto
<1>5. CASE ExpireTask(c)
  BY <1>5 DEF ExpireTask
<1> QED BY <1>1, <1>2, <1>3, <1>4, <1>5 DEF FaultStep

LEMMA TypeInvEnvironment ==
  ASSUME TypeInv, RestartWorker \/ DeleteClass \/ Quiescent
  PROVE  TypeInv'
<1> USE ConstantsOK DEF TypeInv, TypeOK, WellFormed, CallOK, StepOf, dataVars, snapVars, apiVars
<1>1. CASE RestartWorker
  BY <1>1 DEF RestartWorker
<1>2. CASE DeleteClass
  BY <1>2 DEF DeleteClass
<1>3. CASE Quiescent
  BY <1>3 DEF Quiescent, vars
<1> QED BY <1>1, <1>2, <1>3

\* A step of a running job to another place of its task keeps calls, jobs and counters
\* together, if it stays within its own operation and counts a revision at most once.
LEMMA JobStep ==
  ASSUME TypeInv, NEW c \in Calls,
         job[c] \in Running,
         NEW s \in JobStates \ {"none", "queued", "load"},
         job' = [job EXCEPT ![c] = s],
         UNCHANGED <<pc, op, run>>,
         records' \in [Calls -> Nat],
         \A d \in Calls \ {c} : records'[d] = records[d],
         records'[c] <= run[c],
         s \in {"revise", "revise_lesson"} => records'[c] < run[c],
         StepOf(c)'
  PROVE  WellFormed'
BY DEF TypeInv, TypeOK, WellFormed, CallOK, StepOf

LEMMA JobStepSame ==
  ASSUME TypeInv, NEW c \in Calls,
         job[c] \in Running,
         NEW s \in JobStates \ {"none", "queued", "load", "revise", "revise_lesson"},
         job' = [job EXCEPT ![c] = s],
         UNCHANGED <<pc, op, run, records>>,
         StepOf(c)'
  PROVE  WellFormed'
BY DEF TypeInv, TypeOK, WellFormed, CallOK, StepOf

LEMMA TypeInvThrow ==
  ASSUME TypeInv, NEW c \in Calls, Throw(c), job[c] \in Working
  PROVE  TypeInv'
BY ConstantsOK DEF TypeInv, TypeOK, WellFormed, CallOK, StepOf, dataVars, snapVars, apiVars,
   Goto, Throw

LEMMA TypeInvPersistOverview ==
  ASSUME TypeInv, NEW s \in Stages, NEW e \in SUBSET Calls, PersistOverview(s, e)
  PROVE  /\ stage' \in Stages
         /\ edits' \subseteq Calls
         /\ held' \in [Calls -> {"none", "current", "stale"}]
BY DEF TypeInv, TypeOK, PersistOverview

LEMMA TypeInvWorker ==
  ASSUME TypeInv, NEW c \in Calls, WorkerStep(c)
  PROVE  TypeInv'
<1> USE ConstantsOK DEF dataVars, snapVars, apiVars, Goto
<1>0. /\ TypeOK
      /\ \A d \in Calls : CallOK(d)
  BY DEF TypeInv, WellFormed
<1>1. CASE Start(c)
  BY <1>1 DEF Start, TypeInv, TypeOK, WellFormed, CallOK, StepOf, Progress
<1>3. CASE Load(c)
  <2>1. CASE Throw(c)
    BY <1>3, <2>1, TypeInvThrow DEF Load
  <2>2. CASE ~Throw(c)
    <3>1. op[c] \in Ops
      BY <1>0, <1>3 DEF Load, CallOK, TypeOK
    <3>2. PICK f \in {"identity", "revise", "generate", "revise_lesson"} : f = FirstStep[op[c]]
      BY <3>1, TableTypes
    <3>3. /\ job[c] = "load" /\ job' = [job EXCEPT ![c] = f]
          /\ snapStage' = [snapStage EXCEPT ![c] = stage]
          /\ snapEdits' = [snapEdits EXCEPT ![c] = edits]
          /\ UNCHANGED <<status, dataVars, apiVars, task, run, want, made, history>>
      BY <1>3, <2>2, <3>2 DEF Load
    <3>4. TypeOK'
      BY <1>0, <3>3 DEF TypeOK
    <3>5. StepOf(c)'
      BY <1>0, <3>1, <3>2, <3>3 DEF StepOf, FirstStep, TypeOK
    <3>6. WellFormed'
      <4>1. records' = records /\ records \in [Calls -> Nat] /\ records[c] < run[c]
        BY <1>0, <3>3 DEF TypeOK, CallOK
      <4>2. records[c] <= run[c]
        BY <1>0 DEF CallOK
      <4> QED BY <3>3, <3>5, <4>1, <4>2, JobStep
    <3> QED BY <3>4, <3>6 DEF TypeInv
  <2> QED BY <2>1, <2>2
<1>4. ASSUME NEW s \in Stages, NEW next \in {"goals", "sequence", "notes"},
             job[c] \in {"identity", "goals", "sequence"}, PersistPart(c, s, next)
      PROVE  TypeInv'
  <2>1. CASE Throw(c)
    BY <1>4, <2>1, TypeInvThrow
  <2>2. CASE ~Throw(c)
    <3>1. /\ job' = [job EXCEPT ![c] = next]
          /\ PersistOverview(s, {})
          /\ UNCHANGED <<status, rows, apiVars, task, run, snapVars, records, history>>
      BY <1>4, <2>2 DEF PersistPart
    <3>2. TypeOK'
      BY <1>0, <3>1, TypeInvPersistOverview DEF TypeOK
    <3>3. StepOf(c)'
      BY <1>0, <1>4, <3>1 DEF StepOf, TypeOK, CallOK
    <3> QED BY <1>4, <3>1, <3>2, <3>3, JobStepSame DEF TypeInv
  <2> QED BY <2>1, <2>2
<1>5. CASE PersistIdentity(c)
  BY <1>4, <1>5 DEF PersistIdentity
<1>6. CASE PersistGoals(c) \/ PersistSequence(c)
  BY <1>4, <1>6 DEF PersistGoals, PersistSequence
<1>7. CASE PublishOverview(c)
  <2>1. CASE Throw(c)
    BY <1>7, <2>1, TypeInvThrow DEF PublishOverview
  <2>2. CASE ~Throw(c)
    <3>1. /\ job[c] = "notes" /\ job' = [job EXCEPT ![c] = "report"]
          /\ PersistOverview("final", {})
          /\ status' = "OVERVIEW_READY"
          /\ UNCHANGED <<rows, apiVars, task, run, snapVars, records, history>>
      BY <1>7, <2>2 DEF PublishOverview
    <3>2. TypeOK'
      BY <1>0, <3>1, TypeInvPersistOverview DEF TypeOK
    <3>3. StepOf(c)'
      BY <1>0, <3>1 DEF StepOf, TypeOK
    <3> QED BY <3>1, <3>2, <3>3, JobStepSame DEF TypeInv
  <2> QED BY <2>1, <2>2
<1>8. CASE PublishRevision(c)
  <2>1. CASE Throw(c)
    BY <1>8, <2>1, TypeInvThrow DEF PublishRevision
  <2>2. CASE ~Throw(c)
    <3>1. /\ job[c] = "revise" /\ job' = [job EXCEPT ![c] = "report"]
          /\ PersistOverview(snapStage[c], snapEdits[c] \union {c})
          /\ records' = [records EXCEPT ![c] = records[c] + 1]
          /\ status' = "OVERVIEW_READY"
          /\ UNCHANGED <<rows, apiVars, task, run, snapVars, history>>
      BY <1>8, <2>2 DEF PublishRevision
    <3>2. records[c] \in Nat /\ records[c] < run[c] /\ run[c] \in 0..MaxRuns
      BY <1>0, <3>1 DEF TypeOK, CallOK
    <3>3. snapStage[c] \in Stages /\ snapEdits[c] \union {c} \in SUBSET Calls
      BY <1>0 DEF TypeOK
    <3>4. records' \in [Calls -> 0..MaxRuns]
      BY <1>0, <3>1, <3>2 DEF TypeOK
    <3>5. TypeOK'
      BY <1>0, <3>1, <3>3, <3>4, TypeInvPersistOverview DEF TypeOK
    <3>6. StepOf(c)'
      BY <1>0, <3>1 DEF StepOf, TypeOK
    <3>7. records' \in [Calls -> Nat] /\ records'[c] <= run[c]
      BY <1>0, <3>1, <3>2, <3>4 DEF TypeOK
    <3>8. WellFormed'
      BY <3>1, <3>6, <3>7, JobStep
    <3> QED BY <3>5, <3>8 DEF TypeInv
  <2> QED BY <2>1, <2>2
<1>9. CASE LoadGoals(c)
  <2>1. CASE Throw(c)
    BY <1>9, <2>1, TypeInvThrow DEF LoadGoals
  <2>2. CASE ~Throw(c)
    <3>1. PICK n \in 0..NumLessons : want' = [want EXCEPT ![c] = n]
      BY <1>9, <2>2 DEF LoadGoals
    <3>2. /\ job[c] = "generate" /\ job' = [job EXCEPT ![c] = "prepare"]
          /\ made' = [made EXCEPT ![c] = 0]
          /\ held' \in [Calls -> {"none", "current", "stale"}]
          /\ UNCHANGED <<status, stage, edits, rows, apiVars, task, run,
                         snapStage, snapEdits, records, history>>
      BY <1>0, <1>9, <2>2 DEF LoadGoals, TypeOK
    <3>3. TypeOK'
      BY <1>0, <3>1, <3>2 DEF TypeOK
    <3>4. StepOf(c)'
      BY <1>0, <3>2 DEF StepOf, TypeOK, CallOK
    <3> QED BY <3>2, <3>3, <3>4, JobStepSame DEF TypeInv
  <2> QED BY <2>1, <2>2
<1>10. CASE StoreLesson(c)
  <2>1. CASE Throw(c)
    BY <1>10, <2>1, TypeInvThrow DEF StoreLesson
  <2>2. CASE ~Throw(c)
    <3>1. /\ job[c] = "prepare" /\ made[c] < want[c]
          /\ made' = [made EXCEPT ![c] = made[c] + 1]
          /\ UNCHANGED <<status, stage, edits, apiVars, task, job, run, snapStage,
                         snapEdits, want, held, records, history>>
      BY <1>10, <2>2 DEF StoreLesson
    <3>2. PICK linked \in BOOLEAN :
            rows' = rows \union {[call |-> c, run |-> run[c], item |-> made[c] + 1,
                                  linked |-> linked, basis |-> snapEdits[c]]}
      BY <1>10, <2>2 DEF StoreLesson
    <3>3. made[c] + 1 \in 1..NumLessons /\ run[c] \in 1..MaxRuns /\ snapEdits[c] \in SUBSET Calls
      BY <1>0, <3>1 DEF TypeOK, CallOK
    <3>4. rows' \subseteq Row
      BY <1>0, <3>2, <3>3 DEF TypeOK, Row
    <3>5. made' \in [Calls -> 0..NumLessons]
      BY <1>0, <3>1, <3>3 DEF TypeOK
    <3>6. TypeOK'
      BY <1>0, <3>1, <3>4, <3>5 DEF TypeOK
    <3>7. WellFormed'
      BY <1>0, <3>1 DEF WellFormed, CallOK, StepOf
    <3> QED BY <3>6, <3>7 DEF TypeInv
  <2> QED BY <2>1, <2>2
<1>11. CASE CompleteLessons(c)
  BY <1>11 DEF CompleteLessons, TypeInv, TypeOK, WellFormed, CallOK, StepOf
<1>12. CASE PublishLesson(c)
  <2>1. CASE Throw(c)
    BY <1>12, <2>1, TypeInvThrow DEF PublishLesson
  <2>2. CASE ~Throw(c)
    <3>1. /\ job[c] = "revise_lesson" /\ job' = [job EXCEPT ![c] = "report"]
          /\ records' = [records EXCEPT ![c] = records[c] + 1]
          /\ status' = "COMPLETED"
          /\ UNCHANGED <<stage, edits, rows, held, apiVars, task, run, snapVars, history>>
      BY <1>12, <2>2 DEF PublishLesson
    <3>2. records[c] \in Nat /\ records[c] < run[c] /\ run[c] \in 0..MaxRuns
      BY <1>0, <3>1 DEF TypeOK, CallOK
    <3>4. records' \in [Calls -> 0..MaxRuns]
      BY <1>0, <3>1, <3>2 DEF TypeOK
    <3>5. TypeOK'
      BY <1>0, <3>1, <3>4 DEF TypeOK
    <3>6. StepOf(c)'
      BY <1>0, <3>1 DEF StepOf, TypeOK
    <3>7. records' \in [Calls -> Nat] /\ records'[c] <= run[c]
      BY <1>0, <3>1, <3>2, <3>4 DEF TypeOK
    <3>8. WellFormed'
      BY <3>1, <3>6, <3>7, JobStep
    <3> QED BY <3>5, <3>8 DEF TypeInv
  <2> QED BY <2>1, <2>2
<1>13. CASE Report(c) \/ HandleReport(c) \/ Finish(c)
  <2>1. PICK s \in {"finishing", "resetting", "done"} : job' = [job EXCEPT ![c] = s]
    BY <1>13 DEF Report, HandleReport, Finish
  <2>2. /\ job[c] \in Running
        /\ UNCHANGED <<status, dataVars, apiVars, run, snapVars, history>>
    BY <1>13 DEF Report, HandleReport, Finish
  <2>3. task' \in [Calls -> TaskStates]
    BY <1>0, <1>13 DEF Report, HandleReport, Finish, Progress, TypeOK
  <2>4. TypeOK'
    BY <1>0, <2>1, <2>2, <2>3 DEF TypeOK
  <2>5. StepOf(c)'
    BY <1>0, <2>1 DEF StepOf, TypeOK
  <2> QED BY <2>1, <2>2, <2>4, <2>5, JobStepSame DEF TypeInv
<1>14. CASE HandleReset(c)
  <2>1. op[c] \in Ops
    BY <1>0, <1>14 DEF HandleReset, CallOK, TypeOK
  <2>2. PICK f \in Statuses : f = FailureOf[op[c]]
    BY <2>1, TableTypes
  <2>3. /\ job' = [job EXCEPT ![c] = "finishing"] /\ job[c] = "resetting"
        /\ status' \in Statuses \union {"GONE"}
        /\ UNCHANGED <<dataVars, apiVars, task, run, snapVars, history>>
    BY <1>0, <1>14, <2>2 DEF HandleReset, TypeOK
  <2>4. TypeOK'
    BY <1>0, <2>3 DEF TypeOK
  <2>5. StepOf(c)'
    BY <1>0, <2>3 DEF StepOf, TypeOK
  <2> QED BY <2>3, <2>4, <2>5, JobStepSame DEF TypeInv
<1> QED BY <1>1, <1>3, <1>5, <1>6, <1>7, <1>8, <1>9, <1>10, <1>11, <1>12, <1>13, <1>14
        DEF WorkerStep
LEMMA TypeInvNext == TypeInv /\ [Next]_vars => TypeInv'
<1> SUFFICES ASSUME TypeInv, [Next]_vars PROVE TypeInv'
  OBVIOUS
<1>1. CASE UNCHANGED vars
  BY <1>1 DEF vars, TypeInv, TypeOK, WellFormed, CallOK, StepOf
<1>2. CASE Next
  <2>1. ASSUME NEW c \in Calls,
               (\E o \in Ops : Request(c, o)) \/ ApiStep(c) \/ WorkerStep(c) \/ FaultStep(c)
        PROVE  TypeInv'
    BY <2>1, TypeInvApi, TypeInvWorker, TypeInvFault
  <2>2. CASE RestartWorker \/ DeleteClass \/ Quiescent
    BY <2>2, TypeInvEnvironment
  <2> QED BY <1>2, <2>1, <2>2 DEF Next
<1> QED BY <1>1, <1>2

\* Every reachable state is well typed: no job stores more lessons than it was given, and
\* none records its feedback more often than arq has started it.
THEOREM TypeCorrect == Spec => []TypeOK
<1>1. Spec => []TypeInv
  BY TypeInvInit, TypeInvNext, PTL DEF Spec
<1>2. TypeInv => TypeOK
  BY DEF TypeInv
<1> QED BY <1>1, <1>2, PTL

-----------------------------------------------------------------------------
\* The jobs that have given the status back and have not ended.
GivenBack == Finishing \union {"report"}
USE DEF GivenBack

\* What a step does to the claim on the status column.  A call takes it in Commit, ...
Takes(c) ==
    /\ status # "GONE" /\ op[c] \in Ops
    /\ status' = BusyOf[op[c]]
    /\ history' = {} => status = Accepts[op[c]]
    /\ Outstanding(c)'
    /\ \A d \in Calls \ {c} : Outstanding(d)' = Outstanding(d)

\* The status a step leaves is a result of c's operation, unless the request is deleted.
LeavesResult(c) == IF status = "GONE" THEN status' = "GONE" ELSE status' \in Results[op[c]]

\* gives it back when its job has a result or has failed, ...
GivesBack(c) ==
    /\ Outstanding(c) /\ ~Outstanding(c)'
    /\ op[c] \in Ops
    /\ LeavesResult(c)
    /\ \A d \in Calls \ {c} : Outstanding(d)' = Outstanding(d)

\* and otherwise keeps it, or is lost; no call gets it back once it has given it up, unless
\* the step is one of the overlaps that history records.
Keeps ==
    /\ status' \in {status, "GONE"}
    /\ \A d \in Calls : /\ Outstanding(d) => Outstanding(d)' \/ Casualty(d)'
                        /\ history' = {} /\ Outstanding(d)' => Outstanding(d)

\* In every step what has been asked, what has been lost and what has overlapped stands.
Settled ==
    /\ history \subseteq history'
    /\ \A d \in Calls : /\ op[d] \in Ops => op'[d] = op[d]
                        /\ Casualty(d) => Casualty(d)'

\* A job that goes on, is queued again, is dropped, or ends after it gave the status back; it
\* takes an overlap to bring back a job that has given it back.
LEMMA MoveKeeps ==
  ASSUME TypeInv, NEW c \in Calls,
         job[c] \in {"queued"} \union Running,
         NEW s \in JobStates,
         job' = [job EXCEPT ![c] = s],
         UNCHANGED <<pc, op, status>>, history \subseteq history',
         \/ s = "dropped"
         \/ s \in Running \ GivenBack /\ (job[c] \in GivenBack => history' # {})
         \/ s \in {"finishing", "done"} /\ job[c] \in GivenBack
  PROVE  Settled /\ Keeps
<1>1. /\ job \in [Calls -> JobStates]
      /\ pc[c] = "accepted"
  BY DEF TypeInv, TypeOK, WellFormed, CallOK
<1>2. \A d \in Calls : job'[d] = IF d = c THEN s ELSE job[d]
  BY <1>1
<1>3. Settled
  BY <1>2 DEF Settled, Casualty
<1>4. \A d \in Calls : Outstanding(d) => Outstanding(d)' \/ Casualty(d)'
  BY <1>1, <1>2 DEF Outstanding, Casualty
<1>5. \A d \in Calls : history' = {} /\ Outstanding(d)' => Outstanding(d)
  BY <1>1, <1>2 DEF Outstanding
<1> QED BY <1>3, <1>4, <1>5 DEF Keeps

\* A job that has stored its result, or whose handler has run.
LEMMA MoveGivesBack ==
  ASSUME TypeInv, NEW c \in Calls,
         job[c] \in Running \ GivenBack,
         NEW s \in GivenBack, job' = [job EXCEPT ![c] = s],
         UNCHANGED <<pc, op>>, history \subseteq history',
         LeavesResult(c)
  PROVE  Settled /\ GivesBack(c)
BY DEF TypeInv, TypeOK, WellFormed, CallOK, Settled, GivesBack, Outstanding, Casualty

LEMMA ThrowKeeps ==
  ASSUME TypeInv, NEW c \in Calls, Throw(c), job[c] \in Working \ {"report"}
  PROVE  Settled /\ Keeps
<1>1. /\ job' = [job EXCEPT ![c] = "handling"]
      /\ UNCHANGED <<pc, op, status, history>>
  BY DEF Throw, Goto, apiVars
<1> QED BY <1>1, MoveKeeps

\* Every step of the system is of one of the three kinds.
LEMMA ApiStepKinds ==
  ASSUME TypeInv, NEW c \in Calls,
         (\E o \in Ops : Request(c, o)) \/ ApiStep(c)
  PROVE  Settled /\ (Keeps \/ Takes(c))
<1>0. /\ TypeOK
      /\ \A d \in Calls : CallOK(d)
  BY DEF TypeInv, WellFormed
<1> USE DEF Settled, Keeps, Outstanding, Casualty
<1>1. ASSUME NEW o \in Ops, Request(c, o) PROVE Settled /\ Keeps
  <2>1. /\ pc[c] = "idle" /\ op' = [op EXCEPT ![c] = o]
        /\ pc' = [pc EXCEPT ![c] = "checked"] \/ pc' = [pc EXCEPT ![c] = "refused"]
        /\ UNCHANGED <<status, job, history>>
    BY <1>1 DEF Request
  <2>2. op[c] = "none"
    BY <1>0, <2>1 DEF CallOK
  <2> QED BY <1>0, <2>1, <2>2 DEF TypeOK
<1>2. CASE Commit(c) /\ status = "GONE"
  <2>1. /\ pc[c] = "checked" /\ pc' = [pc EXCEPT ![c] = "refused"]
        /\ UNCHANGED <<status, op, job, history>>
    BY <1>2 DEF Commit
  <2> QED BY <1>0, <2>1 DEF TypeOK
<1>3. CASE Commit(c) /\ status # "GONE"
  <2>1. /\ pc[c] = "checked" /\ pc' = [pc EXCEPT ![c] = "committed"]
        /\ UNCHANGED <<op, job>>
        /\ status' = BusyOf[op[c]]
        /\ history' = history \union (IF status = Accepts[op[c]] THEN {} ELSE {"overtaken"})
    BY <1>3 DEF Commit
  <2>2. op[c] \in Ops
    BY <1>0, <2>1 DEF TypeOK, CallOK
  <2>3. history' = {} => status = Accepts[op[c]]
    BY <2>1
  <2>4. Settled
    BY <1>0, <2>1 DEF TypeOK
  <2>5. /\ Outstanding(c)'
        /\ \A d \in Calls \ {c} : Outstanding(d)' = Outstanding(d)
    BY <1>0, <2>1 DEF TypeOK
  <2> QED BY <1>3, <2>1, <2>2, <2>3, <2>4, <2>5 DEF Takes
<1>4. CASE SetTaskState(c)
  BY <1>0, <1>4 DEF SetTaskState, TypeOK
<1>5. CASE Enqueue(c)
  BY <1>0, <1>5 DEF Enqueue, TypeOK, CallOK
<1> QED BY <1>1, <1>2, <1>3, <1>4, <1>5 DEF ApiStep

LEMMA WorkerStepKinds ==
  ASSUME TypeInv, NEW c \in Calls, WorkerStep(c)
  PROVE  Settled /\ (Keeps \/ GivesBack(c))
<1>0. /\ TypeOK
      /\ \A d \in Calls : CallOK(d)
  BY DEF TypeInv, WellFormed
<1> USE DEF Goto, apiVars, dataVars
<1>1. CASE Start(c)
  BY <1>1, MoveKeeps DEF Start
<1>2. CASE Throw(c) /\ job[c] \in Working \ {"report"}
  BY <1>2, ThrowKeeps
<1>3. CASE Load(c) /\ ~Throw(c)
  <2>1. op[c] \in Ops
    BY <1>0, <1>3 DEF Load, TypeOK, CallOK
  <2>2. PICK f \in {"identity", "revise", "generate", "revise_lesson"} : f = FirstStep[op[c]]
    BY <2>1, TableTypes
  <2>3. job[c] = "load" /\ job' = [job EXCEPT ![c] = f] /\ UNCHANGED <<pc, op, status, history>>
    BY <1>3, <2>2 DEF Load
  <2> QED BY <2>3, MoveKeeps
<1>4. CASE (PersistIdentity(c) \/ PersistGoals(c) \/ PersistSequence(c)) /\ ~Throw(c)
  <2>1. PICK s \in {"goals", "sequence", "notes"} : job' = [job EXCEPT ![c] = s]
    BY <1>4 DEF PersistIdentity, PersistGoals, PersistSequence, PersistPart
  <2>2. job[c] \in Running \ GivenBack /\ UNCHANGED <<pc, op, status, history>>
    BY <1>4 DEF PersistIdentity, PersistGoals, PersistSequence, PersistPart
  <2> QED BY <2>1, <2>2, MoveKeeps
<1>5. CASE (PublishOverview(c) \/ PublishRevision(c) \/ PublishLesson(c)) /\ ~Throw(c)
  <2>1. /\ job[c] \in Running \ GivenBack /\ job' = [job EXCEPT ![c] = "report"]
        /\ UNCHANGED <<pc, op, history>>
    BY <1>5 DEF PublishOverview, PublishRevision, PublishLesson
  <2>2. /\ status # "GONE"
        /\ \/ op[c] \in {"generate_overview", "apply_feedback"} /\ status' = "OVERVIEW_READY"
           \/ op[c] = "apply_lesson_feedback" /\ status' = "COMPLETED"
    BY <1>0, <1>5 DEF PublishOverview, PublishRevision, PublishLesson, Persistable, CallOK, StepOf
  <2>3. LeavesResult(c)
    BY <2>2 DEF LeavesResult, Results
  <2> QED BY <2>1, <2>3, MoveGivesBack
<1>6. CASE (LoadGoals(c) \/ StoreLesson(c)) /\ ~Throw(c)
  <2>1. /\ job[c] \in {"generate", "prepare"} /\ job' = [job EXCEPT ![c] = "prepare"]
        /\ UNCHANGED <<pc, op, status, history>>
    BY <1>0, <1>6 DEF LoadGoals, StoreLesson, TypeOK
  <2> QED BY <2>1, MoveKeeps
<1>7. CASE CompleteLessons(c)
  <2>1. /\ job[c] = "prepare" /\ job' = [job EXCEPT ![c] = "report"]
        /\ UNCHANGED <<pc, op, history>>
        /\ status' = IF status = "GONE" THEN status ELSE "COMPLETED"
    BY <1>7 DEF CompleteLessons
  <2>2. op[c] = "generate_lessons"
    BY <1>0, <2>1 DEF CallOK, StepOf
  <2>3. LeavesResult(c)
    BY <2>1, <2>2 DEF LeavesResult, Results
  <2> QED BY <2>1, <2>3, MoveGivesBack
<1>8. CASE Report(c) \/ Finish(c)
  BY <1>8, MoveKeeps DEF Report, Finish
<1>9. CASE HandleReport(c)
  BY <1>9, MoveKeeps DEF HandleReport
<1>10. CASE HandleReset(c)
  <2>1. op[c] \in Ops
    BY <1>0, <1>10 DEF HandleReset, TypeOK, CallOK
  <2>2. /\ job[c] = "resetting" /\ job' = [job EXCEPT ![c] = "finishing"]
        /\ UNCHANGED <<pc, op, history>>
        /\ status' = IF status = "GONE" THEN status ELSE FailureOf[op[c]]
    BY <1>10 DEF HandleReset
  <2>3. LeavesResult(c)
    BY <2>1, <2>2, TableTypes DEF LeavesResult
  <2> QED BY <2>2, <2>3, MoveGivesBack
<1> QED
  <2>1. \/ Start(c) \/ CompleteLessons(c) \/ Report(c) \/ HandleReport(c) \/ HandleReset(c) \/ Finish(c)
        \/ job[c] \in Working \ {"report"}
    BY DEF WorkerStep, Load, PersistIdentity, PersistGoals, PersistSequence, PublishOverview,
           PublishRevision, PublishLesson, LoadGoals, StoreLesson
  <2> QED BY <1>1, <1>2, <1>3, <1>4, <1>5, <1>6, <1>7, <1>8, <1>9, <1>10, <2>1 DEF WorkerStep

LEMMA FaultStepKinds ==
  ASSUME TypeInv, NEW c \in Calls, FaultStep(c)
  PROVE  Settled /\ Keeps
<1> USE DEF Goto, apiVars, dataVars
<1>1. CASE EnqueueFails(c)
  BY <1>1 DEF EnqueueFails, TypeInv, TypeOK, WellFormed, CallOK, Settled, Keeps,
     Outstanding, Casualty
<1>2. CASE Raise(c)
  <2>1. /\ job[c] \in Working /\ job' = [job EXCEPT ![c] = "handling"]
        /\ UNCHANGED <<pc, op, status>> /\ history \subseteq history'
        /\ job[c] = "report" => history' # {}
    BY <1>2 DEF Raise
  <2> QED BY <2>1, MoveKeeps
<1>3. CASE HandlerFails(c)
  BY <1>3, MoveKeeps DEF HandlerFails
<1>4. CASE Cancel(c)
  BY <1>4, MoveKeeps DEF Cancel
<1>5. CASE ExpireTask(c)
  BY <1>5 DEF ExpireTask, Settled, Keeps, Outstanding, Casualty
<1> QED BY <1>1, <1>2, <1>3, <1>4, <1>5 DEF FaultStep

LEMMA EnvironmentKinds ==
  ASSUME TypeInv, RestartWorker \/ DeleteClass \/ UNCHANGED vars
  PROVE  Settled /\ Keeps
<1>0. /\ TypeOK
      /\ \A d \in Calls : CallOK(d)
  BY DEF TypeInv, WellFormed
<1> USE DEF apiVars, dataVars, Settled, Keeps, Outstanding, Casualty
<1>1. CASE RestartWorker
  <2>1. /\ job' = [d \in Calls |-> IF job[d] \notin Running THEN job[d]
                                  ELSE IF run[d] < MaxRuns THEN "queued"
                                  ELSE IF job[d] \in Finishing THEN "done" ELSE "dropped"]
        /\ history \subseteq history'
        /\ UNCHANGED <<status, pc, op>>
    BY <1>1 DEF RestartWorker
  <2>2. history' = {} => \A d \in Calls : ~(job[d] \in GivenBack /\ run[d] < MaxRuns)
    BY <1>1 DEF RestartWorker
  <2> QED BY <1>0, <2>1, <2>2 DEF TypeOK, CallOK
<1>2. CASE DeleteClass
  BY <1>2 DEF DeleteClass
<1>3. CASE UNCHANGED vars
  BY <1>3 DEF vars
<1> QED BY <1>1, <1>2, <1>3

LEMMA StepKinds ==
  ASSUME TypeInv, [Next]_vars
  PROVE  Settled /\ (Keeps \/ \E c \in Calls : Takes(c) \/ GivesBack(c))
<1>1. ASSUME NEW c \in Calls,
             (\E o \in Ops : Request(c, o)) \/ ApiStep(c) \/ WorkerStep(c) \/ FaultStep(c)
      PROVE  Settled /\ (Keeps \/ Takes(c) \/ GivesBack(c))
  BY <1>1, ApiStepKinds, WorkerStepKinds, FaultStepKinds
<1>2. CASE RestartWorker \/ DeleteClass \/ Quiescent \/ UNCHANGED vars
  BY <1>2, EnvironmentKinds DEF Quiescent
<1> QED BY <1>1, <1>2 DEF Next

-----------------------------------------------------------------------------
\* A request is never left in a busy status by the code itself.
THEOREM BusyRequestsHaveOwners == Spec => []BusyHasOwner
<1>1. Init => BusyHasOwner
  BY DEF Init, BusyHasOwner, BusyStatuses
<1>2. TypeInv /\ BusyHasOwner /\ [Next]_vars => BusyHasOwner'
  <2> SUFFICES ASSUME TypeInv, BusyHasOwner, [Next]_vars, status' \in BusyStatuses
               PROVE  \E d \in Calls : /\ op'[d] \in Ops
                                       /\ status' = BusyOf[op'[d]]
                                       /\ Outstanding(d)' \/ Casualty(d)'
    BY DEF BusyHasOwner
  <2>1. Settled
    BY StepKinds
  <2>2. CASE \E c \in Calls : Takes(c)
    BY <2>1, <2>2 DEF Takes, Settled
  <2>3. CASE Keeps
    <3>1. status' = status
      BY <2>3 DEF Keeps, BusyStatuses
    <3>2. PICK d \in Calls : /\ op[d] \in Ops
                             /\ status = BusyOf[op[d]]
                             /\ Outstanding(d) \/ Casualty(d)
      BY <3>1 DEF BusyHasOwner
    <3>3. op'[d] = op[d] /\ (Outstanding(d)' \/ Casualty(d)')
      BY <2>1, <2>3, <3>2 DEF Settled, Keeps
    <3>4. op'[d] \in Ops /\ status' = BusyOf[op'[d]]
      BY <3>1, <3>2, <3>3
    <3> QED BY <3>3, <3>4
  <2>4. ASSUME NEW g \in Calls, GivesBack(g) PROVE FALSE
    BY <2>4, TableTypes DEF GivesBack, LeavesResult, BusyStatuses
  <2> QED BY <2>2, <2>3, <2>4, StepKinds
<1>3. Spec => []TypeInv
  BY TypeInvInit, TypeInvNext, PTL DEF Spec
<1> QED BY <1>1, <1>2, <1>3, PTL DEF Spec

LEMMA SoleOwnerStep == TypeInv /\ SoleOwner /\ [Next]_vars => SoleOwner'
<1> SUFFICES ASSUME TypeInv, SoleOwner, [Next]_vars, history' = {},
                    NEW c \in Calls, Outstanding(c)'
             PROVE  /\ status' \in {BusyOf[op'[c]], "GONE"}
                    /\ \A d \in Calls : Outstanding(d)' => d = c
  BY DEF SoleOwner
<1>1. Settled
  BY StepKinds
<1>2. \A d \in Calls : Outstanding(d) => /\ op[d] \in Ops
                                         /\ status \in {BusyOf[op[d]], "GONE"}
                                         /\ \A e \in Calls : Outstanding(e) => e = d
  BY <1>1 DEF Settled, SoleOwner, TypeInv, TypeOK, WellFormed, CallOK, Outstanding
<1>3. ASSUME NEW t \in Calls, Takes(t)
      PROVE  /\ status' \in {BusyOf[op'[c]], "GONE"}
             /\ \A d \in Calls : Outstanding(d)' => d = c
  <2>1. status \notin BusyStatuses \union {"GONE"}
    BY <1>3, TableTypes DEF Takes
  <2>2. \A d \in Calls : ~Outstanding(d)
    BY <1>2, <2>1, TableTypes
  <2>3. c = t /\ \A d \in Calls : Outstanding(d)' => d = t
    BY <1>3, <2>2 DEF Takes
  <2> QED BY <1>1, <1>3, <2>3 DEF Takes, Settled
<1>4. ASSUME NEW g \in Calls, GivesBack(g) PROVE FALSE
  <2>1. Outstanding(c) /\ c # g
    BY <1>4 DEF GivesBack
  <2> QED BY <1>2, <1>4, <2>1 DEF GivesBack
<1>5. CASE Keeps
  <2>1. Outstanding(c)
    BY <1>5 DEF Keeps
  <2>2. op'[c] = op[c]
    BY <1>1, <1>2, <2>1 DEF Settled
  <2>3. status' \in {BusyOf[op'[c]], "GONE"}
    BY <1>2, <1>5, <2>1, <2>2 DEF Keeps
  <2>4. \A d \in Calls : Outstanding(d)' => d = c
    BY <1>2, <1>5, <2>1 DEF Keeps
  <2> QED BY <2>3, <2>4
<1> QED BY <1>3, <1>4, <1>5, StepKinds

\* Unless calls overlap, the status column works as a lock.
THEOREM StatusIsALock == Spec => []SoleOwner
<1>1. Init => SoleOwner
  BY DEF Init, SoleOwner, Outstanding
<1>2. Spec => []TypeInv
  BY TypeInvInit, TypeInvNext, PTL DEF Spec
<1> QED BY <1>1, <1>2, SoleOwnerStep, PTL DEF Spec

-----------------------------------------------------------------------------
\* The operations of the code are those of StatusLock, table by table.
LEMMA TablesAgree ==
  ASSUME NEW o \in Ops
  PROVE  \E p \in Lock!Operations :
            /\ Lock!Before[p] = Accepts[o]
            /\ Lock!During[p] = BusyOf[o]
            /\ Lock!After[p] = Results[o]
<1> USE DEF Lock!Operations, Lock!Before, Lock!During, Lock!After, Accepts, BusyOf, Results
<1>1. CASE o = "generate_overview"
  <2> WITNESS "overview" \in Lock!Operations
  <2> QED BY <1>1
<1>2. CASE o = "apply_feedback"
  <2> WITNESS "revision" \in Lock!Operations
  <2> QED BY <1>2
<1>3. CASE o = "generate_lessons"
  <2> WITNESS "lessons" \in Lock!Operations
  <2> QED BY <1>3
<1>4. CASE o = "apply_lesson_feedback"
  <2> WITNESS "lesson_revision" \in Lock!Operations
  <2> QED BY <1>4
<1> QED BY <1>1, <1>2, <1>3, <1>4

Holders == {c \in Calls : Outstanding(c)}

\* Until something overlaps, every step takes the lock, gives it back, loses it or leaves it.
LEMMA StepsHold ==
  ASSUME TypeInv, SoleOwner, [Next]_vars, history' = {}
  PROVE  Lock!Hold
<1>1. Settled /\ (Keeps \/ \E c \in Calls : Takes(c) \/ GivesBack(c))
  BY StepKinds
<1>2. history = {}
  BY <1>1 DEF Settled
<1>3. \A c \in Calls : Outstanding(c) =>
            /\ status \in {BusyOf[op[c]], "GONE"} /\ op[c] \in Ops
            /\ \A d \in Calls : Outstanding(d) => d = c
  BY <1>2 DEF SoleOwner, TypeInv, TypeOK, WellFormed, CallOK, Outstanding
<1>4. CASE Keeps
  <2>1. Holders' \subseteq Holders
    BY <1>4 DEF Keeps, Holders
  <2>2. Lock!Lose
    BY <1>4, <2>1 DEF Keeps, Holders, Lock!Lose
  <2> QED BY <1>2, <2>2 DEF Lock!Hold
<1>5. ASSUME NEW c \in Calls, Takes(c) PROVE Lock!Hold
  <2>1. /\ op[c] \in Ops /\ status = Accepts[op[c]] /\ status' = BusyOf[op[c]]
        /\ Outstanding(c)' /\ \A d \in Calls \ {c} : Outstanding(d)' = Outstanding(d)
    BY <1>5 DEF Takes
  <2>2. status \in Statuses \ BusyStatuses
    BY <2>1, TableTypes
  <2>3. \A d \in Calls : ~Outstanding(d)
    BY <1>3, <2>2, TableTypes
  <2>4. Holders = {} /\ Holders' = {c}
    BY <2>1, <2>3 DEF Holders
  <2>5. \E p \in Lock!Operations : status = Lock!Before[p] /\ status' = Lock!During[p]
    BY <2>1, TablesAgree
  <2>6. Lock!Take(c)
    BY <2>4, <2>5 DEF Lock!Take, Holders
  <2> QED BY <1>2, <2>6 DEF Lock!Hold
<1>6. ASSUME NEW c \in Calls, GivesBack(c) PROVE Lock!Hold
  <2>1. /\ Outstanding(c) /\ ~Outstanding(c)' /\ op[c] \in Ops /\ LeavesResult(c)
        /\ \A d \in Calls \ {c} : Outstanding(d)' = Outstanding(d)
    BY <1>6 DEF GivesBack
  <2>2. Holders = {c} /\ Holders' = {}
    BY <1>3, <2>1 DEF Holders
  <2>3. \/ status = BusyOf[op[c]] /\ status' \in Results[op[c]]
        \/ status = "GONE" /\ status' = "GONE"
    BY <1>1, <1>3, <1>6, <2>1 DEF LeavesResult
  <2>4. \/ \E p \in Lock!Operations : status = Lock!During[p] /\ status' \in Lock!After[p]
        \/ status = "GONE" /\ status' = "GONE"
    BY <2>1, <2>3, TablesAgree
  <2>5. Lock!Give(c)
    BY <2>2, <2>4 DEF Lock!Give, Holders
  <2> QED BY <1>2, <2>5 DEF Lock!Hold
<1> QED BY <1>1, <1>4, <1>5, <1>6

LEMMA StepsImplement ==
  ASSUME TypeInv, TypeInv', SoleOwner, [Next]_vars
  PROVE  [Lock!Next]_<<status, Holders, history # {}>>
<1>1. CASE history' = {}
  BY <1>1, StepsHold DEF Lock!Next
<1>2. CASE history' # {}
  <2>1. status' \in Lock!Phases
    BY DEF TypeInv, TypeOK, Lock!Phases, Lock!During, Lock!Operations
  <2>2. Holders' \in SUBSET Calls
    BY DEF Holders
  <2> QED BY <1>2, <2>1, <2>2 DEF Lock!Next, Lock!Race, Holders
<1> QED BY <1>1, <1>2

\* Endpoints and jobs implement the lock that the status promises, for any calls, faults and
\* bounds.  (enums.py:82-90)
THEOREM StatusLockImplemented == Spec => ImplementsStatusLock
<1>1. Init => Lock!Init
  BY DEF Init, Lock!Init, Outstanding
<1>2. TypeInv /\ TypeInv' /\ SoleOwner /\ [Next]_vars =>
        [Lock!Next]_<<status, {c \in Calls : Outstanding(c)}, history # {}>>
  BY StepsImplement DEF Holders
<1>3. Spec => []TypeInv
  BY TypeInvInit, TypeInvNext, PTL DEF Spec
<1> QED BY <1>1, <1>2, <1>3, StatusIsALock, PTL DEF Spec, ImplementsStatusLock, Lock!Spec

-----------------------------------------------------------------------------------
(***************************************************************************)
(* What a plan contains while no calls have overlapped.                    *)
(***************************************************************************)
\* How far a plan is: its overview is not there yet, its lessons have not been asked for, its
\* overview is published, its lessons are.
Early == {"PENDING", "GENERATING_OVERVIEW"}
BeforeLessons == Early \union {"OVERVIEW_READY", "REVISING_OVERVIEW"}
Ready == {"OVERVIEW_READY", "REVISING_OVERVIEW", "GENERATING_LESSONS", "COMPLETED", "REVISING_LESSON"}
Done == {"COMPLETED", "REVISING_LESSON"}

\* The items of its answer that a job has stored in this run of it.
Items(c) == {r.item : r \in {q \in rows : q.call = c /\ q.run = run[c]}}

\* What a job leaves behind that has published its result.
Published(c) ==
    /\ op[c] = "generate_overview" => stage = "final" /\ status \notin Early
    /\ op[c] = "apply_feedback" => c \in edits
    /\ op[c] = "generate_lessons" => Items(c) = 1..want[c]
    /\ op[c] = "apply_lesson_feedback" => records[c] = 1

CallInv(c) ==
    /\ job[c] \in {"revise", "generate", "prepare"} => snapStage[c] = "final" /\ snapEdits[c] = edits
    /\ job[c] \in {"load", "generate"} => Items(c) = {}
    /\ job[c] = "prepare" => Items(c) = 1..made[c]
    /\ Outstanding(c) => records[c] = 0
    /\ records[c] \in {0, 1}
    /\ records[c] = 1 /\ op[c] = "apply_feedback" => c \in edits
    /\ job[c] = "report" \/ task[c] = "completed" => Published(c)

OverviewInv ==
    /\ status \in Ready => stage = "final"
    /\ status \in Early => edits = {} /\ \A c \in Calls : records[c] = 0
    /\ status \in BeforeLessons => rows = {}
    /\ \A r \in rows : r.basis = edits /\ r.run <= run[r.call]

\* Where a job is that has nothing more to store.
Over == {"report", "finishing", "done", "dropped"}

DoneInv ==
    status \in Done =>
        \E c \in Calls : /\ op[c] = "generate_lessons" /\ job[c] \in Over
                         /\ Items(c) = 1..want[c]

Content == OverviewInv /\ (\A c \in Calls : CallInv(c)) /\ DoneInv

\* The inductive invariant, until calls overlap or the plan is deleted.
ContentInv == history = {} /\ status # "GONE" => Content

\* A client is told so last.
TaskInv == history = {} => \A c \in Calls : task[c] = "completed" => job[c] \in {"finishing", "done"}

USE DEF Over

-----------------------------------------------------------------------------------
LEMMA TaskInvNext == TypeInv /\ TaskInv /\ [Next]_vars => TaskInv'
<1> SUFFICES ASSUME TypeInv, TaskInv, [Next]_vars, history' = {} PROVE TaskInv'
  BY DEF TaskInv
<1>h. history = {}
  BY StepKinds DEF Settled
<1>0. /\ TypeOK
      /\ \A d \in Calls : CallOK(d)
  BY DEF TypeInv, WellFormed
<1> USE DEF TaskInv, Goto, Throw, Progress, apiVars, dataVars, snapVars
<1>1. CASE UNCHANGED vars
  BY <1>1 DEF vars
<1>2. ASSUME NEW c \in Calls, (\E o \in Ops : Request(c, o)) \/ ApiStep(c)
      PROVE  TaskInv'
  BY <1>0, <1>h, <1>2 DEF Request, ApiStep, Commit, SetTaskState, Enqueue, TypeOK, CallOK
<1>3. ASSUME NEW c \in Calls, job[c] \in {"queued"} \union (Running \ Finishing),
             \/ task' = task
             \/ task' = [task EXCEPT ![c] = IF @ = "absent" THEN @ ELSE "running"]
             \/ task' = [task EXCEPT ![c] = IF @ = "absent" THEN @ ELSE "failed"],
             \A d \in Calls \ {c} : job'[d] = job[d]
      PROVE  TaskInv'
  BY <1>0, <1>h, <1>3 DEF TypeOK
<1>4. ASSUME NEW c \in Calls, Report(c) \/ Finish(c)
      PROVE  TaskInv'
  BY <1>0, <1>h, <1>4 DEF Report, Finish, TypeOK
<1>5. ASSUME NEW c \in Calls, WorkerStep(c), ~Report(c), ~Finish(c)
      PROVE  /\ job[c] \in {"queued"} \union (Running \ Finishing)
             /\ \/ task' = task
                \/ task' = [task EXCEPT ![c] = IF @ = "absent" THEN @ ELSE "running"]
                \/ task' = [task EXCEPT ![c] = IF @ = "absent" THEN @ ELSE "failed"]
             /\ \A d \in Calls \ {c} : job'[d] = job[d]
  <2>1. job[c] \in {"queued"} \union (Running \ Finishing)
    BY <1>5 DEF WorkerStep, Start, Load, PersistIdentity, PersistGoals, PersistSequence, PublishOverview,
       PublishRevision, LoadGoals, StoreLesson, CompleteLessons, PublishLesson, HandleReport, HandleReset
  <2>2. \/ task' = task
        \/ task' = [task EXCEPT ![c] = IF @ = "absent" THEN @ ELSE "running"]
        \/ task' = [task EXCEPT ![c] = IF @ = "absent" THEN @ ELSE "failed"]
    BY <1>5 DEF WorkerStep, Start, Load, PersistIdentity, PersistGoals, PersistSequence, PersistPart,
       PublishOverview, PublishRevision, LoadGoals, StoreLesson, CompleteLessons, PublishLesson,
       HandleReport, HandleReset
  <2>3. \A d \in Calls \ {c} : job'[d] = job[d]
    BY <1>0, <1>5 DEF WorkerStep, Start, Load, PersistIdentity, PersistGoals, PersistSequence, PersistPart,
       PublishOverview, PublishRevision, LoadGoals, StoreLesson, CompleteLessons, PublishLesson,
       HandleReport, HandleReset, TypeOK
  <2> QED
    BY <2>1, <2>2, <2>3
<1>6. ASSUME NEW c \in Calls, FaultStep(c)
      PROVE  TaskInv'
  BY <1>0, <1>h, <1>6 DEF FaultStep, EnqueueFails, Raise, HandlerFails, Cancel, ExpireTask, TypeOK, CallOK
<1>7. CASE RestartWorker
  BY <1>0, <1>h, <1>7 DEF RestartWorker, TypeOK
<1>8. CASE DeleteClass
  BY <1>h, <1>8 DEF DeleteClass
<1> QED
  BY <1>1, <1>2, <1>3, <1>4, <1>5, <1>6, <1>7, <1>8 DEF Next, Quiescent

LEMMA TaskInvAlways == Spec => []TaskInv
<1>1. Init => TaskInv
  BY DEF Init, TaskInv
<1>2. Spec => []TypeInv
  BY TypeInvInit, TypeInvNext, PTL DEF Spec
<1> QED
  BY <1>1, <1>2, TaskInvNext, PTL DEF Spec

-----------------------------------------------------------------------------------
\* While a call is outstanding it is alone, and the status is its own.
LEMMA Sole ==
  ASSUME TypeInv, SoleOwner, history = {}, status # "GONE", NEW c \in Calls, Outstanding(c)
  PROVE  /\ status = BusyOf[op[c]]
         /\ \A d \in Calls \ {c} : ~Outstanding(d)
  BY DEF SoleOwner

\* Neither an overlap nor a deletion is undone.
LEMMA NotYet ==
  ASSUME TypeInv, [Next]_vars, history' = {}, status' # "GONE"
  PROVE  history = {} /\ status # "GONE"
<1>1. Settled /\ (Keeps \/ \E c \in Calls : Takes(c) \/ GivesBack(c))
  BY StepKinds
<1> QED
  BY <1>1 DEF Settled, Keeps, Takes, GivesBack, LeavesResult

\* The status goes on and does not come back.
Onward ==
    /\ status' \in Early => status \in Early
    /\ status' \in BeforeLessons => status \in BeforeLessons
    /\ status' \in Ready => status \in Ready \/ (status = "GENERATING_OVERVIEW" /\ status' = "OVERVIEW_READY")
    /\ status' \in Done => status \in Done \/ (status = "GENERATING_LESSONS" /\ status' = "COMPLETED")

LEMMA GoesOn ==
  ASSUME TypeInv, SoleOwner, [Next]_vars, history' = {}, status' # "GONE"
  PROVE  Onward
<1> USE DEF Early, BeforeLessons, Ready, Done
<1>1. Settled /\ (Keeps \/ \E c \in Calls : Takes(c) \/ GivesBack(c))
  BY StepKinds
<1>2. history = {} /\ status # "GONE"
  BY NotYet
<1>3. CASE status' = status
  BY <1>3 DEF Onward
<1>4. ASSUME NEW c \in Calls, Takes(c)
      PROVE  \E o \in Ops : status = Accepts[o] /\ status' = BusyOf[o]
  BY <1>4 DEF Takes
<1>5. ASSUME NEW c \in Calls, GivesBack(c)
      PROVE  \E o \in Ops : status = BusyOf[o] /\ status' \in Results[o]
  BY <1>2, <1>5, Sole DEF GivesBack, LeavesResult
<1>6. ASSUME NEW o \in Ops, status = Accepts[o], status' = BusyOf[o]
      PROVE  Onward
  BY <1>6 DEF Onward, Accepts, BusyOf
<1>7. ASSUME NEW o \in Ops, status = BusyOf[o], status' \in Results[o]
      PROVE  Onward
  BY <1>7 DEF Onward, BusyOf, Results
<1> QED
  BY <1>1, <1>3, <1>4, <1>5, <1>6, <1>7 DEF Keeps, Onward

-----------------------------------------------------------------------------------
\* A step that leaves what is stored and what the jobs have read alone, and takes a job
\* nowhere but out of its work.
LEMMA Undisturbed ==
  ASSUME TypeInv, TaskInv, ContentInv, history = {}, status # "GONE", Onward,
         status' \in Ready => status \in Ready,
         status' \in Done => status \in Done,
         UNCHANGED <<stage, edits, rows, records, run, snapVars>>,
         \A d \in Calls :
            /\ job'[d] \in {"load", "revise", "generate", "prepare", "report"} => job'[d] = job[d]
            /\ job[d] \in Over => job'[d] \in Over
            /\ Outstanding(d)' => Outstanding(d) \/ records[d] = 0
            /\ op'[d] = op[d] \/ op[d] = "none"
            /\ task'[d] = "completed" => task[d] = "completed" \/ job[d] = "report"
  PROVE  ContentInv'
<1>0. Content /\ TypeOK /\ \A d \in Calls : CallOK(d)
  BY DEF ContentInv, TypeInv, WellFormed
<1>1. \A d \in Calls : Items(d)' = Items(d)
  BY DEF Items
<1>2. OverviewInv'
  BY <1>0 DEF Content, OverviewInv, Onward
<1>3. ASSUME NEW d \in Calls
      PROVE  CallInv(d)'
  <2>1. CallInv(d)
    BY <1>0 DEF Content
  <2>2. op[d] = "none" => job[d] = "none" /\ records[d] = 0 /\ task[d] # "completed"
    BY <1>0 DEF CallOK, TaskInv
  <2>3. Published(d) /\ op'[d] = op[d] => Published(d)'
    BY <1>1 DEF Published, Onward, snapVars
  <2>4. records'[d] = 1 /\ op'[d] = "apply_feedback" => d \in edits'
    BY <2>1, <2>2 DEF CallInv
  <2>5. job'[d] = "report" \/ task'[d] = "completed" => Published(d)'
    BY <2>1, <2>2, <2>3 DEF CallInv
  <2> QED
    BY <1>1, <2>1, <2>4, <2>5 DEF CallInv, snapVars
<1>4. DoneInv'
  <2> SUFFICES ASSUME status' \in Done
               PROVE  \E c \in Calls : /\ op'[c] = "generate_lessons"
                                       /\ job'[c] \in Over
                                       /\ Items(c)' = 1..want'[c]
    BY DEF DoneInv
  <2>1. PICK c \in Calls : /\ op[c] = "generate_lessons" /\ job[c] \in Over
                           /\ Items(c) = 1..want[c]
    BY <1>0 DEF Content, DoneInv
  <2> QED
    BY <1>1, <2>1 DEF snapVars
<1> QED
  BY <1>2, <1>3, <1>4 DEF ContentInv, Content

\* The calls that a step of c does not concern.
LEMMA OthersStand ==
  ASSUME NEW c \in Calls, NEW d \in Calls \ {c}, CallInv(d),
         job'[d] = job[d], task'[d] = task[d], op' = op, pc' = pc,
         records'[d] = records[d], want'[d] = want[d], made'[d] = made[d],
         snapStage'[d] = snapStage[d], snapEdits'[d] = snapEdits[d],
         Items(d)' = Items(d),
         job[d] \in {"revise", "generate", "prepare"} => edits' = edits,
         edits \subseteq edits',
         status' \in Early => status \in Early,
         status \notin Early => stage' = stage \/ stage' = "final"
  PROVE  CallInv(d)'
<1>1. Outstanding(d)' = Outstanding(d)
  BY DEF Outstanding
<1>2. Published(d) => Published(d)'
  BY DEF Published
<1> QED
  BY <1>1, <1>2 DEF CallInv

LEMMA StartContent ==
  ASSUME TypeInv, TaskInv, SoleOwner, Content, history = {}, status # "GONE", NEW c \in Calls, Start(c)
  PROVE  Content'
<1>0. TypeOK /\ \A d \in Calls : CallOK(d)
  BY DEF TypeInv, WellFormed
<1>1. /\ job[c] = "queued" /\ job' = [job EXCEPT ![c] = "load"]
      /\ run' = [run EXCEPT ![c] = run[c] + 1]
      /\ task' = [task EXCEPT ![c] = IF task[c] = "absent" THEN "absent" ELSE "running"]
      /\ UNCHANGED <<status, stage, edits, rows, records, op, pc, snapStage, snapEdits, want, made>>
  BY DEF Start, Goto, Progress, dataVars, apiVars, snapVars
<1>2. run[c] \in Nat /\ \A r \in rows : r.run \in Nat
  BY <1>0, ConstantsOK DEF TypeOK, Row
<1>3. \A r \in rows : r.call = c => r.run < run'[c]
  BY <1>0, <1>1, <1>2 DEF Content, OverviewInv, TypeOK
<1>4. Items(c)' = {}
  BY <1>1, <1>2, <1>3 DEF Items
<1>5. \A d \in Calls \ {c} : Items(d)' = Items(d)
  BY <1>0, <1>1 DEF Items, TypeOK
<1>6. OverviewInv'
  <2>1. \A r \in rows : r.run <= run'[r.call]
    BY <1>0, <1>1, <1>2 DEF Content, OverviewInv, TypeOK, Row
  <2> QED
    BY <1>1, <2>1 DEF Content, OverviewInv
<1>7. CallInv(c)'
  <2>1. job'[c] = "load" /\ task'[c] # "completed"
    BY <1>0, <1>1 DEF TypeOK
  <2>2. records'[c] = 0
    BY <1>1 DEF Content, CallInv, Outstanding
  <2> QED
    BY <1>4, <2>1, <2>2 DEF CallInv
<1>8. ASSUME NEW d \in Calls \ {c}
      PROVE  CallInv(d)'
  BY <1>0, <1>1, <1>5, OthersStand DEF Content, TypeOK
<1>9. DoneInv'
  BY <1>0, <1>1, <1>5 DEF Content, DoneInv, TypeOK
<1> QED
  BY <1>6, <1>7, <1>8, <1>9 DEF Content

LEMMA LoadContent ==
  ASSUME TypeInv, TaskInv, SoleOwner, Content, history = {}, status # "GONE", NEW c \in Calls,
         Load(c), ~Throw(c)
  PROVE  Content'
<1>0. TypeOK /\ \A d \in Calls : CallOK(d)
  BY DEF TypeInv, WellFormed
<1>1. /\ job[c] = "load" /\ job' = [job EXCEPT ![c] = FirstStep[op[c]]]
      /\ snapStage' = [snapStage EXCEPT ![c] = stage]
      /\ snapEdits' = [snapEdits EXCEPT ![c] = edits]
      /\ UNCHANGED <<status, stage, edits, rows, records, op, pc, task, run, want, made>>
  BY DEF Load, Goto, dataVars, apiVars
<1>2. op[c] \in Ops /\ Outstanding(c)
  BY <1>0, <1>1 DEF CallOK, TypeOK, Outstanding
<1>3. status = BusyOf[op[c]]
  BY <1>2, Sole
<1>4. FirstStep[op[c]] \in {"revise", "generate"} => stage = "final"
  BY <1>2, <1>3 DEF Content, OverviewInv, FirstStep, BusyOf, Ready
<1>5. FirstStep[op[c]] \in {"identity", "revise", "generate", "revise_lesson"}
  BY <1>2, TableTypes
<1>6. \A d \in Calls : Items(d)' = Items(d)
  BY <1>1 DEF Items
<1>7. CallInv(c)'
  <2>1. /\ job'[c] = FirstStep[op[c]] /\ snapStage'[c] = stage /\ snapEdits'[c] = edits
        /\ Items(c)' = {} /\ records'[c] = 0 /\ task'[c] # "completed"
    BY <1>0, <1>1, <1>2, <1>6 DEF TypeOK, Content, CallInv, TaskInv
  <2> QED
    BY <1>1, <1>4, <1>5, <2>1 DEF CallInv
<1>8. ASSUME NEW d \in Calls \ {c}
      PROVE  CallInv(d)'
  BY <1>0, <1>1, <1>6, OthersStand DEF Content, TypeOK
<1>9. DoneInv'
  BY <1>0, <1>1, <1>6 DEF Content, DoneInv, TypeOK
<1>10. OverviewInv'
  BY <1>1 DEF Content, OverviewInv
<1> QED
  BY <1>7, <1>8, <1>9, <1>10 DEF Content

\* The pipeline stores a part of the overview, or all of it.
LEMMA OverviewContent ==
  ASSUME TypeInv, TaskInv, SoleOwner, Content, history = {}, status # "GONE", NEW c \in Calls,
         op[c] = "generate_overview", job[c] \in {"identity", "goals", "sequence", "notes"},
         NEW next \in {"goals", "sequence", "notes", "report"},
         job' = [job EXCEPT ![c] = next], edits' = {},
         \/ next # "report" /\ status' = status
         \/ next = "report" /\ status' = "OVERVIEW_READY" /\ stage' = "final",
         UNCHANGED <<rows, records, op, pc, task, run, snapVars>>
  PROVE  Content'
<1>0. TypeOK /\ \A d \in Calls : CallOK(d)
  BY DEF TypeInv, WellFormed
<1>1. Outstanding(c)
  BY DEF Outstanding
<1>2. status = "GENERATING_OVERVIEW" /\ \A d \in Calls \ {c} : ~Outstanding(d)
  BY <1>1, Sole DEF BusyOf
<1>3. edits = {} /\ rows = {} /\ \A d \in Calls : records[d] = 0
  BY <1>2 DEF Content, OverviewInv, Early, BeforeLessons
<1>4. \A d \in Calls : Items(d)' = Items(d)
  BY DEF Items
<1>5. job'[c] = next /\ task'[c] # "completed" /\ \A d \in Calls \ {c} : job'[d] = job[d]
  BY <1>0 DEF TypeOK, TaskInv
<1>6. OverviewInv'
  BY <1>2, <1>3 DEF OverviewInv, Early, BeforeLessons, Ready
<1>7. CallInv(c)'
  <2>1. next = "report" => Published(c)'
    BY DEF Published, Early
  <2> QED
    BY <1>3, <1>5, <2>1 DEF CallInv
<1>8. ASSUME NEW d \in Calls \ {c}
      PROVE  CallInv(d)'
  <2>1. CallInv(d) /\ job[d] \notin {"queued", "load", "revise", "generate", "prepare"}
    BY <1>2 DEF Content, Outstanding
  <2>2. Published(d) => Published(d)'
    BY <1>2, <1>3, <1>4 DEF Published, Early, snapVars
  <2> QED
    BY <1>2, <1>3, <1>5, <2>1, <2>2 DEF CallInv, Outstanding
<1>9. DoneInv'
  BY <1>2 DEF DoneInv, Done
<1> QED
  BY <1>6, <1>7, <1>8, <1>9 DEF Content

LEMMA PublishRevisionContent ==
  ASSUME TypeInv, TaskInv, SoleOwner, Content, history = {}, status # "GONE", NEW c \in Calls,
         PublishRevision(c), ~Throw(c)
  PROVE  Content'
<1>0. TypeOK /\ \A d \in Calls : CallOK(d)
  BY DEF TypeInv, WellFormed
<1>1. /\ job[c] = "revise" /\ job' = [job EXCEPT ![c] = "report"]
      /\ stage' = snapStage[c] /\ edits' = snapEdits[c] \union {c}
      /\ records' = [records EXCEPT ![c] = records[c] + 1]
      /\ status' = "OVERVIEW_READY"
      /\ UNCHANGED <<rows, op, pc, task, run, snapVars>>
  BY DEF PublishRevision, PersistOverview, Goto, apiVars
<1>2. op[c] = "apply_feedback" /\ Outstanding(c)
  BY <1>0, <1>1 DEF CallOK, StepOf, Outstanding
<1>3. status = "REVISING_OVERVIEW" /\ \A d \in Calls \ {c} : ~Outstanding(d)
  BY <1>2, Sole DEF BusyOf
<1>4. rows = {} /\ stage' = "final" /\ edits' = edits \union {c} /\ records[c] = 0
  BY <1>1, <1>2, <1>3 DEF Content, OverviewInv, CallInv, BeforeLessons
<1>5. \A d \in Calls : Items(d)' = Items(d)
  BY <1>1 DEF Items
<1>6. /\ job'[c] = "report" /\ records'[c] = 1
      /\ \A d \in Calls \ {c} : job'[d] = job[d] /\ records'[d] = records[d]
  BY <1>0, <1>1, <1>4 DEF TypeOK
<1>7. OverviewInv'
  BY <1>1, <1>4 DEF OverviewInv, Early
<1>8. CallInv(c)'
  <2>1. Published(c)'
    BY <1>1, <1>2, <1>4 DEF Published
  <2>2. ~Outstanding(c)'
    BY <1>0, <1>1, <1>6 DEF CallOK, Outstanding
  <2> QED
    BY <1>4, <1>6, <2>1, <2>2 DEF CallInv
<1>9. ASSUME NEW d \in Calls \ {c}
      PROVE  CallInv(d)'
  <2>1. CallInv(d) /\ job[d] \notin {"revise", "generate", "prepare"}
    BY <1>3 DEF Content, Outstanding
  <2> QED
    BY <1>1, <1>4, <1>5, <1>6, <2>1, OthersStand DEF snapVars, Early
<1>10. DoneInv'
  BY <1>1 DEF DoneInv, Done
<1> QED
  BY <1>7, <1>8, <1>9, <1>10 DEF Content

LEMMA LoadGoalsContent ==
  ASSUME TypeInv, TaskInv, SoleOwner, Content, history = {}, status # "GONE", NEW c \in Calls,
         LoadGoals(c), ~Throw(c)
  PROVE  Content'
<1>0. TypeOK /\ \A d \in Calls : CallOK(d)
  BY DEF TypeInv, WellFormed
<1>1. /\ job[c] = "generate" /\ job' = [job EXCEPT ![c] = "prepare"]
      /\ \E n \in 0..NumLessons : want' = [want EXCEPT ![c] = n]
      /\ made' = [made EXCEPT ![c] = 0]
      /\ UNCHANGED <<status, stage, edits, rows, records, op, pc, task, run, snapStage, snapEdits>>
  BY DEF LoadGoals, Goto, apiVars
<1>2. op[c] = "generate_lessons" /\ Outstanding(c)
  BY <1>0, <1>1 DEF CallOK, StepOf, Outstanding
<1>3. \A d \in Calls : Items(d)' = Items(d)
  BY <1>1 DEF Items
<1>4. /\ job'[c] = "prepare" /\ made'[c] = 0
      /\ \A d \in Calls \ {c} : job'[d] = job[d] /\ want'[d] = want[d] /\ made'[d] = made[d]
  BY <1>0, <1>1 DEF TypeOK
<1>5. OverviewInv'
  BY <1>1 DEF Content, OverviewInv
<1>6. CallInv(c)'
  <2>1. Items(c)' = 1..0 /\ task'[c] # "completed" /\ records'[c] = 0
    BY <1>0, <1>1, <1>2, <1>3 DEF Content, CallInv, TaskInv
  <2> QED
    BY <1>1, <1>4, <2>1 DEF Content, CallInv
<1>7. ASSUME NEW d \in Calls \ {c}
      PROVE  CallInv(d)'
  BY <1>1, <1>3, <1>4, OthersStand DEF Content
<1>8. DoneInv'
  BY <1>1, <1>3, <1>4 DEF Content, DoneInv
<1> QED
  BY <1>5, <1>6, <1>7, <1>8 DEF Content

LEMMA StoreLessonContent ==
  ASSUME TypeInv, TaskInv, SoleOwner, Content, history = {}, status # "GONE", NEW c \in Calls,
         StoreLesson(c), ~Throw(c)
  PROVE  Content'
<1>0. TypeOK /\ \A d \in Calls : CallOK(d)
  BY DEF TypeInv, WellFormed
<1>1. PICK linked \in BOOLEAN :
        /\ job[c] = "prepare"
        /\ rows' = rows \union {[call |-> c, run |-> run[c], item |-> made[c] + 1,
                                 linked |-> linked, basis |-> snapEdits[c]]}
        /\ made' = [made EXCEPT ![c] = made[c] + 1]
        /\ UNCHANGED <<status, stage, edits, records, op, pc, task, job, run, snapStage, snapEdits, want>>
  BY DEF StoreLesson, apiVars
<1> DEFINE row == [call |-> c, run |-> run[c], item |-> made[c] + 1,
                   linked |-> linked, basis |-> snapEdits[c]]
<1>2. op[c] = "generate_lessons" /\ Outstanding(c)
  BY <1>0, <1>1 DEF CallOK, StepOf, Outstanding
<1>3. status = "GENERATING_LESSONS" /\ CallInv(c)
  BY <1>2, Sole DEF BusyOf, Content
<1>4. made[c] \in Nat /\ run[c] \in Nat
  BY <1>0, ConstantsOK DEF TypeOK
<1>5. rows' = rows \union {row} /\ row.call = c /\ row.run = run[c] /\ row.item = made[c] + 1
      /\ row.basis = edits
  BY <1>1, <1>3 DEF CallInv
<1> HIDE DEF row
<1>6. Items(c)' = Items(c) \union {made[c] + 1}
  BY <1>1, <1>5 DEF Items
<1>7. Items(c)' = 1..made'[c]
  <2>1. made'[c] = made[c] + 1 /\ Items(c) = 1..made[c]
    BY <1>0, <1>1, <1>3 DEF TypeOK, CallInv
  <2> QED
    BY <1>4, <1>6, <2>1
<1>8. \A d \in Calls \ {c} : Items(d)' = Items(d) /\ made'[d] = made[d]
  BY <1>0, <1>1, <1>5 DEF Items, TypeOK
<1>9. OverviewInv'
  BY <1>1, <1>3, <1>4, <1>5 DEF Content, OverviewInv, BeforeLessons, Early
<1>10. CallInv(c)'
  <2>1. task'[c] # "completed" /\ job'[c] = "prepare"
    BY <1>1 DEF TaskInv
  <2> QED
    BY <1>1, <1>3, <1>7, <2>1 DEF CallInv, Outstanding
<1>11. ASSUME NEW d \in Calls \ {c}
       PROVE  CallInv(d)'
  BY <1>1, <1>8, OthersStand DEF Content
<1>12. DoneInv'
  BY <1>1, <1>3 DEF DoneInv, Done
<1> QED
  BY <1>9, <1>10, <1>11, <1>12 DEF Content

LEMMA CompleteLessonsContent ==
  ASSUME TypeInv, TaskInv, SoleOwner, Content, history = {}, status # "GONE", NEW c \in Calls,
         CompleteLessons(c)
  PROVE  Content'
<1>0. TypeOK /\ \A d \in Calls : CallOK(d)
  BY DEF TypeInv, WellFormed
<1>1. /\ job[c] = "prepare" /\ job' = [job EXCEPT ![c] = "report"] /\ made[c] = want[c]
      /\ status' = "COMPLETED"
      /\ UNCHANGED <<stage, edits, rows, records, op, pc, task, run, snapVars>>
  BY DEF CompleteLessons, Goto, apiVars, dataVars
<1>2. op[c] = "generate_lessons" /\ Outstanding(c)
  BY <1>0, <1>1 DEF CallOK, StepOf, Outstanding
<1>3. status = "GENERATING_LESSONS" /\ CallInv(c)
  BY <1>2, Sole DEF BusyOf, Content
<1>4. \A d \in Calls : Items(d)' = Items(d)
  BY <1>1 DEF Items
<1>5. job'[c] = "report" /\ \A d \in Calls \ {c} : job'[d] = job[d]
  BY <1>0, <1>1 DEF TypeOK
<1>6. Items(c)' = 1..want'[c]
  BY <1>1, <1>3, <1>4 DEF CallInv, snapVars
<1>7. OverviewInv'
  BY <1>1, <1>3 DEF Content, OverviewInv, Ready, Early, BeforeLessons
<1>8. CallInv(c)'
  <2>1. Published(c)'
    BY <1>1, <1>2, <1>6 DEF Published
  <2>2. records'[c] = 0
    BY <1>1, <1>2, <1>3 DEF CallInv
  <2> QED
    BY <1>5, <2>1, <2>2 DEF CallInv
<1>9. ASSUME NEW d \in Calls \ {c}
      PROVE  CallInv(d)'
  BY <1>1, <1>4, <1>5, OthersStand DEF Content, snapVars, Early
<1>10. DoneInv'
  BY <1>1, <1>2, <1>5, <1>6 DEF DoneInv
<1> QED
  BY <1>7, <1>8, <1>9, <1>10 DEF Content

LEMMA PublishLessonContent ==
  ASSUME TypeInv, TaskInv, SoleOwner, Content, history = {}, status # "GONE", NEW c \in Calls,
         PublishLesson(c), ~Throw(c)
  PROVE  Content'
<1>0. TypeOK /\ \A d \in Calls : CallOK(d)
  BY DEF TypeInv, WellFormed
<1>1. /\ job[c] = "revise_lesson" /\ job' = [job EXCEPT ![c] = "report"]
      /\ records' = [records EXCEPT ![c] = records[c] + 1]
      /\ status' = "COMPLETED"
      /\ UNCHANGED <<stage, edits, rows, op, pc, task, run, snapVars>>
  BY DEF PublishLesson, Goto, apiVars
<1>2. op[c] = "apply_lesson_feedback" /\ Outstanding(c)
  BY <1>0, <1>1 DEF CallOK, StepOf, Outstanding
<1>3. status = "REVISING_LESSON" /\ CallInv(c) /\ records[c] = 0
  BY <1>2, Sole DEF BusyOf, Content, CallInv
<1>4. \A d \in Calls : Items(d)' = Items(d)
  BY <1>1 DEF Items
<1>5. /\ job'[c] = "report" /\ records'[c] = 1
      /\ \A d \in Calls \ {c} : job'[d] = job[d] /\ records'[d] = records[d]
  BY <1>0, <1>1, <1>3 DEF TypeOK
<1>6. OverviewInv'
  BY <1>1, <1>3 DEF Content, OverviewInv, Ready, Early, BeforeLessons
<1>7. CallInv(c)'
  <2>1. Published(c)'
    BY <1>1, <1>2, <1>5 DEF Published
  <2>2. ~Outstanding(c)'
    BY <1>0, <1>1, <1>5 DEF CallOK, Outstanding
  <2> QED
    BY <1>1, <1>2, <1>5, <2>1, <2>2 DEF CallInv
<1>8. ASSUME NEW d \in Calls \ {c}
      PROVE  CallInv(d)'
  BY <1>1, <1>4, <1>5, OthersStand DEF Content, snapVars, Early
<1>9. DoneInv'
  BY <1>1, <1>3, <1>4, <1>5 DEF Content, DoneInv, Done, snapVars
<1> QED
  BY <1>6, <1>7, <1>8, <1>9 DEF Content

-----------------------------------------------------------------------------------
LEMMA WorkerContent ==
  ASSUME TypeInv, TaskInv, SoleOwner, ContentInv, [Next]_vars, history' = {}, status' # "GONE",
         NEW c \in Calls, WorkerStep(c)
  PROVE  ContentInv'
<1>0. TypeOK /\ \A d \in Calls : CallOK(d)
  BY DEF TypeInv, WellFormed
<1>1. history = {} /\ status # "GONE" /\ Onward /\ Content
  BY NotYet, GoesOn DEF ContentInv
<1>2. Content' => ContentInv'
  BY DEF ContentInv
<1> USE DEF Goto, apiVars, dataVars, snapVars
<1>3. ASSUME job[c] \in Running, NEW s \in {"handling", "resetting", "finishing", "done"},
             job' = [job EXCEPT ![c] = s], s \in {"finishing", "done"} \/ job[c] \notin GivenBack,
             UNCHANGED <<stage, edits, rows, records, run, snapVars, op, pc>>,
             task'[c] = "completed" => task[c] = "completed" \/ job[c] = "report",
             \A d \in Calls \ {c} : task'[d] = task[d],
             status' \in Ready => status \in Ready,
             status' \in Done => status \in Done
      PROVE  ContentInv'
  <2>1. \A d \in Calls : job'[d] = IF d = c THEN s ELSE job[d]
    BY <1>0, <1>3 DEF TypeOK
  <2>2. \A d \in Calls : Outstanding(d)' => Outstanding(d)
    BY <1>3, <2>1 DEF Outstanding
  <2> QED
    BY <1>1, <1>3, <2>1, <2>2, Undisturbed
<1>4. ASSUME Throw(c), job[c] \in Working \ {"report"}
      PROVE  ContentInv'
  BY <1>3, <1>4 DEF Throw
<1>5. CASE Start(c)
  BY <1>1, <1>2, <1>5, StartContent
<1>6. CASE Load(c)
  <2>1. CASE Throw(c)
    BY <1>4, <1>6, <2>1 DEF Load
  <2> QED
    BY <1>1, <1>2, <1>6, <2>1, LoadContent
<1>7. ASSUME NEW s \in Stages, NEW next \in {"goals", "sequence", "notes"},
             job[c] \in {"identity", "goals", "sequence"}, PersistPart(c, s, next)
      PROVE  ContentInv'
  <2>1. CASE Throw(c)
    BY <1>4, <1>7, <2>1
  <2>2. CASE ~Throw(c)
    <3>1. /\ job' = [job EXCEPT ![c] = next] /\ edits' = {}
          /\ UNCHANGED <<status, rows, records, op, pc, task, run, snapVars>>
      BY <1>7, <2>2 DEF PersistPart, PersistOverview
    <3>2. op[c] = "generate_overview"
      BY <1>0, <1>7 DEF CallOK, StepOf
    <3> QED
      BY <1>1, <1>2, <1>7, <3>1, <3>2, OverviewContent
  <2> QED
    BY <2>1, <2>2
<1>8. CASE PersistIdentity(c) \/ PersistGoals(c) \/ PersistSequence(c)
  BY <1>7, <1>8 DEF PersistIdentity, PersistGoals, PersistSequence
<1>9. CASE PublishOverview(c)
  <2>1. CASE Throw(c)
    BY <1>4, <1>9, <2>1 DEF PublishOverview
  <2>2. CASE ~Throw(c)
    <3>1. /\ job[c] = "notes" /\ job' = [job EXCEPT ![c] = "report"] /\ edits' = {}
          /\ status' = "OVERVIEW_READY" /\ stage' = "final"
          /\ UNCHANGED <<rows, records, op, pc, task, run, snapVars>>
      BY <1>9, <2>2 DEF PublishOverview, PersistOverview
    <3>2. op[c] = "generate_overview"
      BY <1>0, <3>1 DEF CallOK, StepOf
    <3> QED
      BY <1>1, <1>2, <3>1, <3>2, OverviewContent
  <2> QED
    BY <2>1, <2>2
<1>10. CASE PublishRevision(c)
  <2>1. CASE Throw(c)
    BY <1>4, <1>10, <2>1 DEF PublishRevision
  <2> QED
    BY <1>1, <1>2, <1>10, <2>1, PublishRevisionContent
<1>11. CASE LoadGoals(c)
  <2>1. CASE Throw(c)
    BY <1>4, <1>11, <2>1 DEF LoadGoals
  <2> QED
    BY <1>1, <1>2, <1>11, <2>1, LoadGoalsContent
<1>12. CASE StoreLesson(c)
  <2>1. CASE Throw(c)
    BY <1>4, <1>12, <2>1 DEF StoreLesson
  <2> QED
    BY <1>1, <1>2, <1>12, <2>1, StoreLessonContent
<1>13. CASE CompleteLessons(c)
  BY <1>1, <1>2, <1>13, CompleteLessonsContent
<1>14. CASE PublishLesson(c)
  <2>1. CASE Throw(c)
    BY <1>4, <1>14, <2>1 DEF PublishLesson
  <2> QED
    BY <1>1, <1>2, <1>14, <2>1, PublishLessonContent
<1>15. CASE Report(c)
  <2>1. /\ job[c] = "report" /\ job' = [job EXCEPT ![c] = "finishing"]
        /\ UNCHANGED <<status, stage, edits, rows, records, run, snapVars, op, pc>>
        /\ \A d \in Calls \ {c} : task'[d] = task[d]
    BY <1>0, <1>15 DEF Report, Progress, TypeOK
  <2> QED
    BY <1>3, <2>1
<1>16. CASE HandleReport(c)
  <2>1. /\ job[c] = "handling" /\ job' = [job EXCEPT ![c] = "resetting"]
        /\ UNCHANGED <<status, stage, edits, rows, records, run, snapVars, op, pc>>
        /\ task'[c] # "completed" /\ \A d \in Calls \ {c} : task'[d] = task[d]
    BY <1>0, <1>16 DEF HandleReport, Progress, TypeOK
  <2> QED
    BY <1>3, <2>1
<1>17. CASE HandleReset(c)
  <2>1. /\ job[c] = "resetting" /\ job' = [job EXCEPT ![c] = "finishing"]
        /\ status' = FailureOf[op[c]]
        /\ UNCHANGED <<stage, edits, rows, records, run, snapVars, op, pc, task>>
    BY <1>1, <1>17 DEF HandleReset
  <2>2. op[c] \in Ops /\ status = BusyOf[op[c]]
    BY <1>0, <1>1, <2>1, Sole DEF CallOK, TypeOK, Outstanding
  <2>3. (status' \in Ready => status \in Ready) /\ (status' \in Done => status \in Done)
    BY <2>1, <2>2 DEF FailureOf, BusyOf, Ready, Done
  <2> QED
    BY <1>3, <2>1, <2>3
<1>18. CASE Finish(c)
  BY <1>3, <1>18 DEF Finish
<1> QED
  BY <1>5, <1>6, <1>8, <1>9, <1>10, <1>11, <1>12, <1>13, <1>14, <1>15, <1>16, <1>17, <1>18 DEF WorkerStep

LEMMA ContentNext ==
  ASSUME TypeInv, TaskInv, SoleOwner, ContentInv, [Next]_vars
  PROVE  ContentInv'
<1> SUFFICES ASSUME history' = {}, status' # "GONE"
             PROVE  ContentInv'
  BY DEF ContentInv
<1>0. TypeOK /\ \A d \in Calls : CallOK(d)
  BY DEF TypeInv, WellFormed
<1>1. history = {} /\ status # "GONE" /\ Onward
  BY NotYet, GoesOn
<1> USE DEF Goto, apiVars, dataVars, snapVars
\* Calls, and what happens to jobs from outside, leave the content alone.
<1>2. ASSUME UNCHANGED <<stage, edits, rows, records, run, snapVars, status>>,
             \A d \in Calls :
                /\ job'[d] \in {"load", "revise", "generate", "prepare", "report"} => job'[d] = job[d]
                /\ job[d] \in Over => job'[d] \in Over
                /\ Outstanding(d)' => Outstanding(d) \/ records[d] = 0
                /\ op'[d] = op[d] \/ op[d] = "none"
                /\ task'[d] = "completed" => task[d] = "completed"
      PROVE  ContentInv'
  BY <1>1, <1>2, Undisturbed
<1>3. ASSUME NEW c \in Calls, NEW o \in Ops, Request(c, o)
      PROVE  ContentInv'
  <2>1. /\ op' = [op EXCEPT ![c] = o] /\ op[c] = "none"
        /\ pc' = [pc EXCEPT ![c] = "checked"] \/ pc' = [pc EXCEPT ![c] = "refused"]
        /\ UNCHANGED <<status, stage, edits, rows, records, run, snapVars, job, task>>
    BY <1>0, <1>3 DEF Request, CallOK
  <2>2. \A d \in Calls : Outstanding(d)' => Outstanding(d)
    BY <1>0, <2>1 DEF Outstanding, TypeOK
  <2> QED
    BY <1>0, <1>2, <2>1, <2>2 DEF TypeOK
<1>4. ASSUME NEW c \in Calls, Commit(c)
      PROVE  ContentInv'
  <2>1. /\ pc[c] = "checked" /\ pc' = [pc EXCEPT ![c] = "committed"]
        /\ status = Accepts[op[c]] /\ status' = BusyOf[op[c]]
        /\ UNCHANGED <<stage, edits, rows, records, run, snapVars, op, job, task>>
    BY <1>1, <1>4 DEF Commit
  <2>2. op[c] \in Ops /\ records[c] = 0
    BY <1>0, <2>1 DEF CallOK, TypeOK
  <2>3. (status' \in Ready => status \in Ready) /\ (status' \in Done => status \in Done)
    BY <2>1, <2>2 DEF Accepts, BusyOf, Ready, Done
  <2>4. \A d \in Calls : Outstanding(d)' => Outstanding(d) \/ records[d] = 0
    BY <1>0, <2>1, <2>2 DEF Outstanding, TypeOK
  <2> QED
    BY <1>1, <2>1, <2>3, <2>4, Undisturbed
<1>5. ASSUME NEW c \in Calls, SetTaskState(c) \/ Enqueue(c)
      PROVE  ContentInv'
  <2>1. /\ pc[c] # "accepted" /\ records[c] = 0 /\ job[c] = "none"
        /\ UNCHANGED <<status, stage, edits, rows, records, run, snapVars, op>>
    BY <1>0, <1>5 DEF SetTaskState, Enqueue, CallOK
  <2>2. \A d \in Calls : /\ job'[d] = job[d] \/ (d = c /\ job'[d] = "queued")
                         /\ task'[d] = "completed" => task[d] = "completed"
                         /\ d # c => pc'[d] = pc[d]
    BY <1>0, <1>5 DEF SetTaskState, Enqueue, TypeOK
  <2>3. \A d \in Calls : Outstanding(d)' => Outstanding(d) \/ records[d] = 0
    BY <2>1, <2>2 DEF Outstanding
  <2> QED
    BY <1>2, <2>1, <2>2, <2>3
<1>6. ASSUME NEW c \in Calls, FaultStep(c)
      PROVE  ContentInv'
  <2>1. UNCHANGED <<status, stage, edits, rows, records, run, snapVars, op>>
    BY <1>6 DEF FaultStep, EnqueueFails, Raise, HandlerFails, Cancel, ExpireTask
  <2>2. \A d \in Calls : task'[d] = "completed" => task[d] = "completed"
    BY <1>0, <1>6 DEF FaultStep, EnqueueFails, Raise, HandlerFails, Cancel, ExpireTask, TypeOK
  <2>3. \A d \in Calls : \/ job'[d] = job[d]
                         \/ job'[d] = "dropped" /\ job[d] \in Running
                         \/ job'[d] = "handling" /\ job[d] \in Working \ {"report"}
    <3>1. CASE Raise(c)
      BY <1>0, <3>1 DEF Raise, TypeOK
    <3>2. CASE ~Raise(c)
      BY <1>0, <1>6, <3>2 DEF FaultStep, EnqueueFails, HandlerFails, Cancel, ExpireTask, TypeOK
    <3> QED
      BY <3>1, <3>2
  <2>4. \A d \in Calls : pc'[d] = pc[d] \/ pc'[d] = "failed"
    BY <1>0, <1>6 DEF FaultStep, EnqueueFails, Raise, HandlerFails, Cancel, ExpireTask, TypeOK
  <2>5. \A d \in Calls : Outstanding(d)' => Outstanding(d)
    BY <2>3, <2>4 DEF Outstanding
  <2> QED
    BY <1>2, <2>1, <2>2, <2>3, <2>5
<1>7. CASE RestartWorker
  <2>1. /\ job' = [d \in Calls |-> IF job[d] \notin Running THEN job[d]
                                  ELSE IF run[d] < MaxRuns THEN "queued"
                                  ELSE IF job[d] \in Finishing THEN "done" ELSE "dropped"]
        /\ \A d \in Calls : ~(job[d] \in GivenBack /\ run[d] < MaxRuns)
        /\ UNCHANGED <<status, stage, edits, rows, records, run, snapVars, op, pc, task>>
    BY <1>7 DEF RestartWorker
  <2>2. \A d \in Calls : \/ job'[d] = job[d]
                         \/ job'[d] = "queued" /\ job[d] \in Running \ GivenBack
                         \/ job'[d] \in {"done", "dropped"} /\ job[d] \in Running
    BY <2>1
  <2>3. \A d \in Calls : Outstanding(d)' => Outstanding(d)
    BY <2>1, <2>2 DEF Outstanding
  <2> QED
    BY <1>2, <2>1, <2>2, <2>3
<1>8. CASE UNCHANGED vars
  <2>1. \A d \in Calls : Outstanding(d)' => Outstanding(d)
    BY <1>8 DEF vars, Outstanding
  <2> QED
    BY <1>2, <1>8, <2>1 DEF vars
<1>9. ~DeleteClass
  BY DEF DeleteClass
<1> QED
  BY <1>3, <1>4, <1>5, <1>6, <1>7, <1>8, <1>9, WorkerContent DEF Next, ApiStep, Quiescent


-----------------------------------------------------------------------------------
\* What holds of a deleted plan as well: nothing is left of its lessons, and no revision was
\* ever recorded twice.
GoneInv == status = "GONE" => rows = {}
RecordInv == history = {} => \A c \in Calls : records[c] \in {0, 1} /\ (Outstanding(c) => records[c] = 0)

FiniteRows == IsFiniteSet(rows)

LEMMA RowsStep ==
  ASSUME TypeInv, [Next]_vars
  PROVE  \/ rows' = {}
         \/ rows' = rows /\ (status' = "GONE" => status = "GONE")
         \/ status' # "GONE" /\ \E x : rows' = rows \union {x}
<1>0. TypeOK /\ \A d \in Calls : CallOK(d)
  BY DEF TypeInv, WellFormed
<1> USE DEF Throw, Goto, apiVars, dataVars, snapVars
<1>1. ASSUME NEW c \in Calls, (\E o \in Ops : Request(c, o)) \/ SetTaskState(c) \/ Enqueue(c) \/ FaultStep(c)
      PROVE  rows' = rows /\ status' = status
  BY <1>1 DEF Request, SetTaskState, Enqueue, FaultStep, EnqueueFails, Raise, HandlerFails, Cancel, ExpireTask
<1>2. ASSUME NEW c \in Calls, Commit(c)
      PROVE  rows' = rows /\ (status' = "GONE" => status = "GONE")
  <2>1. status # "GONE" => op[c] \in Ops /\ status' = BusyOf[op[c]]
    BY <1>0, <1>2 DEF Commit, CallOK, TypeOK
  <2>2. status # "GONE" => status' # "GONE"
    BY <2>1, TableTypes DEF BusyStatuses
  <2> QED
    BY <1>2, <2>2 DEF Commit
<1>3. ASSUME NEW c \in Calls, HandleReset(c)
      PROVE  rows' = rows /\ (status' = "GONE" => status = "GONE")
  <2>1. op[c] \in Ops
    BY <1>0, <1>3 DEF HandleReset, CallOK, TypeOK
  <2>2. FailureOf[op[c]] # "GONE"
    BY <2>1, TableTypes
  <2> QED
    BY <1>3, <2>2 DEF HandleReset
<1>4. ASSUME NEW c \in Calls, StoreLesson(c)
      PROVE  \/ rows' = rows /\ status' = status
             \/ status' # "GONE" /\ \E x : rows' = rows \union {x}
  BY <1>4 DEF StoreLesson
<1>5. ASSUME NEW c \in Calls, WorkerStep(c), ~HandleReset(c), ~StoreLesson(c)
      PROVE  rows' = rows /\ (status' = "GONE" => status = "GONE")
  BY <1>5 DEF WorkerStep, Start, Load, PersistIdentity, PersistGoals, PersistSequence, PersistPart,
     PublishOverview, PublishRevision, LoadGoals, CompleteLessons, PublishLesson, Report, HandleReport, Finish
<1>6. CASE RestartWorker
  BY <1>6 DEF RestartWorker
<1>7. CASE DeleteClass
  BY <1>7 DEF DeleteClass
<1>8. CASE UNCHANGED vars
  BY <1>8 DEF vars
<1> QED
  BY <1>1, <1>2, <1>3, <1>4, <1>5, <1>6, <1>7, <1>8 DEF Next, ApiStep, Quiescent

\* Records are written by a job that is outstanding, and that is not afterwards.
LEMMA RecordsStep ==
  ASSUME TypeInv, [Next]_vars
  PROVE  \/ records' = records /\ \A d \in Calls : Outstanding(d)' /\ history' = {} =>
                                       Outstanding(d) \/ records[d] = 0
         \/ \E c \in Calls : /\ Outstanding(c) /\ ~Outstanding(c)'
                            /\ records' = [records EXCEPT ![c] = records[c] + 1]
                            /\ \A d \in Calls \ {c} : Outstanding(d)' => Outstanding(d)
<1>0. TypeOK /\ \A d \in Calls : CallOK(d)
  BY DEF TypeInv, WellFormed
<1> USE DEF Throw, Goto, apiVars, dataVars, snapVars
<1>1. ASSUME NEW c \in Calls, PublishRevision(c) \/ PublishLesson(c), ~Throw(c)
      PROVE  /\ Outstanding(c) /\ ~Outstanding(c)'
             /\ records' = [records EXCEPT ![c] = records[c] + 1]
             /\ \A d \in Calls \ {c} : Outstanding(d)' => Outstanding(d)
  <2>1. /\ job[c] \in {"revise", "revise_lesson"} /\ job' = [job EXCEPT ![c] = "report"] /\ pc' = pc
        /\ records' = [records EXCEPT ![c] = records[c] + 1]
    BY <1>1 DEF PublishRevision, PublishLesson
  <2> QED
    BY <1>0, <2>1 DEF Outstanding, TypeOK, CallOK
<1>2. ASSUME NEW c \in Calls, PublishRevision(c) \/ PublishLesson(c), Throw(c)
      PROVE  records' = records /\ \A d \in Calls : Outstanding(d)' => Outstanding(d)
  BY <1>0, <1>2 DEF PublishRevision, PublishLesson, Outstanding, TypeOK
<1>3. ASSUME NEW c \in Calls,
             (\E o \in Ops : Request(c, o)) \/ ApiStep(c) \/ WorkerStep(c) \/ FaultStep(c),
             ~PublishRevision(c), ~PublishLesson(c)
      PROVE  records' = records
  BY <1>3 DEF Request, ApiStep, Commit, SetTaskState, Enqueue, FaultStep, EnqueueFails, Raise, HandlerFails,
     Cancel, ExpireTask, WorkerStep, Start, Load, PersistIdentity, PersistGoals, PersistSequence, PersistPart,
     PublishOverview, LoadGoals, StoreLesson, CompleteLessons, Report, HandleReport, HandleReset, Finish
<1>4. RestartWorker \/ DeleteClass \/ UNCHANGED vars => records' = records
  BY DEF RestartWorker, DeleteClass, vars
<1>5. Keeps => \A d \in Calls : Outstanding(d)' /\ history' = {} => Outstanding(d)
  BY DEF Keeps
<1>6. ASSUME NEW g \in Calls, GivesBack(g)
      PROVE  \A d \in Calls : Outstanding(d)' => Outstanding(d)
  BY <1>6 DEF GivesBack
<1>7. ASSUME NEW c \in Calls, (\E o \in Ops : Request(c, o)) \/ ApiStep(c)
      PROVE  \A d \in Calls : Outstanding(d)' => Outstanding(d) \/ records[d] = 0
  <2>1. records[c] = 0 /\ \A d \in Calls \ {c} : pc'[d] = pc[d] /\ job'[d] = job[d]
    BY <1>0, <1>7 DEF Request, ApiStep, Commit, SetTaskState, Enqueue, TypeOK, CallOK
  <2> QED
    BY <2>1 DEF Outstanding
<1>8. ASSUME NEW c \in Calls, WorkerStep(c)
      PROVE  \A d \in Calls : Outstanding(d)' /\ history' = {} => Outstanding(d)
  BY <1>5, <1>6, <1>8, WorkerStepKinds
<1>9. ASSUME NEW c \in Calls, FaultStep(c)
      PROVE  \A d \in Calls : Outstanding(d)' /\ history' = {} => Outstanding(d)
  BY <1>5, <1>9, FaultStepKinds
<1>10. RestartWorker \/ DeleteClass \/ UNCHANGED vars =>
         \A d \in Calls : Outstanding(d)' /\ history' = {} => Outstanding(d)
  BY <1>5, EnvironmentKinds
<1>11. ASSUME NEW c \in Calls, PublishRevision(c) \/ PublishLesson(c)
       PROVE  WorkerStep(c)
  BY <1>11 DEF WorkerStep
<1> QED
  BY <1>1, <1>2, <1>3, <1>4, <1>7, <1>8, <1>9, <1>10, <1>11 DEF Next, Quiescent

LEMMA GoneInvAlways == Spec => []GoneInv
<1>1. Init => GoneInv
  BY DEF Init, GoneInv
<1>2. TypeInv /\ GoneInv /\ [Next]_vars => GoneInv'
  BY RowsStep DEF GoneInv
<1>3. Spec => []TypeInv
  BY TypeInvInit, TypeInvNext, PTL DEF Spec
<1> QED
  BY <1>1, <1>2, <1>3, PTL DEF Spec

LEMMA RecordInvAlways == Spec => []RecordInv
<1>1. Init => RecordInv
  BY DEF Init, RecordInv
<1>2. TypeInv /\ RecordInv /\ [Next]_vars => RecordInv'
  <2> SUFFICES ASSUME TypeInv, RecordInv, [Next]_vars, history' = {}
               PROVE  \A d \in Calls : records'[d] \in {0, 1} /\ (Outstanding(d)' => records'[d] = 0)
    BY DEF RecordInv
  <2>1. history = {}
    BY StepKinds DEF Settled
  <2>2. \A d \in Calls : records[d] \in {0, 1} /\ (Outstanding(d) => records[d] = 0)
    BY <2>1 DEF RecordInv
  <2>3. records \in [Calls -> 0..MaxRuns]
    BY DEF TypeInv, TypeOK
  <2> QED
    BY <2>2, <2>3, RecordsStep
<1>3. Spec => []TypeInv
  BY TypeInvInit, TypeInvNext, PTL DEF Spec
<1> QED
  BY <1>1, <1>2, <1>3, PTL DEF Spec

LEMMA FiniteRowsAlways == Spec => []FiniteRows
<1>1. Init => FiniteRows
  BY FS_EmptySet DEF Init, FiniteRows
<1>2. TypeInv /\ FiniteRows /\ [Next]_vars => FiniteRows'
  <2> SUFFICES ASSUME TypeInv, IsFiniteSet(rows), [Next]_vars PROVE IsFiniteSet(rows')
    BY DEF FiniteRows
  <2>1. \/ rows' = {} \/ rows' = rows
        \/ \E x : rows' = rows \union {x}
    BY RowsStep
  <2>2. \A x : IsFiniteSet(rows \union {x})
    BY FS_AddElement
  <2> QED
    BY <2>1, <2>2, FS_EmptySet
<1>3. Spec => []TypeInv
  BY TypeInvInit, TypeInvNext, PTL DEF Spec
<1> QED
  BY <1>1, <1>2, <1>3, PTL DEF Spec

LEMMA ContentInvAlways == Spec => []ContentInv
<1>1. Init => ContentInv
  <2> SUFFICES ASSUME Init PROVE Content
    BY DEF ContentInv
  <2>1. OverviewInv /\ DoneInv
    BY DEF Init, OverviewInv, DoneInv, Ready, Done
  <2>2. \A c \in Calls : CallInv(c)
    BY DEF Init, CallInv, Outstanding
  <2> QED
    BY <2>1, <2>2 DEF Content
<1>2. Spec => []TypeInv
  BY TypeInvInit, TypeInvNext, PTL DEF Spec
<1>3. TypeInv /\ TaskInv /\ SoleOwner /\ ContentInv /\ [Next]_vars => ContentInv'
  BY ContentNext
<1> QED
  BY <1>1, <1>2, <1>3, StatusIsALock, TaskInvAlways, PTL DEF Spec

-----------------------------------------------------------------------------------
\* A plan shown as ready, or past that, has a complete overview, unless calls overlapped: no
\* part of the pipeline alone is ever published.  (tasks.py:140-142, 166-168, 206-208, 264-269)
THEOREM OverviewsAreComplete == Spec => []OverviewComplete
<1>1. ContentInv => OverviewComplete
  BY DEF ContentInv, Content, OverviewInv, OverviewComplete, Ready
<1> QED
  BY <1>1, ContentInvAlways, PTL

\* A recorded revision is in the stored overview and is recorded once, however often its job
\* was started, unless calls overlapped.  (tasks.py:350, 394-419)
THEOREM RevisionsAlwaysKept == Spec => []RevisionsKept
<1>1. ContentInv /\ RecordInv => RevisionsKept
  BY DEF ContentInv, Content, CallInv, RecordInv, RevisionsKept
<1> QED
  BY <1>1, ContentInvAlways, RecordInvAlways, PTL

\* The stored lessons were made from the overview stored beside them, with all its revisions,
\* unless calls overlapped.  (tasks.py:484-488, 575-617)
THEOREM LessonsAlwaysMatch == Spec => []LessonsMatchOverview
<1>1. ContentInv /\ GoneInv => LessonsMatchOverview
  BY DEF ContentInv, Content, OverviewInv, GoneInv, LessonsMatchOverview
<1> QED
  BY <1>1, ContentInvAlways, GoneInvAlways, PTL

\* A completed plan holds every lesson of one answer of the LLM, also when its job was
\* restarted half-way, unless calls overlapped.  (tasks.py:540-632)
THEOREM CompletedPlansAreWhole == Spec => []CompletedHasAllLessons
<1>1. ContentInv => CompletedHasAllLessons
  BY DEF ContentInv, Content, DoneInv, Done, Items, CompletedHasAllLessons
<1> QED
  BY <1>1, ContentInvAlways, PTL

\* As many rows as items: the rows of a call are at least its lessons.
LEMMA RowsForItems ==
  ASSUME TypeOK, IsFiniteSet(rows), NEW c \in Calls, Items(c) = 1..want[c]
  PROVE  Cardinality({r \in rows : r.call = c}) >= want[c]
<1> DEFINE All == {r \in rows : r.call = c}
           Latest == {r \in rows : r.call = c /\ r.run = run[c]}
           item == [r \in Latest |-> r.item]
<1>1. IsFiniteSet(All) /\ Cardinality(All) \in Nat
  BY FS_Subset, FS_CardinalityType
<1>2. /\ IsFiniteSet(Latest) /\ Cardinality(Latest) \in Nat
      /\ Cardinality(Latest) <= Cardinality(All)
  BY <1>1, FS_Subset, FS_CardinalityType
<1>3. item \in Surjection(Latest, Items(c))
  BY DEF Surjection, Items
<1>4. Cardinality(Items(c)) <= Cardinality(Latest)
  BY <1>2, <1>3, FS_Surjection
<1>5. want[c] \in Nat
  BY ConstantsOK DEF TypeOK
<1>6. Cardinality(1..want[c]) = want[c]
  BY <1>5, FS_Interval
<1> QED
  BY <1>1, <1>2, <1>4, <1>5, <1>6

\* A client that reads "completed" finds the result in the database, unless calls overlapped.
\* (tasks.py:264-279, 396-429, 617-642, 801-888)
THEOREM CompletedTasksAreStored == Spec => []CompletedTaskIsStored
<1>1. ASSUME TypeInv, TaskInv, BusyHasOwner, ContentInv, IsFiniteSet(rows),
             NEW c \in Calls, history = {}, task[c] = "completed", status # "GONE"
      PROVE  /\ status # BusyOf[op[c]] \/ \E d \in Calls \ {c} : op[d] = op[c]
             /\ op[c] = "generate_overview" => stage = "final"
             /\ op[c] = "apply_feedback" => c \in edits
             /\ op[c] = "generate_lessons" => Cardinality({r \in rows : r.call = c}) >= want[c]
             /\ op[c] = "apply_lesson_feedback" => records[c] = 1
  <2>1. Published(c)
    BY <1>1 DEF ContentInv, Content, CallInv
  <2>2. TypeOK /\ job[c] \in {"finishing", "done"} /\ pc[c] = "accepted" /\ op[c] \in Ops
    BY <1>1 DEF TypeInv, TypeOK, WellFormed, CallOK, TaskInv
  <2>3. status # BusyOf[op[c]] \/ \E d \in Calls \ {c} : op[d] = op[c]
    <3> SUFFICES ASSUME status = BusyOf[op[c]] PROVE \E d \in Calls \ {c} : op[d] = op[c]
      OBVIOUS
    <3>1. status \in BusyStatuses
      BY <2>2, TableTypes
    <3>2. PICK d \in Calls : op[d] \in Ops /\ status = BusyOf[op[d]] /\ (Outstanding(d) \/ Casualty(d))
      BY <1>1, <3>1 DEF BusyHasOwner
    <3>3. d # c
      BY <2>2, <3>2 DEF Outstanding, Casualty
    <3>4. op[d] = op[c]
      BY <2>2, <3>2 DEF BusyOf
    <3> QED
      BY <3>3, <3>4
  <2> QED
    BY <1>1, <2>1, <2>2, <2>3, RowsForItems DEF Published
<1>2. TypeInv /\ TaskInv /\ BusyHasOwner /\ ContentInv /\ FiniteRows => CompletedTaskIsStored
  BY <1>1 DEF FiniteRows, CompletedTaskIsStored
<1>3. Spec => []TypeInv
  BY TypeInvInit, TypeInvNext, PTL DEF Spec
<1> QED
  BY <1>2, <1>3, TaskInvAlways, BusyRequestsHaveOwners, ContentInvAlways, FiniteRowsAlways, PTL

===================================================================================
