# planwijs in TLA+

planwijs helps teachers plan lessons: a teacher describes a class, a book and the paragraphs to
cover, language models draft an overview of the lesson series and then the lessons, and the
teacher revises both by giving feedback. The program is a FastAPI application (`src/app/routes`),
an ARQ worker that runs the long jobs (`src/app/tasks.py`, `src/app/worker.py`), PostgreSQL, Redis
and an S3-compatible object store. This directory holds TLA+ models of its parts, TLC
configurations that check them on small instances, and proofs for TLAPS.

Code is cited as `file:line`, relative to `src/app/` where no other root is given.

## 1. The system: parts, state, operations

| Part | State it keeps | Operations that change it | What is hard | What makes it correct |
|---|---|---|---|---|
| **Lesson-plan lifecycle**: `routes/lesplan/route.py`, `preparation_todo_routes.py`, `tasks.py`, `task_state.py`, `worker.py` | `lesplan_request.status`, `lesplan_overview`, `learning_goal`, `lesson_plan` and feedback rows in PostgreSQL; `task:<id>` in Redis; arq's queue | four endpoints (generate overview, overview feedback, approve, lesson feedback), four jobs, class deletion | the status is the only lock and is read without one; jobs commit in pieces, are restarted from their first line, cancelled or lost; Redis and PostgreSQL are written one after the other | a busy request always has someone who will free it; one job at a time; what is shown as ready is complete; revisions are neither lost nor applied twice |
| **Lesson content**: `tasks.py` (`apply_lesson_feedback_task`), `preparation_todo_routes.py`, `agents/preparation_agent.py` | `lesson_plan`'s columns, `lesson_objective`, `lesson_objective_goal`, `lesson_preparation_todo` | lesson feedback job, todo endpoints, planned-date endpoint | the job lays an answer over a copy it read before two LLM calls, and reconciles todos the user edits meanwhile; objectives are stored twice | todos are about the lesson as it is; nothing the user finished is lost; column and rows of the objectives agree; due dates follow the planned date |
| **Overview payload**: `agents/lesplan/utils.py`, `pipeline.py`, `routes/lesplan/util.py` | none (pure); the overview row | normalising, repairing and validating what the models return; laying feedback over it | two normalisers with different fallbacks, applied in turn and again on every read; validation only at generation and at approval | every selected paragraph is treated, lessons build on earlier ones; what is stored is what was shown and what is read; a plan is not refused for what a repair could have mended |
| **Folders**: `routes/folders/route.py` | `folder.parent_id`, `file.folder_id` | create, rename, move, delete a folder; move a file | a walk over several queries decides on a move; deletion lists, then writes | folders form a tree; nothing is lost when a folder goes |
| **Files**: `routes/files/route.py`, `integrations/r2_store.py` | `file` rows, objects in the store | upload URL, confirm, upload-failed, delete, update | row and object are changed one after the other, and the client uploads by itself | a file shown as uploaded has its object; no object is forgotten |
| **Organizations**: `routes/organizations/*.py` | `organization`, `organization_membership`, `organization_invite` | create, delete, invite, revoke, accept, decline, add, change role, remove, leave | every endpoint checks in separate queries and writes at the end | one organization per user; an invite lets in whom it names, once; administrators rule their own organization only |
| **Votes, school configuration, subjects of a user**: `services/test_feedback.py`, `routes/school_config/route.py`, `routes/users/route.py` | single rows under unique constraints | toggle, comment, replace | read-then-insert | the constraint refuses a second row; the loser of a race gets an error |
| **Database sessions**: `database.py` | a connection pool | session dependency, retry of reads | a read whose connection dropped is run again | nothing is written twice |
| **Authentication, visibility**: `auth.py`, `routes/auth`, `services/visibility.py` | cookies and tokens (in libraries) | sign in, sign out | - | - |
| **Catalogue scripts**: `scripts/seed_from_sitemap.py`, `fix_paragraphs.py`, `fetch_covers.py` | `method`, `book`, `book_chapter`, `book_chapter_paragraph`, covers in the store, an exported CSV | seed, export and fix, rebuild, fetch covers; plans select paragraphs meanwhile | run by hand on live data, stopped at any await, run again after the site has changed; the input of a repair may be old | a book is made of its own pages; what was seeded stays, once; a plan's paragraphs stay |
| **Classes, classrooms, books: the API**: `services/{classroom,room,book,method,subject}.py` | single rows | create, update, delete | deletion cascades into running jobs | - |
| **Agents and prompts**: `agents/` | none | calls to language models | answers may be anything of the right type | the code copes with every answer |
| **Calendar** | none | read-only view | - | - |
| **Migrations**: `src/alembic/versions` | the schema, and the rows it applies to | 37 upgrades and downgrades, one transaction per command | a statement meets rows or a schema its author did not think of; a downgrade must find what the upgrade left | a command fails only where it must; a downgrade undoes its upgrade; rows keep what they say |
| **Deployment, middleware, logging** | - | - | a deployment restarts the worker | - |

How they interact. An endpoint of the lifecycle commits the busy status, writes the task record
to Redis, then enqueues the job. The worker reads the request and its overview, closes the
session, calls the models, and opens new sessions to persist; it reports progress to the Redis
record, which the browser polls. Deleting a class cascades through the request to everything a
job may be holding. A file is linked to a folder, a class and a plan, and the overview job reads
its text. The scripts write the paragraphs that a plan has selected and its job reads. Folders and
files share `file.folder_id`. Organizations touch nothing but
their three tables; members of one organization may see each other's work through
`services/visibility.py`, which only reads.

## 2. Modules

| Module | What it models |
|---|---|
| `LesplanLifecycle` | one request: its endpoints, its jobs, the Redis records, faults |
| `StatusLock` | what the status of a request promises, with nothing of how it is kept |
| `LesplanLifecycle_proofs` | types, owners of a busy status, the refinement of `StatusLock`; then what a plan contains |
| `LessonRevision`, `LessonRevision_proofs` | one stored lesson under revision jobs, date changes and calls on its todos |
| `OverviewOutline`, `OverviewOutline_proofs` | the outline and goal coverage of one plan: both normalisers, validation, and the steps that apply them |
| `FolderTree`, `FolderTree_proofs` | the folders and files of one user, concurrent moves and deletions |
| `Library` | what the folders promise, with nothing of the queries that bring it about |
| `FileUploads`, `FileUploads_proofs` | rows of files, objects in the store, signed URLs, and the links to folders, classes and plans |
| `OrgMembership`, `OrgMembership_proofs` | organizations, members, invites, concurrent calls |
| `Register` | what they promise: who may do what, and where everyone is |
| `Catalogue`, `Catalogue_proofs` | the catalogue of books, the scripts that fill and repair it, plans that refer to it |
| `Migrations`, `Migrations_proofs` | the chain of schema revisions and the rows they apply to |

Each but the three abstract ones (`StatusLock`, `Library`, `Register`) has an `MC` module with the sets
that TLC uses and one `.cfg` per run (section 3). Those three are instantiated by the modules that
implement them:

    LesplanLifecycle:  Lock == INSTANCE StatusLock WITH phase <- status,
                                holders <- {c \in Calls : Outstanding(c)}, raced <- history # {}
    FolderTree:        Lib == INSTANCE Library WITH raced <- overlap
    OrgMembership:     Reg == INSTANCE Register WITH seats <- Seats, offers <- Offers,
                                served <- Served, raced <- overlap

and `ImplementsStatusLock == Lock!Spec`, `ImplementsLibrary == Lib!Spec`, `ImplementsRegister == Reg!Spec` are
checked and proved. All three promises are conditional in the same way: as long as calls do not
overlap, a call is one step; from the first overlap on less is promised, and each abstract module
says how much in one action, `Race`.

A definition that begins with the comment "Mutant" is a wrong variant of the one after it, used to
confirm that the property it is meant to break does notice; `PROJECT.json` pairs them.
"Observer" variables (`history`, `stale`, `overlap`, `patched`, `seen`, `mishaps`, `seeded`, `repaired`, a
membership's `via`, a todo's `own` and `made`) are not in the program: they remember what a property needs
to speak about. No guard of an action reads them.

### LesplanLifecycle

`status`, `stage`, `edits`, `rows` are the columns and rows of the database; `task` the Redis record; `job`
and `run` arq's job and its `job_try`; `pc` and `op` an HTTP call; `snapStage`, `snapEdits`, `want`, `made`, `held` the
local variables of a job's coroutine. Texts are abstracted to what the properties tell apart: an
overview is how far the pipeline has filled it in and whose revisions it contains, a lesson row is the
run and item it came from, whether it links to a goal, and the revisions its overview had.

`Request`, `Commit`, `SetTaskState`, `Enqueue` are the four steps of each endpoint; `EnqueueFails` is an error of
Redis or the end of the API process in between. The worker's `Start` ... `Report` follow the try block of
the four tasks, one action per transaction: the overview pipeline commits four times, the loop over
the lessons once per lesson. `HandleReport` and `HandleReset` are the two halves of each except clause;
after it, as after a success, arq still has to record the end of the job (`Finish`, `Report`).
`Raise`, `HandlerFails`, `Cancel`, `RestartWorker`, `ExpireTask` and `DeleteClass` are the faults, each switched on
by name in `Faults`. A cancelled coroutine skips the handler because `CancelledError` is no
`Exception`. A restarted worker starts what was running again from its first line, up to arq's
`max_tries`.

Three overlaps break the mutual exclusion the status is meant to give, and `history` records which
has happened: `overtaken` (a call committed although the status had changed since it was read),
`late_failure` (the final Redis update failed after the result was committed, so the handler overwrote
the status) and `replayed` (a worker restart after the job gave its status back, with its last commit or
in its handler, and before arq recorded its end: the job runs again without the status).
`BusyHasOwner` and `TypeOK` hold whatever happens; the other invariants are stated for `history = {}`, which
also means that these three overlaps are the only ways to break them.

### FolderTree

`parent` and `place` are `folder.parent_id` and `file.folder_id`; the rest are the local variables of a call.
Each query of `update_folder` and `delete_folder` is a step, one turn of the walk in
`_check_no_circular_ref` included. Two things the code does not show are modelled because they decide
what can happen: the session flushes pending writes before each query (so a delete writes its
subfolders before it lists its files, `ListFiles`), and PostgreSQL keeps the written rows locked until
the commit (`Locked`, `Free`, `Waits`), which also allows deadlocks (`Deadlock` fails one of those involved). Both
are external, modelled from their use. A write that needs several locks takes them in one step,
and a DELETE with its `ON DELETE SET NULL` is one step. Names, and the response trees, are left out.

In `Library` creating, moving, filing and deleting are single steps on the same `parent` and `place`. A move
asks for `Clear`, that the new parent does not lie under the folder, which is what the walk is meant to
find out. When calls overlap, a folder may come to lie under itself, but nothing is filed in a folder
that is gone, and what is gone stays gone.

### OrgMembership

`live`, `members` and `invites` are the tables, `used` the ids given out, `pc` and `req` a call. An endpoint is its
first query (`Begin...`), its later checks (`CheckInvites`, `CheckMember`, `LoadInvite`, `LoadMember`) and its commit
(`Commit...`), each a step of its own. The commit keeps to what the database enforces: a foreign key
that is gone, a second membership for a user, or an UPDATE that matches no row rolls the call back;
a DELETE that matches no row passes. An invite is for an address, so a user stands for an address.
A call refused by its first query changes nothing and is left out. Slugs and names, with
`update_organization`, are left out.

`Register` has no rows and no ids: `seats` is who is in which organization and as what, `offers` the open
invites, `served` the calls being served, with what they do and who asked. A call is asked (`Ask`), and then
refused or carried out in one step. That step has the authorization in its guard: its author must
rule the organization, be the one invited, or be a platform administrator when it takes effect, not
when it was asked for. When calls overlap somebody may have lost that right, but everyone still
has one seat at most, and nobody goes from one organization to another without leaving the first.

### OverviewOutline

`preview` is the outline that `stream_overview` yields while the teacher notes are being written, `stored` the
overview row (outline, learning goals, goal coverage), `phase` how far the plan is. The steps are the
sequence step of the pipeline (`ProposeOutline`), composition with validation and storage (`Compose`),
an overview revision (`ApplyFeedback`) and the first step of lesson generation (`GenerateLessons`).

Between them stand two repairs of the same outline, written apart: `ForContext`
(`_normalize_lesson_outline_for_context`) for the model's answer, and `Normalised` (`_normalize_lesson_outline`) for
stored data, which runs on every write and every read. They differ in more than defaults: of two
lessons with one number the first counts in one and the last in the other; a lesson without
earlier lessons gets its predecessor in one, and those its text names in the other; a missing
lesson is written anew by one, and by the other with the placeholders of "oudere data" that the
validation refuses. `Valid` is `_validate_overview_for_context`.

A text is a value: properties ask only whether it is empty, a placeholder, or the same as another.
Titles, and the texts made from them, hold no marker phrase of `_is_placeholder_lesson_text` unless they
are themselves in `Placeholders`. One field `detail` stands for `lesson_intention` and `end_understanding`,
and goals with their coverage also for key knowledge, which the code treats alike.

Two things the model makes visible. The normaliser of stored data is not idempotent: a lesson
stored without earlier lessons, because those the model listed do not exist, is read with those
that its text names (`routes/lesplan/util.py:337-340`), so `ReadingIsStable` is stated up to that. And a revision in which
the model returns only the lessons it changed is stored with placeholders for the others; the
teacher sees an overview that is ready, and approving it makes the plan `FAILED`, a status without a
way out. `ApprovalRefusesLittle` says that nothing else does.

### LessonRevision

`lesson` holds the columns (content and planned date), `records` and `linked` the rows of `lesson_objective` and
whether goals link to them, `todos` the rows of `lesson_preparation_todo`, `lock` PostgreSQL's lock on the lesson's
row. Content is what the preparation agent is given: the objectives (a list, something in its place that
can be gone through like one, or something that cannot), the materials and the time sections (which
the prompt and the fallback can read, only the prompt, or neither), and the wording of title and
notes. A title or notes that are no text, and sections that are no list, make a job fail before it has
written anything (`Interrupt`).

A revision is `LoadLesson` (its copy), `AskAgents` (the feedback agent's fields laid over the copy, and new
todos), `FlushLesson` (the UPDATE of the row, which takes the lock, and the list of the todos) and
`CommitRevision`; one that names none of the three fields that trigger new todos (`Triggers`), at most the title
and the notes, is `CommitWording` and leaves the todos as they are. `Fresh` says how many new todos there
can be: none if building the prompt raises, because the task swallows that error; at least one if the
fallback can read the materials; otherwise any number. A change of the planned
date is `LoadDate`, `ListTodos`, `CommitDate`. From the list to the commit the lock keeps these two apart; `CreateTodo`,
`PatchStatus`, `PatchDue` and `DeleteTodo` take no such lock and fall anywhere. `Interrupt` is an exception or a
request that ends. How a driver counts the rows of an UPDATE decides whether a todo
deleted meanwhile fails the commit: `MayRaise` and `MayPass` leave both open.

### FileUploads

`rows`, `objects`, `url` are the table, the store and the signed URLs, `pc`, `req`, `got` the calls. Creating a
file signs a URL, with which the client may `Put` early, late, twice or never. Confirmation reads the
row, extracts text from the object and commits; deletion drops the object, then the row; a relink
reads and writes one link; creating a plan links many files. `Fail` ends a call at any step.
`DeleteTargets` removes folders, classes or plans under all of them. `mishaps` records, per file, what the
code cannot prevent: confirmed without an object (`unsent`), put after confirmation or deletion
(`late`), reported as failed although stored (`abandoned`), a deletion that ended half-way (`cut`).

### Catalogue

`site` is what the publisher shows now, the tables keep deleted rows so that no id is used twice, `csv`
is the export that a repair starts from, which later runs make old, `job` the script that is running.
Each commit of a script is an action, and `Stop` ends a script at any await. `UpsertBook` looks for
the slug alone, as the code does. `FixChapter` and `RebuildBook` are the two commands of `fix_paragraphs.py`,
which delete and insert. Plans select paragraphs (`CheckSelection`, `CreatePlan`) and their job
reads them later (`BuildContext`).

### Migrations

A revision is a pair of sequences of statements (`Create`, `Column`, `Link`, ...); an operator says when
PostgreSQL accepts a statement and what it does to schema and rows. A command runs all its revisions
in one transaction, so a refused statement leaves the database where it was. Rows arrive between
commands: users, events, classes with labels, subjects, and one plan with its goals, which three
revisions rewrite (text, JSON, a table of their own). `RepairByHand` is the change someone must make to
pass revision 0026, two statements that the database must accept. Indexes and columns that no other statement names are left out.

## 3. What TLC checks

| Run | Instance | Distinct states | Shows |
|---|---|---|---|
| `everyfault` | 2 calls, 1 lesson, 2 runs per job, 2 slots, every fault, fairness | 2.3 M | `TypeOK`, `BusyHasOwner`, `OverviewComplete`, `CompletedTaskIsStored`, `ImplementsStatusLock`, `BusyEnds` |
| `restarts` | 3 calls, 2 lessons, 2 runs per job, 2 slots, worker restarts | 13.1 M | `RevisionsKept`, `LessonsMatchOverview`, `CompletedHasAllLessons` |
| `overtaking` | 2 calls, no faults | - | violates `ClaimsFromRequiredStatus` |
| `lesson` | 2 calls at a time, 3 in all, 2 todos, 2 wordings | 3.0 M | `TypeOK`, `ObjectivesInStep`, `TodosFitLesson`, `MaterialsArePrepared`, `DueDatesFollow`, `DoneWorkStays` |
| `objectives` | 1 call | - | violates `ObjectivesCanBeRevised` |
| `overview` | 3 lessons, 6 paragraphs, proposals of up to 3 of 8 lessons | 0.03 M (4.6 M transitions) | `StoredIsComplete`, `ReadingIsStable`, `PreviewIsPublished`, `RefusalsAreFew` |
| `folders` | 3 folders, 1 file, 2 calls, also in every library with a cycle | 0.8 M | `LibraryStands`, `ImplementsLibrary`, `CallsAreAnswered` |
| `uploads` | 1 file, 2 calls, 2 folders, 1 class, 1 plan | 0.9 M | `ListedHasObject`, `OrphansAreExplained`, `ContextIsCurrent`, `LinksStand` |
| `members` | 2 organizations, 2 users, 3 rows, 2 calls at a time | 1.9 M | `TablesStand`, `ImplementsRegister`, `JoinIsRecorded`, `AnswersStand` |
| `scripts` | 3 books of the site, 3 runs of scripts, 1 plan | 4.2 M | `TypeOK`, `SeedingHolds`, `BooksStayApart`, `SelectionsStand`, `RepairsAreWhole` |
| `migrations` | all 37 revisions, up and down, 3 forms of goals | 9,570 | `TypeOK`, `FailuresAreKnown`, `DowngradeUndoesUpgrade`, `KeysActAsDeclared`, `GoalsKeepWords` |
| `fresh_database` | an empty database | - | violates `DeploysFromEmpty` |

Four of these are conjunctions of named parts that belong together: `LibraryStands` is `NothingDangles`
and `TreeUnlessOverlap`; `TablesStand` is `OneMembershipPerUser`, `NoOrphans` and `OnePendingUnlessOverlap`;
`StoredIsComplete` is `OutlineComplete` and `CoverageComplete`; `RefusalsAreFew` is `GenerationRefusesLittle` and
`ApprovalRefusesLittle`. The type invariants of `FolderTree`, `OrgMembership`, `OverviewOutline` and `FileUploads` are
proved (section 5) and not repeated in a run, nor are `DeleteKeepsContents` and `AdminsRuleTheirOwn`, which are
proved too: what they say of a finished call `ImplementsLibrary` and `ImplementsRegister` say as well.

Bounds and why they are enough.
- *Lifecycle.* The longest legal life of a plan needs an overview, one revision, the lessons and a
  lesson revision; three calls are enough for every pair of operations to overlap after the one
  that prepares their status (`restarts`), and with two lessons a restart falls between their commits.
  `everyfault` has two calls and one lesson, which is what every fault at once leaves room for: a call
  that prepares the status and one that uses it, or two that overlap. That a failure of any kind
  between two lessons leaves no plan that looks completed is proved. Two runs per job are a restart.
  Two slots let two jobs run at a time; arq's limit only delays a third, which the interleaving does
  as well. What needs a longer life is proved for any number of calls.
- *Lesson.* Two calls overlap in every way that two can, and a third begins after one of them has
  ended. Two todos are one that is finished and one that is pending, or one that exists and one that
  is generated; generation gives at most one more. One list of objectives is told apart from what
  can be read like a list and from what cannot; one date from none; two wordings are an old and a new
  one. The answers of the agents make each field unreadable or odd, revise the wording alone, or
  repair everything. Three todos were out of TLC's reach; the theorems hold for any number and for all
  answers.
- *Folders.* A cycle through two moves takes two folders; the third lets a move or a deletion of a
  folder in between interfere. Ids are not reused, which is how UUIDs behave. Libraries with a
  cycle come from a first step (`OverlappedBefore`): moves that were made before and overlapped. With two calls
  there would be none left to meet the cycle they have closed.
- *Uploads.* Files meet only in the list of a plan, which is a set of them; one file and two calls
  already give every race of confirming, deleting and relinking. Two contents tell a late upload
  apart, a third yields no text.
- *Organizations.* A race needs two calls, an answer to the wrong organization two organizations. Three
  rows allow an administrator, an invite and the membership that comes from it. Calls follow one
  another without limit until the ids are used up (`Room` keeps one for each call under way).
- *Overview.* Three lessons are the fewest with a lesson that has two earlier ones; twice as many
  paragraphs make the dealing out go round; proposals range from none to as many lessons as the
  series, with every order and repetition of eight kinds of lesson. Revisions use the same kinds,
  each at most once, without the lesson beyond the series; goals and coverage change together or
  apart. All of this is bounded only for TLC: the theorems hold for proposals of any length.
- *Scripts.* Two books of the site share a slug and a third does not; its page may grow by a chapter.
  Three runs are a seeding, an export or a second seeding, and a repair that comes too late. Three
  chapter rows and two paragraph rows let a chapter be replaced once.
- *Migrations.* The chain itself is complete. Two subjects of the school's own beside the 22 inserted
  are what 0006 trips over; the three forms of goals hold bullets, numbers, blank lines, and lists.

Fairness. `BusyEnds` and `CallsAreAnswered` assume weak fairness of a call's or a job's own next step:
handlers and coroutines run to their end unless a fault takes them, and arq polls its queue for as
long as it runs. Faults, new requests and new folders are never forced. `BusyEnds` excuses a request whose
call or job was lost, because the code has nothing that finds such a request again: it stays busy.
The other modules have no liveness property and no fairness.

Deadlock is checked wherever the system must not stop short: `everyfault`, `restarts`, `overtaking`, `folders`,
`members` and the runs of `Migrations`. `Quiescent` and `Exhausted` name the states in which
everything has been answered; the migrations never stop, for there is always a command to run. It is not checked in `overview`, `lesson`, `objectives`, `uploads` and `scripts`, where the last
call, run or row of the bound may simply be the last.

## 4. Where the code and what it says differ

1. `overtaking`: `routes/lesplan/route.py:184` reads the status without a lock. Two calls can both
   start an overview, the second from `GENERATING_OVERVIEW`, although line 186 says it "can only be
   generated from PENDING status".
2. `fresh_database`: `src/alembic/versions/0026_add_status_for_files.py:27` adds a column that 0025 has already
   added, so an empty database cannot be brought to the newest revision by `src/deploy.sh:117`.
3. `objectives`: `tasks.py:819` deletes an objective whose links to goals make SQLAlchemy blank a NOT NULL
   column first (`models/lesson_objective.py:26`). A revision that names the objectives of a linked lesson
   is lost, although `tasks.py:811` says it syncs them.

The models also show the following, which no document, comment or test of the repository denies.
The properties state exactly these exceptions:
- Two overlapping moves close a cycle of folders, which then are in no root listing (`TreeUnlessOverlap`).
- Two overlapping invitations of one address are both stored (`OnePendingUnlessOverlap`).
- A lessons job that arq runs again stores its lessons beside those of the first run
  (`CompletedHasAllLessons` counts one run's only).
- A request whose call or job was lost between two commits stays busy: nothing finds it again
  (`BusyHasOwner`, `BusyEnds`).
- The normaliser of stored data is not idempotent, and a revision that returns only the lessons it
  changed is stored with placeholders that approval refuses (`ReadingIsStable`, `ApprovalRefusesLittle`).
- A revision of the title or the notes alone keeps the todos that were made from the old ones, and
  does not mark them (`tasks.py:668`, `TodosFitLesson`). A lesson revised into something that cannot be put
  into the prompt loses its pending todos and gets none (`tasks.py:773-779`, `MaterialsArePrepared`).
- A job whose worker is restarted between the handler's reset and arq's own record of its end runs
  again and may take a plan that is shown as failed to a new status (`history`, `StatusLock`).
- Books of the site whose URLs end alike share one book (`BooksStayApart`), and a plan fails for good when
  `fix_paragraphs.py` has replaced paragraphs it selected (`SelectionsStand`).
- The original text recorded with overview feedback is read after the update was laid over it
  (`tasks.py:394`); texts are not in the model.

## 5. What is proved

The proofs hold for every value of the constants that satisfies the named assumptions
(`ConstantsOK`: bounds are positive and faults are known ones; `Sentinels`, `Distinct`: the special values are
not ids; `MaxFreshAssumption`: a generation may give a todo; `CatalogueAssumption`: a page of the site
has finitely many chapters, at least one, with finitely many sections; `MaxSubjectsAssumption`: that
bound is a number; `TextsAssumption`: goals are a finite sequence of lines, each a finite sequence of
tokens). Every property of a passing run is proved, but for liveness and three invariants of
`Migrations`.

- **LesplanLifecycle.** `TypeCorrect` needs more than `TypeOK`: that a job stores no more lessons than it
  was given, and records feedback no more often than it was started, follows from how call, job
  and counters go together (`CallOK`). The invariant `TypeInv` adds that. `BusyRequestsHaveOwners` and
  `StatusIsALock` rest on three lemmas about a step: it claims the status (`Takes`), gives it back, or keeps
  it, for the operation its call asked for; the tables `Accepts`, `BusyOf` and `FailureOf` enter only through
  `TableTypes`: an endpoint accepts and a handler leaves a status that is not busy. The same three
  kinds of step are those of `StatusLock`, so `StatusLockImplemented` follows from `StatusIsALock` and
  from the agreement of the two sets of tables (`TablesAgree`).
- **What a plan contains** (the second half of `LesplanLifecycle_proofs`). What a plan contains is inductive only together with what each job has read
  and stored so far. `ContentInv` says, until calls overlap or the plan is deleted: the overview is
  complete once it is ready, and there are no lessons before that (`OverviewInv`); a job that revises or
  writes lessons holds a copy equal to what is stored, has stored exactly its first `made` lessons in
  this run, and has left its result behind once it reports (`CallInv`, `Published`); a completed plan has
  a job whose lessons are all there (`DoneInv`). It rests on `Sole`: while a job is under way nobody
  else's is, so its copy cannot go stale. Steps that touch none of this go through one lemma
  (`Undisturbed`), those that store something each have their own. What must also hold of a deleted
  plan (`GoneInv`, `RecordInv`) is proved apart. `CompletedTasksAreStored` also counts rows: the items of a
  run are an image of its rows (`RowsForItems`).
- **FolderTree.** `LibraryInv` is `TypeOK`, `NothingDangles`, and two strengthenings: `CallOK` (what a call
  knows at each point) and `LocksHold` (the rows a delete has written stay as they are until it
  commits). Without the locks `NothingDangles` is not inductive: a subfolder could go between the flush
  and the commit. `TreeInv` adds that the lists and the walk of a call that is not stale describe the tree
  as it is (`Current`); then the walk has passed every folder above the new parent, and a set of
  folders without a way out would have to contain the moved folder, the new parent and all
  above it. `DeletesKeepContents` uses the same invariant. `LibraryImplemented` takes the actions one by one: a
  commit whose call is not stale is `Move` or `Delete` of `Library` (`MoveIsClear`: the folders that the tree
  needs above the new parent are the path that `Clear` asks for; `DeletesRehome`: what was listed is all
  there is), a commit that is stale is `Race`. That what is gone stays gone even then (`DeletedStaysDeleted`)
  needs `LocksHold`: the rows that a deletion rewrites when it commits are still there.
- **OrgMembership.** `TablesInv` joins `TypeOK`, `OneMembershipPerUser` and `NoOrphans` with `IdsUsedOnce` (no two rows
  share an id) and `ReqOK` (what a call has been asked by the time it stands where it stands; an
  invite that is being accepted differs from the one that was read in its status only).
  `JoinsAreRecorded` is an action property from the same invariant. `TablesAlwaysStand`, `AdminsRule` and
  `AnswersAlwaysStand` add `ChecksInv`: what an informed call has read still holds while nobody has written
  under it. `RegisterImplemented` needs three things more of the invariant: member ids are unique, a call that
  adds comes from a platform administrator (`ReqOK`), and a call that stands before its commit knows of
  the user what its queries said (`Knows`: no membership for an invite, the loaded one for a change).
  `CommitIsEffect` then says of each of the seven commits that it is the effect of its request, with its
  author's right to it from `AdminsRuleTheirOwn`; `NobodyChangesOver`, for the overlapped ones, says that a
  membership is never rewritten to another organization.
- **FileUploads.** One invariant (`Inv`) speaks of each file and the calls about it: a file that is listed or
  about to be has its object unless a deletion has dropped it or was cut short (`DownloadInv`), an object
  that came back after its deletion was put late (`OrphanInv`), and the text of the row, like the text a
  confirmation holds, is that of the object unless another one was put late (`TextInv`). From it follow `DownloadsWork`, `OrphansExplained` and
  `ContextCurrent`; `LinksOnlyAsAsked` is an action property.
- **LessonRevision.** `TypesHold` needs that only a call that has listed the todos holds the lock (`TypeInv`).
  `RevisionInv` says that as long as no two revisions have overlapped, the one in progress works on the
  lesson as it is stored, and that once it has listed the todos, every one generated before and not
  outdated is in its list, and that the todos are about the lesson as it is, but for a wording revised
  alone since (`About`); `TodosAlwaysFit` and `MaterialsAlwaysPrepared` follow. `DateInv` says the same of changes of the planned date and
  gives `DueDatesAlwaysFollow`. `ObjectivesAgree` and `DoneWorkAlwaysStays` need no such condition.
- **OverviewOutline.** `Known` says of every outline how each of its lessons looks: `Shown` after generation's
  normaliser, `Kept` after the other. Every property follows from lemmas about the two operators:
  what each returns for any list of lessons (`ForContextShows`, `NormalisedIsRow`), and that each leaves
  its own results, and the second those of the first, alone (`ForContextIsStable`, `NormalisedIsRead`,
  `PreviewIsRead`). `SpreadCovers` is the one about arithmetic: the rank of a paragraph among those left,
  modulo the number of lessons, is a lesson. That a set of numbers has a least element
  (`MinIsThere`, `MaxIsThere`) is derived from the well-foundedness of finite subsets. The assumptions are
  about the parameters: sizes are positive (`Sizes`), the repairs' own sentences are no placeholders
  where the code means them not to be (`WrittenTexts`), and answers have the types that pydantic
  enforces (`Proposals`, `Replies`).
- **Catalogue.** `CatalogueInv` has a part for what the tables hold and one for what a script holds in
  memory, because a script is stopped and run again between any two commits. `TypeInv` (with the
  foreign keys, `References`) gives `Types`. `JobInv` says of each script that the book, chapter and rows
  it has in hand are those of the group it works on; with it `Apart` is inductive, that every row, deleted
  ones and the export (`OwnExport`) included, comes from a group with the slug of its book:
  `BooksAreApart`. `DeletedByRepair` says that a dead row is of a repaired book, and `PlansStand` that a failed
  plan selected one: `PlansKeepTheirSelection`. For `SeedingIsKept` three more are needed: nothing is there
  twice (`Distinct`; chapters only in books that were not repaired, which is where an upsert looks
  them up), a seeding under way has filled the chapters it is done with, but for the one that is still
  in the session (`SeedingFills`), and what a seeding has completed stays filled (`SeededFilled`). The lemmas
  on operators say what a sequence of rows holds after an upsert, a repair and a rebuild (`SavedRows`,
  `FixedChapter`, `RebuiltBook`): a set written as a sequence has each of its members once
  (`SetToSeqLists`, from the bijections of finite sets). `RepairsLeaveNoGap` is an action property from the
  same invariant: it needs that a repair replaces with a page that has chapters.

- **Migrations.** `MigrationInv` is `Stands`, of the schema and of the goals, with the number of the revision.
  The schema part (`SchemaOK`) strengthens `TypeOK` in two ways: a null lies in a column that is there and takes
  it, and support labels in use have the one column of their type. Without the second, dropping that type
  when no column uses it could leave labels behind. Three kinds of lemma carry it from a statement to a
  command. `EffectKeepsSchema` and `EffectKeepsGoals`: an accepted statement that is `WellMade` leaves a
  database that stands. `ChainIsWellMade`: the statements of all 37 revisions, up and down, are
  `WellMade`, also where a revision is put together from tables of rules or columns. `RunStands` and
  `CommandStands`: so a revision, and a command of any number of revisions, leaves a database that stands
  or none at all. The last two, and those on goals, are about folds; a fold is shown equal to the last of its
  turns (`FoldTakesTurns`), and about the turns one argues by induction up to n, taken as a least
  counterexample in a set (`UpTo`) because the theorem of the library cannot be instantiated.
  `GoalsAlwaysKeepWords` rests on `ParsedSaysTheSame`: cleaning the lines of goals of bullets, numbers and
  blanks keeps their words, which is an induction over the lines (`WordsOfOneMore`) and one within
  a line (`MarkerIsNotSaid`).

Left to TLC: the liveness properties (`BusyEnds`, `CallsAreAnswered`), which need fairness and ENABLED and
are out of the prover's reach; and `FailuresAreKnown`, `DowngradeUndoesUpgrade` and `KeysActAsDeclared` of
`Migrations`. These depend on the exact schema at each of 38 revisions; a proof would write out each schema and
compute the 74 programs statement by statement, which is what the run does, and of their parameters
only the number of subjects and the goals are not already complete in it.

## 6. What is not modelled

- *In the modelled parts.* A worker transaction is one step. A call enqueues one job, under an id
  of its own. Renaming folders and organizations (`update_organization` included), and text in general,
  is left out. Several workers are the same as one with more slots. Two overview jobs that both
  insert the first overview row: the loser's error is `Raise`. Concept tags, teaching hints, summary
  prose and the rewriting of weak learning goals are left out of `OverviewOutline`: nothing else reads
  them. The titles, levels and years that `seed_from_sitemap.py` asks of a model or `fix_levels.py` takes from
  the slug are left out of `Catalogue` for the same reason.
- *Votes, school configuration, subjects of a user.* A read and an insert or delete of one row
  (`services/test_feedback.py:68`, `routes/school_config/route.py:116`): two clicks can both insert, the unique
  constraint refuses the second, and a model would check the constraint.
- *The retry of reads* (`database.py`). What it repeats is the state of SQLAlchemy's session, of which
  this code keeps nothing.
- *Prompts and the calls to models.* Their answers are nondeterministic inputs where they are used.
- *Authentication, visibility, calendar.* Libraries, or read only.
- *Classes, classrooms, books, methods, subjects: the API.* Operations on single rows; deleting a class
  is an action of `LesplanLifecycle` and `FileUploads`, where others notice it.
- *Deployment, middleware, logging.* I/O; the restart of the worker is an action of `LesplanLifecycle`.

## 7. What could follow

`LesplanLifecycle` and `LessonRevision` meet in the
lesson feedback job, whose commits are one action in the first and several in the second: a
refinement between the two would need the second to carry the status.
