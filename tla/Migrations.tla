-------------------------------- MODULE Migrations --------------------------------
(***************************************************************************)
(* The database schema of src/alembic/versions: 37 revisions in one chain, *)
(* each with an upgrade and a downgrade, run by src/alembic/env.py and by  *)
(* src/deploy.sh against a database that may hold rows.                    *)
(*                                                                         *)
(* A revision is a pair of sequences of statements; a statement says when  *)
(* PostgreSQL accepts it and what it does to the schema and to the rows.   *)
(* One command runs all its revisions in one transaction, so a statement   *)
(* that is refused leaves the database where it was.                       *)
(*                                                                         *)
(* Of the schema are kept: the tables, the foreign keys with their action, *)
(* the enum types, and the columns and unique constraints that have an     *)
(* enum type or that a later statement names.  Indexes come and go with    *)
(* their columns and are left out.  Of the rows is kept what a statement   *)
(* depends on.                                                             *)
(***************************************************************************)
EXTENDS Integers, SequencesExt

CONSTANTS
    Texts,      \* goals that a plan may be written with, a set of Goals records
    MaxSubjects,\* bound: subjects added beside the 22 that a revision inserts
    None,       \* no value
    Broken      \* what a refused statement leaves of a transaction

ASSUME MaxSubjectsAssumption == MaxSubjects \in Nat
ASSUME TextsAssumption == Texts \subseteq [kind : {"text", "json", "list"}, lines : Seq(Seq(STRING))]

VARIABLES
    rev,        \* the number of the last revision applied, alembic_version
    db,         \* the schema and the rows
    failed      \* the revision at which the last command failed, <<direction, number>>

vars == <<rev, db, failed>>

-----------------------------------------------------------------------------------
(***************************************************************************)
(* Statements.  Plain is the type of a column that is not an enum; Standard is *)
(* a constraint name in PostgreSQL's own form, <table>_<column>_fkey.      *)
(***************************************************************************)
Plain == "plain"
Standard == "auto"
Named == "named"

Create(t, cs, fs) ==
    [op |-> "create", on |-> t,
     cols |-> {[on |-> t, col |-> c[1], type |-> c[2], null |-> FALSE] : c \in cs},
     fks |-> {[on |-> t, col |-> f[1], to |-> f[2], act |-> f[3], name |-> Standard] : f \in fs}]
Drop(t) == [op |-> "drop", on |-> t]
DropIfExists(t) == [op |-> "drop if exists", on |-> t]
Column(t, c, type, null) ==
    [op |-> "add", row |-> [on |-> t, col |-> c, type |-> type, null |-> null], default |-> None]
Optional(t, c) == Column(t, c, Plain, TRUE)
Filled(t, c) == Column(t, c, Plain, FALSE)
WithDefault(t, c, type, label) ==
    [op |-> "add", row |-> [on |-> t, col |-> c, type |-> type, null |-> FALSE], default |-> label]
DropColumn(t, c) == [op |-> "drop column", on |-> t, col |-> c]
DropColumnIfExists(t, c) == [op |-> "drop column if exists", on |-> t, col |-> c]
Require(t, c) == [op |-> "require", on |-> t, col |-> c]
Relax(t, c) == [op |-> "relax", on |-> t, col |-> c]
Link(t, c, to, act, name) ==
    [op |-> "link", fk |-> [on |-> t, col |-> c, to |-> to, act |-> act, name |-> name]]
Unlink(t, c, name) == [op |-> "unlink", on |-> t, col |-> c, name |-> name]
UnlinkUnnamed == [op |-> "unlink unnamed"]
Key(t, c, name) == [op |-> "key", key |-> [on |-> t, col |-> c, name |-> name]]
DropKey(t, c, name) == [op |-> "drop key", key |-> [on |-> t, col |-> c, name |-> name]]
NewType(n, labels) == [op |-> "type", type |-> n, labels |-> labels]
EnsureType(n, labels) == [op |-> "type if missing", type |-> n, labels |-> labels]
DropType(n) == [op |-> "drop type", type |-> n]
DropTypeIfExists(n) == [op |-> "drop type if exists", type |-> n]
Rename(n, from, to) == [op |-> "rename", type |-> n, from |-> from, to |-> to]
AddLabel(n, label) == [op |-> "add label", type |-> n, label |-> label]
SyncLabels(n, labels) == [op |-> "sync labels", type |-> n, labels |-> labels]
Fill(t, c) == [op |-> "fill", on |-> t, col |-> c]
FillFrom(t, c, u) == [op |-> "fill from", on |-> t, col |-> c, from |-> u]
ParseGoals == [op |-> "parse goals"]
JoinGoals == [op |-> "join goals"]
ExtractGoals == [op |-> "extract goals"]

(***************************************************************************)
(* Goals: a text (of lines, or one that reads as a JSON list) or a list.   *)
(* A line is a sequence of tokens, of which "-" and "1." are markers.      *)
(***************************************************************************)
Goals(kind, lines) == [kind |-> kind, lines |-> lines]

Unmarked(line) ==
    LET noBullet == IF Len(line) > 1 /\ line[1] = "-" THEN Tail(line) ELSE line IN
        IF Len(noBullet) > 1 /\ noBullet[1] = "1." THEN Tail(noBullet) ELSE noBullet

\* Mutant: a text of several lines gives its first line only.
ParsedFirst(goals) ==
    FoldLeft(LAMBDA found, line :
                IF line = <<>> \/ (goals.kind = "text" /\ found # <<>>) THEN found
                ELSE Append(found, IF goals.kind = "text" THEN Unmarked(line) ELSE line),
             <<>>, goals.lines)

Parsed(goals) ==
    FoldLeft(LAMBDA found, line :
                IF line = <<>> THEN found
                ELSE Append(found, IF goals.kind = "text" THEN Unmarked(line) ELSE line),
             <<>>, goals.lines)

-----------------------------------------------------------------------------------
(***************************************************************************)
(* What the database answers.                                              *)
(***************************************************************************)
HasColumn(d, t, c) == \E x \in d.cols : x.on = t /\ x.col = c
HasNulls(d, t, c) == <<t, c>> \in d.nulls
UsedTypes(d) == {x.type : x \in d.cols}

\* Mutant: nothing is refused but a constraint without a name.
PossibleUnchecked(s, d) == s.op \notin {"unlink unnamed"}

Possible(s, d) ==
    CASE s.op = "create" -> /\ s.on \notin d.tables
                            /\ \A f \in s.fks : f.to \in d.tables \union {s.on}
                            /\ \A c \in s.cols : c.type \in {Plain} \union DOMAIN d.types
      [] s.op = "drop" -> s.on \in d.tables /\ \A f \in d.fks : f.to = s.on => f.on = s.on
      [] s.op = "add" -> /\ s.row.on \in d.tables
                         /\ ~HasColumn(d, s.row.on, s.row.col)
                         /\ s.row.type \in {Plain} \union DOMAIN d.types
                         /\ s.default # None => s.default \in d.types[s.row.type]
      [] s.op \in {"drop column", "relax", "fill", "fill from"} -> HasColumn(d, s.on, s.col)
      [] s.op = "require" -> HasColumn(d, s.on, s.col) /\ ~HasNulls(d, s.on, s.col)
      [] s.op = "link" -> {s.fk.on, s.fk.to} \subseteq d.tables
                            /\ \A f \in d.fks : <<f.on, f.col, f.name>> # <<s.fk.on, s.fk.col, s.fk.name>>
      [] s.op = "unlink" -> \E f \in d.fks : <<f.on, f.col, f.name>> = <<s.on, s.col, s.name>>
      [] s.op = "key" -> s.key.col = "legacy_subject" => d.subjects < 2
      [] s.op = "drop key" -> s.key \in d.keys
      [] s.op = "type" -> s.type \notin DOMAIN d.types
      [] s.op = "drop type" -> s.type \in DOMAIN d.types \ UsedTypes(d)
      [] s.op = "drop type if exists" -> s.type \notin UsedTypes(d)
      [] s.op = "sync labels" -> s.type \in DOMAIN d.types /\ d.support \subseteq s.labels
      [] s.op = "add label" -> s.type \in DOMAIN d.types
      [] s.op = "unlink unnamed" -> FALSE
      [] OTHER -> TRUE

WithoutTable(t, d) ==
    [d EXCEPT !.tables = @ \ {t},
              !.cols = {c \in @ : c.on # t},
              !.fks = {f \in @ : f.on # t /\ f.to # t},
              !.keys = {k \in @ : k.on # t},
              !.nulls = {n \in @ : n[1] # t},
              !.rows = @ \ {t},
              !.support = IF t = "class" THEN {} ELSE @,
              !.subjects = IF t = "subjects" THEN 0 ELSE @,
              !.goals = IF t = "lesplan_overview" THEN None ELSE @,
              !.copies = IF t = "learning_goal" THEN None ELSE @]

WithoutColumn(t, c, d) ==
    [d EXCEPT !.cols = {x \in @ : x.on # t \/ x.col # c},
              !.fks = {f \in @ : f.on # t \/ f.col # c},
              !.keys = {k \in @ : k.on # t \/ k.col # c},
              !.nulls = @ \ {<<t, c>>},
              !.support = IF c = "support_challenge" THEN {} ELSE @]

WithoutType(n, d) == [d EXCEPT !.types = [m \in DOMAIN @ \ {n} |-> @[m]]]

WithType(n, labels, d) ==
    [d EXCEPT !.types = [m \in DOMAIN @ \union {n} |-> IF m = n THEN labels ELSE @[m]]]

Nullable(t, c, null, d) ==
    [d EXCEPT !.cols = {IF x.on = t /\ x.col = c THEN [x EXCEPT !.null = null] ELSE x : x \in @}]

Effect(s, d) ==
    CASE s.op = "create" -> [d EXCEPT !.tables = @ \union {s.on},
                                      !.cols = @ \union s.cols, !.fks = @ \union s.fks]
      [] s.op \in {"drop", "drop if exists"} -> WithoutTable(s.on, d)
      [] s.op = "add" -> [d EXCEPT !.cols = @ \union {s.row},
                                   !.nulls = IF s.row.null /\ s.row.on \in d.rows
                                             THEN @ \union {<<s.row.on, s.row.col>>} ELSE @]
      [] s.op \in {"drop column", "drop column if exists"} -> WithoutColumn(s.on, s.col, d)
      [] s.op = "require" -> Nullable(s.on, s.col, FALSE, d)
      [] s.op = "relax" -> Nullable(s.on, s.col, TRUE, d)
      [] s.op = "link" -> [d EXCEPT !.fks = @ \union {s.fk}]
      [] s.op = "unlink" ->
            [d EXCEPT !.fks = {f \in @ : <<f.on, f.col, f.name>> # <<s.on, s.col, s.name>>}]
      [] s.op = "key" -> [d EXCEPT !.keys = @ \union {s.key}]
      [] s.op = "drop key" -> [d EXCEPT !.keys = @ \ {s.key}]
      [] s.op = "type" -> WithType(s.type, s.labels, d)
      [] s.op = "type if missing" -> IF s.type \in DOMAIN d.types THEN d ELSE WithType(s.type, s.labels, d)
      [] s.op \in {"drop type", "drop type if exists"} -> WithoutType(s.type, d)
      [] s.op = "rename" ->
            IF s.type \in DOMAIN d.types /\ s.from \in d.types[s.type] /\ s.to \notin d.types[s.type]
            THEN WithType(s.type, (d.types[s.type] \ {s.from}) \union {s.to}, d) ELSE d
      [] s.op = "add label" -> WithType(s.type, d.types[s.type] \union {s.label}, d)
      [] s.op = "sync labels" -> WithType(s.type, s.labels, d)
      [] s.op = "fill" -> [d EXCEPT !.nulls = @ \ {<<s.on, s.col>>}]
      [] s.op = "fill from" -> [d EXCEPT !.nulls = IF s.from \in d.rows THEN @ \ {<<s.on, s.col>>} ELSE @]
      [] s.op = "parse goals" ->
            IF d.goals = None THEN d ELSE [d EXCEPT !.goals = Goals("list", Parsed(@))]
      [] s.op = "join goals" ->
            IF d.goals = None THEN d ELSE [d EXCEPT !.goals = Goals("text", Parsed(@))]
      [] s.op = "extract goals" ->
            IF d.goals = None THEN d ELSE [d EXCEPT !.copies = d.goals.lines]

-----------------------------------------------------------------------------------
(***************************************************************************)
(* The revisions.                                                          *)
(***************************************************************************)
R1 == [up |-> <<NewType("subject", {"NEDERLANDS", "UNKNOWN"}), Create("user", {}, {}),
                Create("event", {}, {}), Create("method", {<<"subject", "subject">>}, {}),
                Create("book", {<<"subject", "subject">>}, {<<"method_id", "method", "none">>}),
                Create("book_chapter", {}, {<<"book_id", "book", "none">>}),
                Optional("book_chapter", "toets_url")>>,
       down |-> <<Drop("book_chapter"), Drop("book"), Drop("method"), Drop("event"), Drop("user"),
                  DropType("subject")>>]

R2 == [up |-> <<Create("book_chapter_paragraph", {}, {<<"chapter_id", "book_chapter", "none">>})>>,
       down |-> <<Drop("book_chapter_paragraph")>>]

R3 == [up |-> <<NewType("level", {}), NewType("school_year", {}), NewType("class_difficulty", {}),
                Create("class", {<<"subject", "subject">>, <<"level", "level">>,
                                 <<"school_year", "school_year">>, <<"difficulty", "class_difficulty">>},
                       {<<"user_id", "user", "none">>})>>,
       down |-> <<Drop("class"), DropType("class_difficulty"), DropType("school_year"), DropType("level")>>]

R4 == [up |-> <<Relax("class", "difficulty")>>,
       down |-> <<Fill("class", "difficulty"), Require("class", "difficulty")>>]

R5 == [up |-> <<NewType("subject_category", {}),
                Create("subjects", {<<"category", "subject_category">>, <<"legacy_subject", "subject">>}, {}),
                Key("subjects", "slug", Standard), Key("subjects", "legacy_subject", Standard),
                Optional("book", "subject_id"), Link("book", "subject_id", "subjects", "set null", Named),
                Fill("book", "subject_id")>>,
       down |-> <<Unlink("book", "subject_id", Named), DropColumn("book", "subject_id"),
                  Drop("subjects"), DropType("subject_category")>>]

R6 == [up |-> <<DropColumn("book", "subject"), DropColumn("subjects", "legacy_subject")>>,
       down |-> <<Column("subjects", "legacy_subject", "subject", TRUE), Fill("subjects", "legacy_subject"),
                  Require("subjects", "legacy_subject"), Key("subjects", "legacy_subject", Named),
                  Column("book", "subject", "subject", TRUE), Fill("book", "subject"),
                  Require("book", "subject")>>]

StatusLabels == <<"PENDING", "GENERATING_OVERVIEW", "OVERVIEW_READY", "REVISING_OVERVIEW",
                  "GENERATING_LESSONS", "COMPLETED", "FAILED">>
LowerLabels == <<"pending", "generating_overview", "overview_ready", "revising_overview",
                 "generating_lessons", "completed", "failed">>

OldOverview == {"summary", "pedagogical_rationale", "interactivity_approach", "teaching_structure"}

R7 == [up |-> <<NewType("lesplan_status", ToSet(StatusLabels)),
                Create("lesplan_request", {<<"status", "lesplan_status">>},
                       {<<"user_id", "user", "none">>, <<"class_id", "class", "none">>,
                        <<"book_id", "book", "none">>}),
                Create("lesplan_overview", OldOverview \X {Plain},
                       {<<"request_id", "lesplan_request", "none">>}),
                Key("lesplan_overview", "request_id", Named),
                Create("lesson_plan", {}, {<<"overview_id", "lesplan_overview", "none">>}),
                Create("lesplan_feedback_message", {}, {<<"request_id", "lesplan_request", "none">>})>>,
       down |-> <<Drop("lesplan_feedback_message"), Drop("lesson_plan"), Drop("lesplan_overview"),
                  Drop("lesplan_request"), DropType("lesplan_status")>>]

Renamed(type, from, to) == [i \in DOMAIN from |-> Rename(type, from[i], to[i])]

R8 == [up |-> Renamed("lesplan_status", LowerLabels, StatusLabels),
       down |-> Renamed("lesplan_status", StatusLabels, LowerLabels)]

\* The same statement about each of the columns, in some order.
ForEach(columns, Statement(_)) == [i \in 1..Len(columns) |-> Statement(columns[i])]

OldColumns == <<"summary", "pedagogical_rationale", "interactivity_approach", "teaching_structure">>
NewColumns == <<"learning_goals", "key_knowledge", "recommended_approach", "lesson_outline",
                "didactic_approach">>

Replaced(old, new) ==
    LET T == "lesplan_overview" IN
        ForEach(new, LAMBDA c : Optional(T, c)) \o ForEach(new, LAMBDA c : Fill(T, c))
            \o ForEach(new, LAMBDA c : Require(T, c)) \o ForEach(old, LAMBDA c : DropColumn(T, c))

R9 == [up |-> Replaced(OldColumns, NewColumns), down |-> Replaced(NewColumns, OldColumns)]

R10 == [up |-> <<Optional("lesplan_overview", "learning_progression"),
                 Fill("lesplan_overview", "learning_progression"),
                 Require("lesplan_overview", "learning_progression")>>,
        down |-> <<DropColumn("lesplan_overview", "learning_progression")>>]

R11 == [up |-> <<ParseGoals>>, down |-> <<JoinGoals>>]

\* Mutant: the downgrade leaves the type behind.
R12LeavesType ==
    [up |-> <<NewType("lesson_preparation_status", {"pending", "done"}),
              Create("lesson_preparation_todo", {<<"status", "lesson_preparation_status">>},
                     {<<"lesson_plan_id", "lesson_plan", "none">>})>>,
     down |-> <<Drop("lesson_preparation_todo")>>]

R12 == [up |-> <<NewType("lesson_preparation_status", {"pending", "done"}),
                 Create("lesson_preparation_todo", {<<"status", "lesson_preparation_status">>},
                        {<<"lesson_plan_id", "lesson_plan", "none">>})>>,
        down |-> <<Drop("lesson_preparation_todo"), DropType("lesson_preparation_status")>>]

R13 == [up |-> <<Optional("lesson_plan", "planned_date")>>,
        down |-> <<DropColumn("lesson_plan", "planned_date")>>]

\* Each rule's constraint is dropped and made again with another action.
Relinked(rules) ==
    [i \in 1 .. 2 * Len(rules) |->
        LET r == rules[(i + 1) \div 2] IN
            IF i % 2 = 1 THEN Unlink(r[1], r[2], r[5]) ELSE Link(r[1], r[2], r[3], r[4], r[5])]

NoAction(rules) == [i \in 1..Len(rules) |-> [rules[i] EXCEPT ![4] = "none"]]

CascadeRules == <<
    <<"class", "user_id", "user", "cascade", Standard>>,
    <<"lesplan_request", "user_id", "user", "cascade", Standard>>,
    <<"lesplan_request", "class_id", "class", "cascade", Standard>>,
    <<"lesplan_overview", "request_id", "lesplan_request", "cascade", Standard>>,
    <<"lesson_plan", "overview_id", "lesplan_overview", "cascade", Standard>>,
    <<"lesplan_feedback_message", "request_id", "lesplan_request", "cascade", Standard>>,
    <<"lesson_preparation_todo", "lesson_plan_id", "lesson_plan", "cascade", Standard>>>>

R14 == [up |-> Relinked(CascadeRules), down |-> Relinked(NoAction(Reverse(CascadeRules)))]

R15 == [up |-> <<Optional("lesplan_overview", "series_summary"), Fill("lesplan_overview", "series_summary"),
                 Require("lesplan_overview", "series_summary"), Filled("lesplan_overview", "series_themes"),
                 Filled("lesplan_overview", "goal_coverage"), Filled("lesplan_overview", "knowledge_coverage"),
                 Filled("lesplan_overview", "approval_readiness")>>,
        down |-> ForEach(<<"approval_readiness", "knowledge_coverage", "goal_coverage", "series_themes",
                           "series_summary">>, LAMBDA c : DropColumn("lesplan_overview", c))]

R16 == [up |-> Renamed("lesson_preparation_status", <<"pending", "done">>, <<"PENDING", "DONE">>),
        down |-> Renamed("lesson_preparation_status", <<"PENDING", "DONE">>, <<"pending", "done">>)]

OldSupport == {"Meer ondersteuning", "Gebalanceerd", "Meer uitdaging"}
NewSupport == {"MORE_SUPPORT", "BALANCED", "MORE_CHALLENGE"}

R17 == [up |-> <<EnsureType("class_support_challenge", OldSupport),
                 Optional("class", "attention_span_minutes"),
                 Column("class", "support_challenge", "class_support_challenge", TRUE),
                 Optional("class", "class_notes")>>,
        down |-> <<DropColumn("class", "class_notes"), DropColumn("class", "support_challenge"),
                   DropColumn("class", "attention_span_minutes"), DropTypeIfExists("class_support_challenge")>>]

R18 == [up |-> <<Optional("event", "user_id"), FillFrom("event", "user_id", "user"),
                 Require("event", "user_id"), Link("event", "user_id", "user", "none", Named)>>,
        down |-> <<Unlink("event", "user_id", Named), DropColumn("event", "user_id")>>]

R19 == [up |-> <<Create("classroom", {}, {<<"user_id", "user", "none">>}), Drop("event")>>,
        down |-> <<Create("event", {<<"user_id", Plain>>}, {}), Link("event", "user_id", "user", "none", Named),
                   Drop("classroom")>>]

\* Mutant: the downgrade drops the constraint under a name it does not have.
R20Misnamed ==
    [up |-> <<Optional("lesplan_request", "classroom_id"),
              Link("lesplan_request", "classroom_id", "classroom", "none", Named)>>,
     down |-> <<Unlink("lesplan_request", "classroom_id", Standard),
                DropColumn("lesplan_request", "classroom_id")>>]

R20 == [up |-> <<Optional("lesplan_request", "classroom_id"),
                 Link("lesplan_request", "classroom_id", "classroom", "none", Named)>>,
        down |-> <<Unlink("lesplan_request", "classroom_id", Named),
                   DropColumn("lesplan_request", "classroom_id")>>]

R21 == [up |-> <<DropColumn("lesplan_overview", "approval_readiness")>>,
        down |-> <<Filled("lesplan_overview", "approval_readiness")>>]

R22 == [up |-> <<Filled("class", "name")>>, down |-> <<DropColumn("class", "name")>>]

R23 == [up |-> <<EnsureType("file_bucket", {}),
                 Create("file", {<<"bucket", "file_bucket">>},
                        {<<"user_id", "user", "none">>, <<"lesplan_request_id", "lesplan_request", "none">>})>>,
        down |-> <<Drop("file"), DropTypeIfExists("file_bucket")>>]

R24 == [up |-> <<Create("folder", {}, {<<"user_id", "user", "none">>, <<"parent_id", "folder", "none">>}),
                 Optional("file", "folder_id"), Link("file", "folder_id", "folder", "none", Named)>>,
        down |-> <<Unlink("file", "folder_id", Named), DropColumn("file", "folder_id"), Drop("folder")>>]

AddFileStatus == WithDefault("file", "status", "file_status", "PENDING")

R25 == [up |-> <<EnsureType("file_status", {"PENDING", "UPLOADED", "FAILED"}),
                 Optional("file", "extracted_text"), AddFileStatus>>,
        down |-> <<DropColumn("file", "status"), DropColumn("file", "extracted_text"),
                   DropTypeIfExists("file_status")>>]

R26 == [up |-> <<EnsureType("file_status", {"PENDING", "UPLOADED", "FAILED"}), AddFileStatus>>,
        down |-> <<DropColumn("file", "status"), DropTypeIfExists("file_status")>>]

\* All but that of lesplan_feedback_message, which 0027 drops.
DriftRules == RemoveAt(CascadeRules, 6)

R27 == [up |-> <<Drop("lesplan_feedback_message"), Unlink("book", "subject_id", Named),
                 Link("book", "subject_id", "subjects", "none", Standard), DropColumn("book_chapter", "toets_url")>>
                 \o Relinked(NoAction(DriftRules))
                 \o <<DropKey("lesplan_overview", "request_id", Named), DropKey("subjects", "slug", Standard),
                      SyncLabels("class_support_challenge", NewSupport)>>,
        down |-> <<SyncLabels("class_support_challenge", OldSupport), Key("subjects", "slug", Standard),
                   UnlinkUnnamed>>]

RestoreRules == DriftRules \o <<<<"book", "subject_id", "subjects", "set null", Standard>>>>

\* Mutant: the subject of a book is forgotten.
R28Short == [up |-> Relinked(DriftRules), down |-> Relinked(NoAction(DriftRules))]

R28 == [up |-> Relinked(RestoreRules), down |-> Relinked(NoAction(RestoreRules))]

RemainingRules == <<
    <<"file", "user_id", "user", "cascade", Standard>>,
    <<"folder", "user_id", "user", "cascade", Standard>>,
    <<"classroom", "user_id", "user", "cascade", Standard>>,
    <<"book_chapter", "book_id", "book", "cascade", Standard>>,
    <<"book_chapter_paragraph", "chapter_id", "book_chapter", "cascade", Standard>>,
    <<"file", "lesplan_request_id", "lesplan_request", "set null", Standard>>,
    <<"file", "folder_id", "folder", "set null", Named>>,
    <<"folder", "parent_id", "folder", "set null", Standard>>>>

R29 == [up |-> Relinked(RemainingRules), down |-> Relinked(NoAction(RemainingRules))]

R30 == [up |-> <<Optional("file", "class_id"), Link("file", "class_id", "class", "set null", Standard)>>,
        down |-> <<Unlink("file", "class_id", Standard), DropColumn("file", "class_id")>>]

Resources == <<"class", "classroom", "file", "folder", "lesplan_request">>

R31 == [up |-> <<DropIfExists("organization_invite"), DropIfExists("organization_membership"),
                 DropIfExists("organization"), DropTypeIfExists("invite_status"),
                 DropTypeIfExists("organization_role"), DropTypeIfExists("user_role"),
                 DropColumnIfExists("user", "user_role")>>
                 \o ForEach(Resources, LAMBDA t : DropColumnIfExists(t, "organization_id"))
                 \o <<EnsureType("user_role", {}), EnsureType("organization_role", {}),
                      EnsureType("invite_status", {}), Column("user", "user_role", "user_role", FALSE),
                      Create("organization", {}, {}),
                      Create("organization_membership", {<<"role", "organization_role">>},
                             {<<"user_id", "user", "cascade">>, <<"organization_id", "organization", "cascade">>}),
                      Create("organization_invite",
                             {<<"role", "organization_role">>, <<"status", "invite_status">>},
                             {<<"organization_id", "organization", "cascade">>,
                              <<"invited_by_user_id", "user", "cascade">>})>>
                 \o ForEach(Resources, LAMBDA t : Optional(t, "organization_id"))
                 \o ForEach(Resources, LAMBDA t : Link(t, "organization_id", "organization", "set null", Standard)),
        down |-> ForEach(Resources, LAMBDA t : Unlink(t, "organization_id", Standard))
                 \o ForEach(Resources, LAMBDA t : DropColumn(t, "organization_id"))
                 \o <<Drop("organization_invite"), Drop("organization_membership"), Drop("organization"),
                      DropColumn("user", "user_role"), DropTypeIfExists("invite_status"),
                      DropTypeIfExists("organization_role"), DropTypeIfExists("user_role")>>]

R32 == [up |-> <<EnsureType("feedback_target_type", {}),
                 Create("feedback", {<<"target_type", "feedback_target_type">>},
                        {<<"user_id", "user", "cascade">>, <<"organization_id", "organization", "set null">>})>>,
        down |-> <<Drop("feedback"), DropTypeIfExists("feedback_target_type")>>]

R33 == [up |-> <<EnsureType("test_feedback_type", {}),
                 Create("test_feedback", {<<"type", "test_feedback_type">>}, {<<"user_id", "user", "cascade">>}),
                 Create("test_feedback_vote", {},
                        {<<"user_id", "user", "cascade">>, <<"feedback_id", "test_feedback", "cascade">>}),
                 Create("test_feedback_comment", {},
                        {<<"user_id", "user", "cascade">>, <<"feedback_id", "test_feedback", "cascade">>})>>,
        down |-> <<Drop("test_feedback_comment"), Drop("test_feedback_vote"), Drop("test_feedback"),
                   DropTypeIfExists("test_feedback_type")>>]

R34 == [up |-> <<EnsureType("school_type", {}),
                 Create("school_config", {<<"school_type", "school_type">>},
                        {<<"organization_id", "organization", "cascade">>, <<"user_id", "user", "cascade">>}),
                 Create("user_subject", {},
                        {<<"user_id", "user", "cascade">>, <<"subject_id", "subjects", "cascade">>}),
                 DropColumn("class", "support_challenge"), DropColumn("class", "subject"),
                 DropTypeIfExists("class_support_challenge")>>,
        down |-> <<EnsureType("class_support_challenge", NewSupport),
                   WithDefault("class", "subject", "subject", "Unknown"),
                   Column("class", "support_challenge", "class_support_challenge", TRUE),
                   Drop("user_subject"), Drop("school_config"), DropTypeIfExists("school_type")>>]

R35 == [up |-> <<AddLabel("lesplan_status", "REVISING_LESSON"), Filled("lesson_preparation_todo", "outdated")>>,
        down |-> <<DropColumn("lesson_preparation_todo", "outdated")>>]

R36 == [up |-> <<Create("school_config_method", {},
                        {<<"school_config_id", "school_config", "cascade">>, <<"method_id", "method", "cascade">>})>>,
        down |-> <<Drop("school_config_method")>>]

R37 == [up |-> <<Create("learning_goal", {}, {<<"overview_id", "lesplan_overview", "cascade">>}),
                 Create("lesson_objective", {}, {<<"lesson_plan_id", "lesson_plan", "cascade">>}),
                 Create("lesson_objective_goal", {},
                        {<<"lesson_objective_id", "lesson_objective", "cascade">>,
                         <<"learning_goal_id", "learning_goal", "cascade">>}),
                 ExtractGoals>>,
        down |-> <<Drop("lesson_objective_goal"), Drop("lesson_objective"), Drop("learning_goal")>>]

Chain == <<R1, R2, R3, R4, R5, R6, R7, R8, R9, R10, R11, R12, R13, R14, R15, R16, R17, R18, R19, R20,
           R21, R22, R23, R24, R25, R26, R27, R28, R29, R30, R31, R32, R33, R34, R35, R36, R37>>
Newest == Len(Chain)

-----------------------------------------------------------------------------------
(***************************************************************************)
(* Commands.                                                               *)
(***************************************************************************)
\* The database after the statements, or Broken when one of them is refused.
Run(statements, d) ==
    FoldLeft(LAMBDA e, s : IF e # Broken /\ Possible(s, e) THEN Effect(s, e) ELSE Broken, d, statements)

\* A command stands before its next revision, with the database as its transaction
\* sees it, or with the revision at which it failed.
Started(d) == [db |-> d, failed |-> None]

StepOf(direction, number, run) ==
    IF run.db = Broken THEN run
    ELSE LET after == Run(Chain[number][direction], run.db) IN
            [db |-> after, failed |-> IF after = Broken THEN <<direction, number>> ELSE None]

Command(direction, numbers, d) ==
    FoldLeft(LAMBDA run, number : StepOf(direction, number, run), Started(d), numbers)

\* One transaction around all the revisions of a command.
Transaction(direction, numbers, to) ==
    LET run == Command(direction, numbers, db) IN
        /\ failed' = run.failed
        /\ IF run.db = Broken THEN UNCHANGED <<rev, db>> ELSE rev' = to /\ db' = run.db

Upgrade(to) ==
    /\ rev < to
    /\ Transaction("up", [i \in 1..(to - rev) |-> rev + i], to)

Downgrade ==
    /\ rev > 0
    /\ Transaction("down", <<rev>>, rev - 1)

-----------------------------------------------------------------------------------
(***************************************************************************)
(* Rows that the programs of the time, or a script, leave in the tables.   *)
(***************************************************************************)
Wrote(d) == db' = d /\ UNCHANGED rev /\ failed' = None

AddUser ==
    /\ "user" \in db.tables \ db.rows
    /\ Wrote([db EXCEPT !.rows = @ \union {"user"}])

AddEvent ==
    /\ "event" \in db.tables \ db.rows
    /\ HasColumn(db, "event", "user_id") => "user" \in db.rows
    /\ Wrote([db EXCEPT !.rows = @ \union {"event"}])

\* A class with or without a difficulty and with or without a support label.
AddClass(withDifficulty, labels) ==
    /\ "class" \in db.tables \ db.rows /\ "user" \in db.rows
    /\ withDifficulty \/ \E x \in db.cols : x.on = "class" /\ x.col = "difficulty" /\ x.null
    /\ labels # {} => HasColumn(db, "class", "support_challenge")
                        /\ labels \subseteq db.types["class_support_challenge"]
    /\ Wrote([db EXCEPT !.rows = @ \union {"class"}, !.support = labels,
                        !.nulls = IF withDifficulty THEN @ ELSE @ \union {<<"class", "difficulty">>}])

AddSubject ==
    /\ "subjects" \in db.tables /\ ~HasColumn(db, "subjects", "legacy_subject")
    /\ db.subjects < MaxSubjects
    /\ Wrote([db EXCEPT !.subjects = @ + 1])

\* A text until 0011 makes the column a list, and rows of its own since 0037.
AddPlan(goals) ==
    /\ "lesplan_overview" \in db.tables /\ db.goals = None
    /\ IF rev < 11 THEN goals.kind # "list" ELSE goals.kind = "list"
    /\ Wrote([db EXCEPT !.rows = @ \union {"lesplan_overview"}, !.goals = goals,
                        !.copies = IF "learning_goal" \in db.tables THEN goals.lines ELSE None])

\* What an operator does by hand to a database that 0026 refuses to upgrade.
RepairByHand ==
    /\ rev = 25 /\ failed = <<"up", 26>>
    /\ LET repaired == Run(<<DropColumn("file", "status"), DropType("file_status")>>, db) IN
            repaired # Broken /\ Wrote(repaired)

-----------------------------------------------------------------------------------
Empty == [tables |-> {}, cols |-> {}, fks |-> {}, keys |-> {}, types |-> [n \in {} |-> {}],
          rows |-> {}, nulls |-> {}, support |-> {}, subjects |-> 0, goals |-> None, copies |-> None]

Init == rev = 0 /\ db = Empty /\ failed = None

Next ==
    \/ \E to \in {rev + 1, Newest} : to \in 1..Newest /\ Upgrade(to)
    \/ Downgrade
    \/ AddUser
    \/ AddEvent
    \/ \E withDifficulty \in BOOLEAN, labels \in {{}, {"Gebalanceerd"}, {"BALANCED"}} :
            AddClass(withDifficulty, labels)
    \/ AddSubject
    \/ \E goals \in Texts : AddPlan(goals)
    \/ RepairByHand

Spec == Init /\ [][Next]_vars

-----------------------------------------------------------------------------------
(***************************************************************************)
(* Properties.                                                             *)
(***************************************************************************)
\* The schema stays one that PostgreSQL can hold and the rows stay rows it accepts:
\* foreign keys and columns belong to tables that are there, enum columns to types
\* that are there, no required column holds a null, no support label is held that its
\* type does not know (every revision of src/alembic/versions).
TypeOK ==
    /\ rev \in 0..Newest
    /\ failed = None \/ failed \in {"up", "down"} \X (1..Newest)
    /\ \A f \in db.fks : {f.on, f.to} \subseteq db.tables
    /\ \A x \in db.cols : x.on \in db.tables /\ x.type \in {Plain} \union DOMAIN db.types
    /\ \A x, y \in db.cols : x.on = y.on /\ x.col = y.col => x = y
    /\ \A x \in db.cols : ~x.null => ~HasNulls(db, x.on, x.col)
    /\ db.rows \subseteq db.tables
    /\ db.support # {} => db.support \subseteq db.types["class_support_challenge"]
    /\ db.subjects \in 0..MaxSubjects

\* A command fails in these cases and in no other: upgrades of a database with events
\* and no users (0018:25-33), with the status column that 0025 has already added
\* (0026:27), or with support labels in use (0027:53-59); downgrades with two subjects
\* of the school's own (0006:76), of a repaired database (0025:40), and of 0027 (drops
\* a constraint without a name) and 0034 (a default its type does not know), always.
FailuresAreKnown ==
    LET hasStatus == HasColumn(db, "file", "status") IN
    failed # None =>
        \/ failed = <<"up", 18>> /\ "event" \in db.rows /\ "user" \notin db.rows
        \/ failed = <<"up", 26>> /\ (rev = 25 => hasStatus)
        \/ failed = <<"up", 27>> /\ db.support # {} /\ db.support \subseteq OldSupport
        \/ failed = <<"down", 6>> /\ db.subjects >= 2
        \/ failed = <<"down", 25>> /\ ~hasStatus
        \/ failed \in {<<"down", 27>>, <<"down", 34>>}

\* The part of a schema that a revision and its downgrade give back: 0008 does not know
\* which spelling it found, 0035 keeps the label it added (PostgreSQL cannot remove one),
\* and 0006 gives the constraint on legacy_subject another name.
Shape(d, number) ==
    [tables |-> d.tables, cols |-> d.cols, fks |-> d.fks,
     keys |-> IF number = 6 THEN {<<k.on, k.col>> : k \in d.keys} ELSE d.keys,
     types |-> [n \in DOMAIN d.types |->
                    IF n = "lesplan_status" /\ number \in {8, 35} THEN {} ELSE d.types[n]]]

\* A downgrade undoes the upgrade before it: wherever the next revision and then its
\* downgrade can run, the schema is what it was (upgrade and downgrade of every file).
DowngradeUndoesUpgrade ==
    rev < Newest =>
        LET number == rev + 1
            after == Command("up", <<number>>, db)
            back == Command("down", <<number>>, after.db)
        IN  after.failed = None /\ back.db # Broken => Shape(back.db, number) = Shape(db, number)

\* The foreign keys as src/app/models declare them, and what deleting the row they point
\* at is declared to do.
DeclaredCascades ==
    [on : {"class", "lesplan_request", "file", "folder", "classroom", "organization_membership",
           "feedback", "test_feedback", "test_feedback_vote", "test_feedback_comment",
           "school_config", "user_subject"}, col : {"user_id"}]
    \union {[on |-> p[1], col |-> p[2]] : p \in {
        <<"book_chapter", "book_id">>, <<"book_chapter_paragraph", "chapter_id">>,
        <<"lesplan_request", "class_id">>, <<"lesplan_request", "book_id">>,
        <<"lesplan_request", "classroom_id">>, <<"lesplan_overview", "request_id">>,
        <<"lesson_plan", "overview_id">>, <<"lesson_preparation_todo", "lesson_plan_id">>,
        <<"learning_goal", "overview_id">>, <<"lesson_objective", "lesson_plan_id">>,
        <<"lesson_objective_goal", "lesson_objective_id">>, <<"lesson_objective_goal", "learning_goal_id">>,
        <<"organization_membership", "organization_id">>, <<"organization_invite", "organization_id">>,
        <<"organization_invite", "invited_by_user_id">>, <<"test_feedback_vote", "feedback_id">>,
        <<"test_feedback_comment", "feedback_id">>, <<"school_config", "organization_id">>,
        <<"school_config_method", "school_config_id">>, <<"school_config_method", "method_id">>,
        <<"user_subject", "subject_id">>}}
DeclaredSetNull ==
    {[on |-> p[1], col |-> p[2]] : p \in {
        <<"book", "method_id">>, <<"book", "subject_id">>, <<"file", "lesplan_request_id">>,
        <<"file", "folder_id">>, <<"file", "class_id">>, <<"folder", "parent_id">>,
        <<"feedback", "organization_id">>}}
    \union [on : ToSet(Resources), col : {"organization_id"}]

\* What 0028 and 0029, which set the actions that were missing, leave out.
Forgotten ==
    {[on |-> p[1], col |-> p[2]] : p \in {
        <<"book", "method_id">>, <<"lesplan_request", "book_id">>, <<"lesplan_request", "classroom_id">>}}

\* At the newest revision every foreign key acts as the models declare it, but for three
\* that have no action: deleting a method, a book or a classroom that is in use is
\* refused (0001:85, 0007:52, 0020:24-28; models/book.py:62, models/lesplan.py:22-26).
KeysActAsDeclared ==
    LET Keys(act) == {[on |-> f.on, col |-> f.col] : f \in {g \in db.fks : g.act = act}} IN
    rev = Newest => /\ Keys("cascade") = DeclaredCascades \ Forgotten
                    /\ Keys("set null") = DeclaredSetNull \ Forgotten
                    /\ Keys("none") = Forgotten

\* The words of lines, markers left out, after those said before.
Said(before, line) ==
    FoldLeft(LAMBDA words, token : IF token \in {"-", "1."} THEN words ELSE Append(words, token),
             before, line)
Words(lines) == FoldLeft(Said, <<>>, lines)

\* The goals of a plan keep their words in their order through every command that keeps
\* the plan, whatever form they are stored in, and the rows that 0037 makes of them say
\* the same (0009:31-40, 0011:33-151, 0037:89-102).
GoalsKeepWords ==
    [][db.goals # None /\ db'.goals # None =>
        /\ Words(db'.goals.lines) = Words(db.goals.lines)
        /\ db'.copies # None => Words(db'.copies) = Words(db.goals.lines)]_vars

\* src/deploy.sh:115-117 runs the migrations of a deployment on the database it finds;
\* on an empty one "alembic upgrade head" gets to the newest revision.
DeploysFromEmpty == rev = 0 /\ db.rows = {} => failed = None
===================================================================================
