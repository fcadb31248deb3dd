---------------------------- MODULE OverviewOutline ----------------------------
(***************************************************************************)
(* The overview of one plan, from the outline a language model proposes to *)
(* the lessons written from it.  Generation repairs the proposal twice and *)
(* validates it; what is stored is repaired again by a second normaliser,  *)
(* written for stored data, which also repairs it on every read.  Feedback *)
(* replaces fields of the stored overview and is not validated until the   *)
(* overview is approved, when a refusal fails the plan for good.           *)
(*                                                                         *)
(* A text is a value: what matters is whether it is empty, whether it      *)
(* reads as a placeholder and whether two are the same.  "detail" stands   *)
(* for lesson_intention and for end_understanding, which are treated       *)
(* alike; learning goals and their coverage also stand for key knowledge.  *)
(***************************************************************************)
EXTENDS Integers, Sequences, FiniteSetsExt

CONSTANTS
    NumLessons,    \* request.num_lessons
    NumParagraphs, \* how many paragraphs were selected
    Title,         \* the title of each
    Texts,         \* texts of the book, the model and the repairs
    Placeholders,  \* those that _is_placeholder_lesson_text recognises
    Outlines,      \* the lists of lessons the model may propose
    Goals,         \* learning goals the model may write
    Matches,       \* the lessons that may match a goal
    Patches,       \* the fields the model may return on feedback
    NoText,        \* an empty builds_on
    None           \* no overview yet

Lessons == 1..NumLessons
Paragraphs == 0..(NumParagraphs - 1)

\* What the repairs write themselves.
Written == [empty |-> "", numbered |-> "Les n", missing |-> "Samenvatting ontbreekt",
            unavailable |-> "niet beschikbaar", joined |-> "titel en titel", description |-> "Leerlingen onderzoeken",
            detail |-> "Leerlingen kunnen"]
Content == Texts \ {Written.detail}  \* nobody else writes that sentence
DefaultGoal == "Leerlingen begrijpen de kern"

\* A lesson as the model proposes it: any field may be empty or out of range.
RawLesson == [number : Int, focus : Content, description : Content, detail : Texts,
              buildsOn : {NoText} \union SUBSET Nat, after : SUBSET Int,
              paragraphs : SUBSET Int]

ASSUME Sizes == NumLessons \in Nat \ {0} /\ NumParagraphs \in Nat \ {0}
ASSUME BookTitles == Title \in [Paragraphs -> Content \ {""}]
ASSUME WrittenTexts ==
    /\ \A kind \in DOMAIN Written : Written[kind] \in Texts
    /\ Placeholders \subseteq Texts
    /\ {"", Written.numbered, Written.missing, Written.unavailable} \subseteq Placeholders
    /\ Written.joined \notin Placeholders
    /\ Written.description \notin Placeholders /\ Written.detail \notin Placeholders
ASSUME NoTextIsNoSet == \A S \in SUBSET (0..NumLessons) : S # NoText
ASSUME Proposals == Outlines \subseteq Seq(RawLesson)
ASSUME GoalsAndMatches ==
    /\ Goals # {}
    /\ \A match \in Matches : match # {} /\ match \subseteq Lessons
ASSUME Replies ==
    \A patch \in Patches :
        /\ DOMAIN patch \subseteq {"outline", "goals", "cover"}
        /\ "outline" \in DOMAIN patch => patch.outline \in Outlines
        /\ "goals" \in DOMAIN patch => patch.goals \subseteq Goals
        /\ "cover" \in DOMAIN patch =>
             DOMAIN patch.cover \subseteq Goals
             /\ \A g \in DOMAIN patch.cover : patch.cover[g] \subseteq Int

VARIABLES
    phase,    \* how far the plan is
    preview,  \* the outline shown while the teacher notes are written
    stored,   \* the overview row
    patched   \* how the last revision of the outline was written (observer)

vars == <<phase, preview, stored, patched>>

----------------------------------------------------------------------------
(* Helpers of both normalisers *)

Placeholder(text) == text \in Placeholders

Or(text, default) == IF text = "" THEN default ELSE text

\* A lesson without a usable number gets that of its place in the list.
NumberAt(raw, i) == IF raw[i].number > 0 THEN raw[i].number ELSE i

Places(raw, n) == {i \in DOMAIN raw : NumberAt(raw, i) = n}

Named(buildsOn) == IF buildsOn = NoText THEN {} ELSE buildsOn

Earlier(n) == 1..(n - 1)

\* The paragraph of a lesson that has none: its own place, or the last one.
UsualParagraph(n) == IF n <= NumParagraphs THEN n - 1 ELSE NumParagraphs - 1

OwnParagraphs(given, n) ==
    IF given \intersect Paragraphs = {} THEN {UsualParagraph(n)}
    ELSE given \intersect Paragraphs

Uncovered(outline) == Paragraphs \ UNION {outline[n].paragraphs : n \in Lessons}

\* The paragraphs nobody covers are dealt out over the lessons in turn.
Rank(p, S) == Cardinality({q \in S : q < p})
\* Mutant: they are dealt out in one round.
DealtOnce(n, S) == {p \in S : Rank(p, S) = n - 1}

Dealt(n, S) == {p \in S : Rank(p, S) % NumLessons = n - 1}
Spread(outline) ==
    [n \in Lessons |-> [outline[n] EXCEPT !.paragraphs =
                            @ \union Dealt(n, Uncovered(outline))]]

----------------------------------------------------------------------------
(* The normaliser of generation: _normalize_lesson_outline_for_context *)

Blank(n) == [number |-> n, focus |-> "", description |-> "", detail |-> "",
             buildsOn |-> NoText, after |-> {}, paragraphs |-> {}]

\* Of two lessons with one number the first counts.
FirstOf(raw, n) == IF Places(raw, n) = {} THEN Blank(n) ELSE raw[Min(Places(raw, n))]

Drafted(item, n) ==
    LET earlier == item.after \intersect Earlier(n)
        after == IF earlier = {} THEN Earlier(n) \intersect {n - 1} ELSE earlier
    IN  [number |-> n,
         focus |-> Or(item.focus, Written.numbered),
         description |-> item.description,
         detail |-> Or(item.detail, item.description),
         buildsOn |-> IF item.buildsOn # NoText THEN item.buildsOn
                      ELSE IF n = 1 THEN {} ELSE {Max(after)},
         after |-> after,
         paragraphs |-> OwnParagraphs(item.paragraphs, n)]

\* A single paragraph lends its title; two or more, the first two titles.
Topic(paragraphs) ==
    IF \E p \in Paragraphs : paragraphs = {p}
    THEN Title[CHOOSE p \in Paragraphs : paragraphs = {p}]
    ELSE Written.joined

\* Mutant: a detail that repeats the description is kept.
RepeatedDetail(detail, description) == IF Placeholder(detail) THEN Written.detail ELSE detail

OwnDetail(detail, description) ==
    IF Placeholder(detail) \/ detail = description THEN Written.detail ELSE detail

Enriched(lesson) ==
    LET description == IF Placeholder(lesson.description) THEN Written.description
                       ELSE lesson.description
    IN  [lesson EXCEPT
            !.focus = IF Placeholder(@) THEN Topic(lesson.paragraphs) ELSE @,
            !.description = description,
            !.detail = OwnDetail(@, description)]

ForContext(raw) ==
    LET drafted == [n \in Lessons |-> Drafted(FirstOf(raw, n), n)]
        covered == Spread(drafted)
    IN  [n \in Lessons |-> Enriched(covered[n])]

----------------------------------------------------------------------------
(* The normaliser of stored overviews: _normalize_overview_payload *)

RestoredFocus(item) == Or(item.focus, Written.numbered)
RestoredDescription(item) == Or(item.description, RestoredFocus(item))

\* Mutant: the detail falls back to the description before its own repair.
RestoredDetailFirst(item) == Or(item.detail, item.description)

RestoredDetail(item) == Or(item.detail, RestoredDescription(item))

\* Mutant: the lessons named in the text are always added.
RestoredAfterAll(item, n) == (item.after \union Named(item.buildsOn)) \intersect Earlier(n)

RestoredAfter(item, n) ==
    (IF item.after = {} THEN Named(item.buildsOn) ELSE item.after) \intersect Earlier(n)

RestoredBuildsOn(item, n) == item.buildsOn

Restored(item, n) ==
    [number |-> n,
     focus |-> RestoredFocus(item),
     description |-> RestoredDescription(item),
     detail |-> RestoredDetail(item),
     buildsOn |-> RestoredBuildsOn(item, n),
     after |-> RestoredAfter(item, n),
     paragraphs |-> OwnParagraphs(item.paragraphs, n)]

\* A lesson the list does not have, "fallback for older data".
Missing(n) ==
    [number |-> n,
     focus |-> Written.numbered,
     description |-> Written.missing,
     detail |-> Written.unavailable,
     buildsOn |-> Earlier(n) \intersect {n - 1},
     after |-> Earlier(n) \intersect {n - 1},
     paragraphs |-> {UsualParagraph(n)}]

\* Of two lessons with one number the last counts.
Normalised(raw) ==
    Spread([n \in Lessons |->
              IF Places(raw, n) = {} THEN Missing(n)
              ELSE Restored(raw[Max(Places(raw, n))], n)])

NormalisedGoals(goals) == IF goals = {} THEN {DefaultGoal} ELSE goals

\* Goals without coverage get the first lesson; unknown goals lose theirs.
NormalisedCover(cover, goals) ==
    [g \in goals |->
        LET known == IF g \in DOMAIN cover THEN cover[g] \intersect Lessons ELSE {}
        IN  IF known = {} THEN {1} ELSE known]

NormalisedPayload(payload) ==
    LET goals == NormalisedGoals(payload.goals)
    IN  [outline |-> Normalised(payload.outline),
         goals |-> goals,
         cover |-> NormalisedCover(payload.cover, goals)]

----------------------------------------------------------------------------
(* _validate_overview_for_context *)

ValidLesson(lesson, n) ==
    /\ lesson.number = n
    /\ ~Placeholder(lesson.focus) /\ ~Placeholder(lesson.description)
    /\ lesson.detail # lesson.description
    /\ lesson.after \subseteq Earlier(n)
    /\ \A named \in Named(lesson.buildsOn) : named < n
    /\ lesson.paragraphs \subseteq Paragraphs

Valid(payload) ==
    /\ \A n \in Lessons : ValidLesson(payload.outline[n], n)
    /\ Uncovered(payload.outline) = {}
    /\ payload.goals # {} /\ DOMAIN payload.cover = payload.goals
    /\ \A g \in payload.goals :
          payload.cover[g] # {} /\ payload.cover[g] \subseteq Lessons

----------------------------------------------------------------------------
(* The steps *)

Init ==
    /\ phase = "sequence" /\ preview = None /\ stored = None
    /\ patched = "never"

\* The model proposes the outline, which is repaired and shown.
ProposeOutline(raw) ==
    /\ phase = "sequence"
    /\ preview' = ForContext(raw)
    /\ phase' = "composing"
    /\ UNCHANGED <<stored, patched>>

\* _max_learning_goals
MaxGoals == IF NumLessons <= 2 THEN 2 ELSE IF NumLessons <= 5 THEN 3
            ELSE IF NumLessons <= 10 THEN 5 ELSE 8

\* The overview is composed, which repairs the outline once more, and
\* validated; then it is stored, or the plan fails.
Compose(goals, cover) ==
    LET overview == [outline |-> ForContext(preview), goals |-> goals, cover |-> cover]
    IN  /\ phase = "composing"
        /\ goals # {} /\ Cardinality(goals) <= MaxGoals
        /\ IF Valid(overview)
           THEN phase' = "ready" /\ stored' = NormalisedPayload(overview)
           ELSE phase' = "failed" /\ UNCHANGED stored
        /\ UNCHANGED <<preview, patched>>

Updated(payload, patch) ==
    [field \in DOMAIN payload |->
        IF field \in DOMAIN patch THEN patch[field] ELSE payload[field]]

\* A revision that gives a text of its own to every lesson of the series.
WellWritten(item, n) ==
    /\ ~Placeholder(item.focus) /\ ~Placeholder(item.description)
    /\ item.detail \notin {"", item.description}
    /\ \A named \in Named(item.buildsOn) : named < n
Whole(raw) ==
    /\ \A i \in DOMAIN raw : WellWritten(raw[i], NumberAt(raw, i))
    /\ \A n \in Lessons : Places(raw, n) # {}

\* The fields the model returns replace those of the row as it is stored;
\* the result is repaired and stored without validation.
ApplyFeedback(patch) ==
    /\ phase = "ready"
    /\ stored' = NormalisedPayload(Updated(stored, patch))
    /\ patched' = IF "outline" \notin DOMAIN patch THEN patched
                  ELSE IF Whole(patch.outline) THEN "whole" ELSE "partly"
    /\ UNCHANGED <<phase, preview>>

\* On approval the row is read, which repairs it, and validated.
GenerateLessons ==
    /\ phase = "ready"
    /\ phase' = IF Valid(NormalisedPayload(stored)) THEN "lessons" ELSE "failed"
    /\ UNCHANGED <<preview, stored, patched>>

Next ==
    \/ \E raw \in Outlines : ProposeOutline(raw)
    \/ \E goals \in SUBSET Goals : \E cover \in [goals -> Matches] : Compose(goals, cover)
    \/ \E patch \in Patches : ApplyFeedback(patch)
    \/ GenerateLessons

Spec == Init /\ [][Next]_vars

----------------------------------------------------------------------------
(* Properties *)

Lesson == [number : Lessons, focus : Content, description : Content, detail : Texts,
           buildsOn : {NoText} \union SUBSET Nat, after : SUBSET Lessons,
           paragraphs : SUBSET Paragraphs]
Outline == [Lessons -> Lesson]

\* The variables have their types: after either normaliser an outline has
\* one lesson per number and refers to lessons and paragraphs that exist.
TypeOK ==
    /\ phase \in {"sequence", "composing", "ready", "lessons", "failed"}
    /\ preview \in Outline \union {None}
    /\ stored # None =>
         /\ stored.outline \in Outline
         /\ stored.goals \subseteq Goals \union {DefaultGoal}
    /\ patched \in {"never", "whole", "partly"}

\* Whatever the model proposes or returns on feedback, the outline shown and
\* the one stored treat every selected paragraph and build only on earlier
\* lessons (test_lesplan_overview_normalization.py: covered = {0, 1, 2}).
Complete(outline) ==
    /\ Paragraphs \subseteq UNION {outline[n].paragraphs : n \in Lessons}
    /\ \A n \in Lessons : \A m \in outline[n].after : 1 <= m /\ m < n
OutlineComplete ==
    /\ preview # None => Complete(preview)
    /\ stored # None => Complete(stored.outline)

\* The stored coverage names the stored goals, each with a lesson of the
\* series, even after feedback that changed one of them and not the other.
CoverageComplete ==
    stored # None =>
        /\ stored.goals # {} /\ DOMAIN stored.cover = stored.goals
        /\ \A g \in stored.goals :
              stored.cover[g] # {} /\ stored.cover[g] \subseteq Lessons

\* An overview that is shown is whole: the outline treats everything that was selected, and
\* the coverage everything the goals name.  (agents/lesplan/utils.py:163-210,
\* routes/lesplan/util.py:402-418, 495-530)
StoredIsComplete == OutlineComplete /\ CoverageComplete

\* Every read repairs the row again.  What the teacher sees, what feedback is
\* given on and what the lessons are written from is what was stored, but for
\* one thing: a lesson stored without earlier lessons, because those the model
\* listed do not exist, is read with those that its text names.
AsRead(outline) ==
    [n \in Lessons |-> [outline[n] EXCEPT !.after =
        IF @ = {} THEN Named(outline[n].buildsOn) \intersect Earlier(n) ELSE @]]
ReadingIsStable ==
    stored # None =>
        NormalisedPayload(stored) = [stored EXCEPT !.outline = AsRead(stored.outline)]

\* The outline shown while the teacher notes are written is the one that is
\* stored: neither the second repair nor the other normaliser changes it.
PreviewIsPublished ==
    [][phase = "composing" /\ phase' = "ready" => stored'.outline = preview]_vars

\* Generation fails for the outline only if a lesson says it builds on one
\* that is not earlier, or is named after a paragraph that has no name.
GenerationRefusesLittle ==
    [][phase = "composing" /\ phase' = "failed" =>
        \E n \in Lessons :
            \/ \E m \in Named(preview[n].buildsOn) : m >= n
            \/ \E p \in Paragraphs : preview[n].paragraphs = {p} /\ Placeholder(Title[p])]_vars

\* An approved overview is refused, which fails the plan for good, only if a
\* revision returned the outline without all its lessons or their texts: as
\* generated, or revised as a whole, it is accepted.
ApprovalRefusesLittle ==
    [][phase = "ready" /\ phase' = "failed" => patched = "partly"]_vars

\* The validation of the outline throws a generation or an approved plan away in these cases
\* only.  (agents/lesplan/utils.py:155-240; tasks.py:648-660)
RefusalsAreFew == GenerationRefusesLittle /\ ApprovalRefusesLittle

================================================================================
