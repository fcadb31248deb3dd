----------------------------- MODULE Catalogue -----------------------------
(* The catalogue of books, chapters and paragraphs, the scripts that fill   *)
(* and repair it from the publisher's site (seed_from_sitemap.py,           *)
(* fix_paragraphs.py, fetch_covers.py), and the plans that refer to its     *)
(* paragraphs while the scripts run (create_lesplan, _build_context).       *)
(* A script is run by hand, one at a time; it can stop at any await.        *)
EXTENDS Integers, FiniteSets, SequencesExt, Functions

CONSTANTS
  Groups,        \* books on the site: BookGroup, a subject, method and book slug
  SlugOf,        \* [Groups -> slugs]: the last part of a group's URL
  Sections,      \* numbers of paragraphs in a chapter
  Pages,         \* what the site may show of each group: [Groups -> sets of pages], a page
                 \* being a function from chapter numbers to SUBSET Sections
  Plans,         \* requests for a lesson plan
  None,          \* no group, no cover, not seeded yet
  MaxChapters, MaxParagraphs, \* bounds on the rows ever inserted
  MaxRuns        \* bound on the runs of scripts

ASSUME CatalogueAssumption ==
  /\ DOMAIN SlugOf = Groups /\ None \notin Groups
  /\ DOMAIN Pages = Groups
  /\ \A g \in Groups : \A page \in Pages[g] :
       /\ DOMAIN page # {} /\ IsFiniteSet(DOMAIN page)
       /\ \A c \in DOMAIN page : page[c] \subseteq Sections /\ IsFiniteSet(page[c])

VARIABLES
  site,          \* page of each group: the sitemap and the pages of the site now
  methods,       \* groups whose Method row was written
  books, chapters, paragraphs, \* tables: the id of a row is its position
  bucket,        \* groups whose cover is stored in R2
  csv,           \* exported <<book_url, chapter_id>>, the input of fix_paragraphs
  job,           \* the script that runs
  plans,         \* create_lesplan calls and LesplanRequest rows
  seeded,        \* observer: the page of each group when its seeding last completed
  repaired,      \* observer: slugs of the books whose rows fix_paragraphs replaced
  runs

tables == <<methods, books, chapters, paragraphs, bucket>>
vars == <<site, tables, csv, job, plans, seeded, repaired, runs>>

Slugs == {SlugOf[g] : g \in Groups}
AllPages == UNION {Pages[g] : g \in Groups}
Sites == {s \in [Groups -> AllPages] : \A g \in Groups : s[g] \in Pages[g]}
Numbers == UNION {DOMAIN page : page \in AllPages}
Idle == [script |-> "none", left |-> {}, pages |-> <<>>, group |-> None,
         book |-> 0, rows |-> {}, open |-> <<>>]

Init ==
  /\ site \in Sites
  /\ methods = {} /\ books = <<>> /\ chapters = <<>> /\ paragraphs = <<>>
  /\ bucket = {} /\ csv = {} /\ job = Idle /\ runs = 0
  /\ plans = [p \in Plans |-> [stage |-> "none", picked |-> {}]]
  /\ seeded = [g \in Groups |-> None] /\ repaired = {}

-----------------------------------------------------------------------------
(* Rows. A deleted row stays in its sequence with live = FALSE, so that an  *)
(* id is never used twice.                                                  *)

ChaptersOf(b) == {k \in DOMAIN chapters : chapters[k].live /\ chapters[k].book = b}
ParagraphsOf(k) == {p \in DOMAIN paragraphs : paragraphs[p].live /\ paragraphs[p].chapter = k}
BookOfParagraph(p) == chapters[paragraphs[p].chapter].book

RowsOf(k, g, sections) ==
  {[chapter |-> k, index |-> s, title |-> g, live |-> TRUE] : s \in sections}

NewParagraphs(k, g, sections) == SetToSeq(RowsOf(k, g, sections))

\* Mutant: every paragraph of the chapter is deleted and written again.
SavedAnew(k, g, sections) ==
  [p \in DOMAIN paragraphs |->
     IF p \in ParagraphsOf(k) THEN [paragraphs[p] EXCEPT !.live = FALSE] ELSE paragraphs[p]]
    \o NewParagraphs(k, g, sections)

\* The paragraphs after the upsert of those of a chapter.
Saved(k, g, sections) ==
  LET known == {p \in ParagraphsOf(k) : paragraphs[p].index \in sections}
  IN [p \in DOMAIN paragraphs |->
        IF p \in known THEN [paragraphs[p] EXCEPT !.title = g] ELSE paragraphs[p]]
       \o NewParagraphs(k, g, sections \ {paragraphs[p].index : p \in known})

\* Mutant: the rows of the chapters stay.
WithoutKeeping(gone) == paragraphs

\* The paragraphs after the chapters in gone lose theirs.
Without(gone) ==
  [p \in DOMAIN paragraphs |->
     IF paragraphs[p].chapter \in gone THEN [paragraphs[p] EXCEPT !.live = FALSE] ELSE paragraphs[p]]

InBounds == Len(chapters') <= MaxChapters /\ Len(paragraphs') <= MaxParagraphs

-----------------------------------------------------------------------------
(* The site, and the end of a script.                                       *)

Publish(g, page) ==
  /\ site[g] # page /\ site' = [site EXCEPT ![g] = page]
  /\ UNCHANGED <<tables, csv, job, plans, seeded, repaired, runs>>

Begin(script, left) ==
  /\ job = Idle /\ runs < MaxRuns /\ left # {}
  /\ runs' = runs + 1
  /\ job' = [Idle EXCEPT !.script = script, !.left = left,
                         !.pages = IF script = "seed" THEN Restrict(site, left) ELSE @]
  /\ UNCHANGED <<site, tables, csv, plans, seeded, repaired>>

\* The item is done: the next one, or the end of the script.
Proceed(left) ==
  job' = IF left = {} THEN Idle
         ELSE [Idle EXCEPT !.script = job.script, !.left = left,
                           !.pages = IF job.script = "seed" THEN Restrict(job.pages, left) ELSE @]

\* An exception, a lost connection or Ctrl-C; what was not committed is gone.
Stop ==
  /\ job # Idle /\ job' = Idle
  /\ UNCHANGED <<site, tables, csv, plans, seeded, repaired, runs>>

-----------------------------------------------------------------------------
(* seed_from_sitemap.py: the sitemap is read once; every group is stored in *)
(* commits of its own for the method, the book and each chapter. The        *)
(* paragraphs of a chapter are committed with the chapter after it.         *)

StartSeed == \E gs \in SUBSET Groups : Begin("seed", gs)

UpsertMethod(g) ==
  /\ job.script = "seed" /\ job.group = None /\ g \in job.left
  /\ methods' = methods \cup {g}
  /\ job' = [job EXCEPT !.group = g]
  /\ UNCHANGED <<site, books, chapters, paragraphs, bucket, csv, plans, seeded, repaired, runs>>

UpsertBook ==
  LET g == job.group
      found == {b \in DOMAIN books : books[b].slug = SlugOf[g]}
  IN
  /\ job.script = "seed" /\ g # None /\ job.book = 0
  /\ \/ \E b \in found :
          /\ books' = [books EXCEPT ![b].of = g]
          /\ job' = [job EXCEPT !.book = b, !.rows = DOMAIN job.pages[g]]
     \/ /\ found = {}
        /\ books' = Append(books, [slug |-> SlugOf[g], of |-> g, cover |-> None])
        /\ job' = [job EXCEPT !.book = Len(books'), !.rows = DOMAIN job.pages[g]]
  /\ UNCHANGED <<site, methods, chapters, paragraphs, bucket, csv, plans, seeded, repaired, runs>>

\* What the session holds and the next commit stores: the open chapter's paragraphs.
Flushed ==
  IF job.open = <<>> THEN paragraphs
  ELSE Saved(job.open[1], job.group, job.pages[job.group][job.open[2]])

\* Mutant: the chapter is looked up by its number alone.
KnownChaptersAnywhere(c) == {k \in DOMAIN chapters : chapters[k].live /\ chapters[k].index = c}

KnownChapters(c) == {k \in ChaptersOf(job.book) : chapters[k].index = c}

UpsertChapter(c) ==
  /\ job.script = "seed" /\ job.book # 0 /\ c \in job.rows
  /\ paragraphs' = Flushed
  /\ \/ \E k \in KnownChapters(c) :
          /\ chapters' = [chapters EXCEPT ![k].title = job.group]
          /\ job' = [job EXCEPT !.rows = @ \ {c}, !.open = <<k, c>>]
     \/ /\ KnownChapters(c) = {}
        /\ chapters' = Append(chapters, [book |-> job.book, index |-> c, title |-> job.group, live |-> TRUE])
        /\ job' = [job EXCEPT !.rows = @ \ {c}, !.open = <<Len(chapters'), c>>]
  /\ InBounds
  /\ UNCHANGED <<site, methods, books, bucket, csv, plans, seeded, repaired, runs>>

\* Mutant: the session is closed without the last commit.
SaveGroupUncommitted ==
  /\ job.script = "seed" /\ job.book # 0 /\ job.rows = {}
  /\ seeded' = [seeded EXCEPT ![job.group] = job.pages[job.group]]
  /\ Proceed(job.left \ {job.group})
  /\ UNCHANGED <<site, tables, csv, plans, repaired, runs>>

SaveGroup ==
  /\ job.script = "seed" /\ job.book # 0 /\ job.rows = {}
  /\ paragraphs' = Flushed
  /\ seeded' = [seeded EXCEPT ![job.group] = job.pages[job.group]]
  /\ Proceed(job.left \ {job.group})
  /\ chapters' = chapters /\ InBounds
  /\ UNCHANGED <<site, methods, books, bucket, csv, plans, repaired, runs>>

-----------------------------------------------------------------------------
(* fix_paragraphs.py. Its input was exported from the tables at some time.  *)

Export ==
  /\ job = Idle
  /\ csv' = UNION {{<<books[b].of, k>> : k \in ChaptersOf(b)} : b \in DOMAIN books}
  /\ csv' # csv
  /\ UNCHANGED <<site, tables, job, plans, seeded, repaired, runs>>

StartFix == \E rows \in SUBSET csv : Begin("fix", rows)

FetchPage(g) ==
  /\ job.script = "fix" /\ job.group = None
  /\ job.rows = {} /\ \E row \in job.left : row[1] = g
  /\ job' = [job EXCEPT !.group = g, !.pages = Restrict(site, {g}),
                        !.rows = {row[2] : row \in {r \in job.left : r[1] = g}}]
  /\ UNCHANGED <<site, tables, csv, plans, seeded, repaired, runs>>

\* The row is done, and with the last row of a page the page.
RowDone(k) ==
  LET left == job.left \ {<<job.group, k>>}
  IN IF job.rows = {k} THEN Proceed(left)
     ELSE job' = [job EXCEPT !.rows = @ \ {k}, !.left = left]

\* No page, no chapter of that title, no paragraphs on the page, or no such row any more.
SkipRow(k) ==
  /\ job.script = "fix" /\ k \in job.rows
  /\ RowDone(k)
  /\ UNCHANGED <<site, tables, csv, plans, seeded, repaired, runs>>

\* Mutant: the deletion is committed before the paragraphs are inserted.
FixChapterInTwo(k, c, number) ==
  /\ job.script = "fix" /\ k \in job.rows /\ chapters[k].live
  /\ c \in DOMAIN job.pages[job.group] /\ job.pages[job.group][c] # {}
  /\ \/ ParagraphsOf(k) # {} /\ paragraphs' = Without({k}) /\ UNCHANGED <<chapters, job>>
     \/ /\ ParagraphsOf(k) = {}
        /\ paragraphs' = Without({k}) \o NewParagraphs(k, job.group, job.pages[job.group][c])
        /\ chapters' = [chapters EXCEPT ![k].title = job.group, ![k].index = number]
        /\ RowDone(k)
  /\ repaired' = repaired \cup {books[chapters[k].book].slug}
  /\ InBounds
  /\ UNCHANGED <<site, methods, books, bucket, csv, plans, seeded, runs>>

\* The title of the exported row matches chapter c of the page, which numbers it as it likes.
FixChapter(k, c, number) ==
  /\ job.script = "fix" /\ k \in job.rows /\ chapters[k].live
  /\ c \in DOMAIN job.pages[job.group] /\ job.pages[job.group][c] # {}
  /\ paragraphs' = Without({k}) \o NewParagraphs(k, job.group, job.pages[job.group][c])
  /\ chapters' = [chapters EXCEPT ![k].title = job.group, ![k].index = number]
  /\ RowDone(k)
  /\ repaired' = repaired \cup {books[chapters[k].book].slug}
  /\ InBounds
  /\ UNCHANGED <<site, methods, books, bucket, csv, plans, seeded, runs>>

\* The first pass collects the URLs with a chapter that matches nothing.
StartRebuild == \E gs \in SUBSET {row[1] : row \in csv} : Begin("rebuild", gs)

SkipBook(g) ==
  /\ job.script = "rebuild" /\ g \in job.left
  /\ Proceed(job.left \ {g})
  /\ UNCHANGED <<site, tables, csv, plans, seeded, repaired, runs>>

\* All chapters of the book go, with their paragraphs, and those of its page come.
RebuildBook(g, number) ==
  LET page == site[g]
      cs == SetToSeq(DOMAIN page)
  IN
  /\ job.script = "rebuild" /\ g \in job.left
  /\ \E b \in DOMAIN books :
       /\ books[b].of = g
       /\ chapters' = [k \in DOMAIN chapters |->
                         IF k \in ChaptersOf(b) THEN [chapters[k] EXCEPT !.live = FALSE] ELSE chapters[k]]
                        \o [i \in 1..Len(cs) |-> [book |-> b, index |-> number[cs[i]], title |-> g, live |-> TRUE]]
       /\ paragraphs' = Without(ChaptersOf(b))
                        \o SetToSeq(UNION {RowsOf(Len(chapters) + i, g, page[cs[i]]) : i \in 1..Len(cs)})
       /\ repaired' = repaired \cup {books[b].slug}
  /\ Proceed(job.left \ {g})
  /\ InBounds
  /\ UNCHANGED <<site, methods, books, bucket, csv, plans, seeded, runs>>

-----------------------------------------------------------------------------
(* fetch_covers.py: the books without a cover are read once.                *)

StartCovers == Begin("covers", {<<b, books[b].of>> : b \in {c \in DOMAIN books : books[c].cover = None}})

\* No image on the page, or the download or the upload fails.
SkipCover(b, g) ==
  /\ job.script = "covers" /\ job.group = None /\ <<b, g>> \in job.left
  /\ Proceed(job.left \ {<<b, g>>})
  /\ UNCHANGED <<site, tables, csv, plans, seeded, repaired, runs>>

UploadToR2(b, g) ==
  /\ job.script = "covers" /\ job.group = None /\ <<b, g>> \in job.left
  /\ bucket' = bucket \cup {g}
  /\ job' = [job EXCEPT !.book = b, !.group = g]
  /\ UNCHANGED <<site, methods, books, chapters, paragraphs, csv, plans, seeded, repaired, runs>>

SaveCover ==
  /\ job.script = "covers" /\ job.group # None
  /\ books' = [books EXCEPT ![job.book].cover = job.group]
  /\ Proceed(job.left \ {<<job.book, job.group>>})
  /\ UNCHANGED <<site, methods, chapters, paragraphs, bucket, csv, plans, seeded, repaired, runs>>

-----------------------------------------------------------------------------
(* Plans. The selection is checked in one statement and stored in a later   *)
(* one; selected_paragraph_ids is a list in JSON that no foreign key guards. *)

CheckSelection(p, b, picked) ==
  /\ plans[p].stage = "none" /\ picked # {}
  /\ \A q \in picked : paragraphs[q].live /\ BookOfParagraph(q) = b
  /\ plans' = [plans EXCEPT ![p] = [stage |-> "checked", picked |-> picked]]
  /\ UNCHANGED <<site, tables, csv, job, seeded, repaired, runs>>

CreatePlan(p) ==
  /\ plans[p].stage = "checked"
  /\ plans' = [plans EXCEPT ![p].stage = "pending"]
  /\ UNCHANGED <<site, tables, csv, job, seeded, repaired, runs>>

\* _build_context, with which every job on the overview or for the lessons begins: a missing
\* paragraph fails the job, also the later ones of a plan whose first job was well.
BuildContext(p) ==
  /\ plans[p].stage \in {"pending", "ready"}
  /\ plans' = [plans EXCEPT ![p].stage =
                 IF \A q \in plans[p].picked : paragraphs[q].live THEN "ready" ELSE "failed"]
  /\ UNCHANGED <<site, tables, csv, job, seeded, repaired, runs>>

-----------------------------------------------------------------------------
Seed == \/ StartSeed \/ UpsertBook \/ SaveGroup
        \/ \E g \in Groups : UpsertMethod(g)
        \/ \E c \in Numbers : UpsertChapter(c)
Fix == \/ Export \/ StartFix
       \/ \E g \in Groups : FetchPage(g)
       \/ \E k \in DOMAIN chapters : SkipRow(k)
       \/ \E k \in DOMAIN chapters, c \in Numbers, number \in Numbers : FixChapter(k, c, number)
Rebuild == \/ StartRebuild
           \/ \E g \in Groups : SkipBook(g)
           \/ \E g \in Groups : \E number \in [DOMAIN site[g] -> Numbers] : RebuildBook(g, number)
Covers == \/ StartCovers \/ SaveCover
          \/ \E b \in DOMAIN books, g \in Groups : SkipCover(b, g)
          \/ \E b \in DOMAIN books, g \in Groups : UploadToR2(b, g)
Planning == \/ \E p \in Plans, b \in DOMAIN books, picked \in SUBSET DOMAIN paragraphs : CheckSelection(p, b, picked)
            \/ \E p \in Plans : CreatePlan(p)
            \/ \E p \in Plans : BuildContext(p)

Next == \/ \E g \in Groups : \E page \in Pages[g] : Publish(g, page)
        \/ Stop \/ Seed \/ Fix \/ Rebuild \/ Covers \/ Planning

Spec == Init /\ [][Next]_vars

-----------------------------------------------------------------------------
(* Properties.                                                              *)

\* Rows have the types of their columns; a live row's parent is live (the foreign
\* keys of book_chapter and book_chapter_paragraph).
TypeOK ==
  /\ site \in Sites /\ methods \subseteq Groups /\ bucket \subseteq Groups
  /\ \A b \in DOMAIN books : books[b].slug \in Slugs /\ books[b].of \in Groups /\ books[b].cover \in Groups \cup {None}
  /\ \A k \in DOMAIN chapters : chapters[k].book \in DOMAIN books /\ chapters[k].index \in Numbers
  /\ \A p \in DOMAIN paragraphs :
       /\ paragraphs[p].chapter \in DOMAIN chapters /\ paragraphs[p].index \in Sections
       /\ paragraphs[p].live => chapters[paragraphs[p].chapter].live
  /\ csv \subseteq Groups \X DOMAIN chapters
  /\ \A p \in Plans : plans[p].picked \subseteq DOMAIN paragraphs

\* What a completed seeding of a group stored stays there once: one book of its slug,
\* one chapter of each number and one paragraph of each number in it, whatever later
\* runs did, also runs that stopped half way (seed_from_sitemap.py:537-616, 684-722).
\* Only fix_paragraphs.py, which numbers chapters by the page, can take that away.
SeedingHolds ==
  \A g \in Groups : seeded[g] # None /\ SlugOf[g] \notin repaired =>
    \E b \in DOMAIN books :
      /\ books[b].slug = SlugOf[g]
      /\ \A other \in DOMAIN books : books[other].slug = SlugOf[g] => other = b
      /\ \A c \in DOMAIN seeded[g] :
           \E k \in ChaptersOf(b) :
             /\ \A other \in ChaptersOf(b) : chapters[other].index = chapters[k].index => other = k
             /\ chapters[k].index = c
             /\ \A s \in seeded[g][c] : Cardinality({p \in ParagraphsOf(k) : paragraphs[p].index = s}) = 1

\* A book is made of what the site shows of groups with its slug and of nothing else:
\* URL, titles of chapters and paragraphs, and cover, also with an export that is out of
\* date and a URL that another group took over in between (seed_from_sitemap.py:549-591,
\* fix_paragraphs.py:244-279 and 395-412, fetch_covers.py:115-160). Groups that share a
\* slug do share a book: _upsert_book looks for the slug alone.
BooksStayApart ==
  \A b \in DOMAIN books :
    LET Own(g) == SlugOf[g] = books[b].slug
    IN /\ Own(books[b].of) /\ books[b].of \in methods
       /\ books[b].cover # None => Own(books[b].cover) /\ books[b].cover \in bucket
       /\ \A k \in ChaptersOf(b) :
            Own(chapters[k].title) /\ \A p \in ParagraphsOf(k) : Own(paragraphs[p].title)

\* A paragraph that a plan selected is only ever missing, and the plan's job only ever
\* fails for it, after fix_paragraphs.py replaced the rows of that book: seeding again
\* keeps the ids (route.py:98-109 and 151-170, util.py:611-627).
SelectionsStand ==
  \A p \in Plans :
    /\ \A q \in plans[p].picked : paragraphs[q].live \/ books[BookOfParagraph(q)].slug \in repaired
    /\ plans[p].stage = "failed" => \E q \in plans[p].picked : books[BookOfParagraph(q)].slug \in repaired

\* A repair is never seen half done: a chapter that has paragraphs keeps some as long as
\* it exists, and a book that has chapters keeps some (fix_paragraphs.py:244-284, 395-432).
RepairsAreWhole ==
  [][/\ \A k \in DOMAIN chapters :
          ParagraphsOf(k) # {} /\ chapters'[k].live => ParagraphsOf(k)' # {}
     /\ \A b \in DOMAIN books : ChaptersOf(b) # {} => ChaptersOf(b)' # {}]_vars
=============================================================================
