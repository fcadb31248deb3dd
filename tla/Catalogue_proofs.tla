---------------------------- MODULE Catalogue_proofs ----------------------------
(***************************************************************************)
(* Proofs about Catalogue, for any groups, pages and plans and any number  *)
(* of rows and of runs of the scripts.                                     *)
(***************************************************************************)
EXTENDS Catalogue, FiniteSetTheorems, TLAPS

BookRows == [slug : Slugs, of : Groups, cover : Groups \cup {None}]
ChapterRows == [book : Nat, index : Numbers, title : Groups, live : BOOLEAN]
ParagraphRows == [chapter : Nat, index : Sections, title : Groups, live : BOOLEAN]
PlanRows == [stage : {"none", "checked", "pending", "ready", "failed"}, picked : SUBSET Nat]

Tables ==
    /\ books \in Seq(BookRows) /\ chapters \in Seq(ChapterRows)
    /\ paragraphs \in Seq(ParagraphRows)

\* The foreign keys, and the cascade from a chapter to its paragraphs.
References ==
    /\ \A k \in DOMAIN chapters : chapters[k].book \in DOMAIN books
    /\ \A p \in DOMAIN paragraphs :
         /\ paragraphs[p].chapter \in DOMAIN chapters
         /\ paragraphs[p].live => chapters[paragraphs[p].chapter].live

TypeInv ==
    /\ site \in Sites /\ methods \subseteq Groups /\ bucket \subseteq Groups
    /\ Tables /\ References
    /\ csv \subseteq Groups \X DOMAIN chapters
    /\ plans \in [Plans -> PlanRows]
    /\ \A p \in Plans : plans[p].picked \subseteq DOMAIN paragraphs
    /\ seeded \in [Groups -> AllPages \cup {None}]

JobShape ==
    job = [script |-> job.script, left |-> job.left, pages |-> job.pages, group |-> job.group,
           book |-> job.book, rows |-> job.rows, open |-> job.open]

\* Between two items a script has no row in hand.
AtItem == job.group = None /\ job.book = 0 /\ job.rows = {} /\ job.open = <<>>

\* What a script keeps in memory while it runs.
SeedJob ==
    /\ job.left \subseteq Groups
    /\ \A g \in job.left : job.pages[g] \in Pages[g]
    /\ job.group # None => job.group \in job.left \cap methods
    /\ job.book # 0 =>
         /\ job.group # None /\ job.book \in DOMAIN books
         /\ books[job.book].slug = SlugOf[job.group]
         /\ job.rows \subseteq DOMAIN job.pages[job.group]
    /\ job.open # <<>> =>
         /\ job.book # 0 /\ job.open[1] \in ChaptersOf(job.book)
         /\ job.open[2] \in DOMAIN job.pages[job.group] \ job.rows
         /\ chapters[job.open[1]].index = job.open[2]

FixJob ==
    /\ job.left \subseteq csv
    /\ job.group = None => job.rows = {}
    /\ job.group # None =>
         /\ job.group \in Groups /\ job.pages[job.group] \in Pages[job.group]
         /\ \A k \in job.rows : <<job.group, k>> \in job.left

CoversJob ==
    /\ job.left \subseteq (DOMAIN books) \X Groups
    /\ \A item \in job.left : SlugOf[item[2]] = books[item[1]].slug
    /\ job.group # None => <<job.book, job.group>> \in job.left /\ job.group \in bucket

JobInv ==
    /\ JobShape
    /\ job.script \in {"none", "seed", "fix", "rebuild", "covers"}
    /\ job.script = "seed" => SeedJob
    /\ job.script = "fix" => FixJob
    /\ job.script = "rebuild" => job.left \subseteq Groups
    /\ job.script = "covers" => CoversJob

\* A row, also one that was deleted, comes from a group with the slug of its book.
OwnBooks ==
    \A b \in DOMAIN books :
      /\ SlugOf[books[b].of] = books[b].slug /\ books[b].of \in methods
      /\ books[b].cover # None =>
           SlugOf[books[b].cover] = books[b].slug /\ books[b].cover \in bucket
OwnChapters == \A k \in DOMAIN chapters : SlugOf[chapters[k].title] = books[chapters[k].book].slug
OwnParagraphs ==
    \A p \in DOMAIN paragraphs : SlugOf[paragraphs[p].title] = books[BookOfParagraph(p)].slug
OwnExport == \A row \in csv : SlugOf[row[1]] = books[chapters[row[2]].book].slug
Apart == OwnBooks /\ OwnChapters /\ OwnParagraphs /\ OwnExport

\* Only a repair deletes rows.
DeletedByRepair ==
    /\ \A k \in DOMAIN chapters : chapters[k].live \/ books[chapters[k].book].slug \in repaired
    /\ \A p \in DOMAIN paragraphs : paragraphs[p].live \/ books[BookOfParagraph(p)].slug \in repaired

\* No slug and no number is given twice, but to the chapters of a repaired book.
SlugsDistinct == \A b1, b2 \in DOMAIN books : books[b1].slug = books[b2].slug => b1 = b2
ChaptersDistinct ==
    \A k1, k2 \in DOMAIN chapters :
      /\ chapters[k1].live /\ chapters[k2].live
      /\ chapters[k1].book = chapters[k2].book /\ chapters[k1].index = chapters[k2].index
      /\ books[chapters[k1].book].slug \notin repaired
      => k1 = k2
ParagraphsDistinct ==
    \A p1, p2 \in DOMAIN paragraphs :
      /\ paragraphs[p1].live /\ paragraphs[p2].live
      /\ paragraphs[p1].chapter = paragraphs[p2].chapter
      /\ paragraphs[p1].index = paragraphs[p2].index
      => p1 = p2
Distinct == SlugsDistinct /\ ChaptersDistinct /\ ParagraphsDistinct

\* Chapter k has a paragraph for each of the sections.
Filled(k, sections) == \A s \in sections : \E p \in ParagraphsOf(k) : paragraphs[p].index = s

\* A chapter that the seeding of a group is done with is filled, but for the one in the session.
SeedingFills ==
    job.script = "seed" /\ job.book # 0 =>
      \A c \in DOMAIN job.pages[job.group] \ job.rows :
        \E k \in ChaptersOf(job.book) :
          chapters[k].index = c /\ (job.open = <<k, c>> \/ Filled(k, job.pages[job.group][c]))

SeededFilled ==
    \A g \in Groups : seeded[g] # None /\ SlugOf[g] \notin repaired =>
      \E b \in DOMAIN books :
        /\ books[b].slug = SlugOf[g]
        /\ \A c \in DOMAIN seeded[g] :
             \E k \in ChaptersOf(b) : chapters[k].index = c /\ Filled(k, seeded[g][c])

PlansStand ==
    \A p \in Plans : plans[p].stage = "failed" =>
      \E q \in plans[p].picked : books[BookOfParagraph(q)].slug \in repaired

CatalogueInv ==
    /\ TypeInv /\ JobInv /\ Apart /\ DeletedByRepair /\ Distinct
    /\ SeedingFills /\ SeededFilled /\ PlansStand
-----------------------------------------------------------------------------
(* Rows that are appended.                                                  *)

\* A finite set as a sequence has each of its elements, once.
LEMMA SetToSeqLists ==
    ASSUME NEW S, IsFiniteSet(S)
    PROVE  LET s == SetToSeq(S)
           IN  /\ s \in Seq(S)
               /\ \A x \in S : \E i \in DOMAIN s : s[i] = x
               /\ \A i, j \in DOMAIN s : s[i] = s[j] => i = j
<1> DEFINE n == Cardinality(S)
           s == SetToSeq(S)
<1>1. n \in Nat /\ ExistsBijection(1..n, S)
  BY FS_CardinalityType
<1>2. \E f \in [1..n -> S] : IsInjective(f)
  BY <1>1, Zenon DEF ExistsBijection, Bijection, Injection
<1>3. s \in [1..n -> S] /\ IsInjective(s)
  BY <1>2, Zenon DEF SetToSeq
<1>4. IsFiniteSet(1..n) /\ Cardinality(1..n) = n
  BY <1>1, FS_Interval
<1>5. s \in Injection(1..n, S)
  BY <1>3, Zenon DEF Injection
<1>6. s \in Surjection(1..n, S)
  BY <1>4, <1>5, FS_Injection, Zenon
<1>7. \A x \in S : \E i \in 1..n : s[i] = x
  BY <1>6, Zenon DEF Surjection
<1>8. s \in Seq(S) /\ DOMAIN s = 1..n
  BY <1>1, <1>3
<1> HIDE DEF s
<1>9. \A i, j \in DOMAIN s : s[i] = s[j] => i = j
  BY <1>3, Zenon DEF IsInjective
<1> QED
  BY <1>7, <1>8, <1>9 DEF s

\* Where the rows of a concatenation come from.
Concatenates(all, old, new) ==
    /\ DOMAIN old \subseteq DOMAIN all
    /\ \A i \in DOMAIN old : all[i] = old[i]
    /\ \A i \in DOMAIN all \ DOMAIN old :
         i - Len(old) \in DOMAIN new /\ all[i] = new[i - Len(old)]
    /\ \A i \in DOMAIN new :
         i + Len(old) \in DOMAIN all \ DOMAIN old /\ all[i + Len(old)] = new[i]

LEMMA AppendedRows ==
    ASSUME NEW R, NEW old \in Seq(R), NEW new \in Seq(R)
    PROVE  old \o new \in Seq(R) /\ Concatenates(old \o new, old, new)
  BY DEF Concatenates

\* all is what was there, old, and after it each row of S, once.
Appends(all, old, S) ==
    /\ DOMAIN old \subseteq DOMAIN all
    /\ \A i \in DOMAIN old : all[i] = old[i]
    /\ \A i \in DOMAIN all \ DOMAIN old : all[i] \in S
    /\ \A x \in S : \E i \in DOMAIN all \ DOMAIN old : all[i] = x
    /\ \A i, j \in DOMAIN all \ DOMAIN old : all[i] = all[j] => i = j

LEMMA AppendedSet ==
    ASSUME NEW R, NEW old \in Seq(R), NEW S \in SUBSET R, IsFiniteSet(S)
    PROVE  old \o SetToSeq(S) \in Seq(R) /\ Appends(old \o SetToSeq(S), old, S)
<1> DEFINE new == SetToSeq(S)
<1>1. /\ new \in Seq(S)
      /\ \A x \in S : \E i \in DOMAIN new : new[i] = x
      /\ \A i, j \in DOMAIN new : new[i] = new[j] => i = j
  BY SetToSeqLists, Zenon
<1> HIDE DEF new
<1>2. new \in Seq(R)
  BY <1>1
<1> DEFINE all == old \o new
<1>3. /\ all \in Seq(R)
      /\ DOMAIN old \subseteq DOMAIN all
      /\ \A i \in DOMAIN old : all[i] = old[i]
      /\ \A i \in DOMAIN all \ DOMAIN old :
           i - Len(old) \in DOMAIN new /\ all[i] = new[i - Len(old)]
      /\ \A i \in DOMAIN new :
           i + Len(old) \in DOMAIN all \ DOMAIN old /\ all[i + Len(old)] = new[i]
  <2>1. all \in Seq(R) /\ Concatenates(all, old, new)
    BY <1>2, AppendedRows, Zenon
  <2> QED
    BY <2>1, Zenon DEF Concatenates
<1>4. \A i \in DOMAIN all : i \in Int
  BY <1>3
<1>5. Len(old) \in Nat /\ \A i \in DOMAIN new : new[i] \in S
  BY <1>1
<1> HIDE DEF all
<1>6. \A i \in DOMAIN all \ DOMAIN old : all[i] \in S
  BY <1>3, <1>5
<1>7. \A x \in S : \E i \in DOMAIN all \ DOMAIN old : all[i] = x
  <2> SUFFICES ASSUME NEW x \in S PROVE \E i \in DOMAIN all \ DOMAIN old : all[i] = x
    OBVIOUS
  <2>1. PICK i \in DOMAIN new : new[i] = x
    BY <1>1
  <2> QED
    BY <1>3, <2>1
<1>8. ASSUME NEW i \in DOMAIN all \ DOMAIN old, NEW j \in DOMAIN all \ DOMAIN old, all[i] = all[j]
      PROVE  i = j
  <2>1. i - Len(old) = j - Len(old)
    BY <1>1, <1>3, <1>8
  <2> QED
    BY <1>4, <1>5, <2>1
<1> QED
  BY <1>3, <1>6, <1>7, <1>8 DEF all, new, Appends

-----------------------------------------------------------------------------
(* The paragraphs after an upsert, a repair and a rebuild.                  *)

LEMMA RowsOfSections ==
    ASSUME NEW k \in Nat, NEW g \in Groups, NEW sections \in SUBSET Sections, IsFiniteSet(sections)
    PROVE  /\ RowsOf(k, g, sections) \in SUBSET ParagraphRows
           /\ IsFiniteSet(RowsOf(k, g, sections))
           /\ \A x \in RowsOf(k, g, sections) :
                x.chapter = k /\ x.index \in sections /\ x.title = g /\ x.live
           /\ \A s \in sections : \E x \in RowsOf(k, g, sections) : x.index = s
           /\ \A x, y \in RowsOf(k, g, sections) : x.index = y.index => x = y
<1> DEFINE row(s) == [chapter |-> k, index |-> s, title |-> g, live |-> TRUE]
           f == [s \in sections |-> row(s)]
<1>1. f \in Surjection(sections, RowsOf(k, g, sections))
  <2>1. f \in [sections -> RowsOf(k, g, sections)]
    BY DEF RowsOf
  <2>2. \A x \in RowsOf(k, g, sections) : \E s \in sections : f[s] = x
    BY DEF RowsOf
  <2> QED
    BY <2>1, <2>2, Zenon DEF Surjection
<1>2. IsFiniteSet(RowsOf(k, g, sections))
  BY <1>1, FS_Surjection, Zenon
<1>3. \A x \in RowsOf(k, g, sections) : \E s \in sections : x = row(s)
  BY DEF RowsOf
<1>4. \A s \in sections : row(s) \in RowsOf(k, g, sections) /\ row(s).index = s
  BY DEF RowsOf
<1>5. RowsOf(k, g, sections) \in SUBSET ParagraphRows
  <2>1. \A s \in sections : row(s) \in ParagraphRows
    BY DEF ParagraphRows
  <2> QED
    BY <1>3, <2>1
<1>6. \A x \in RowsOf(k, g, sections) :
        x.chapter = k /\ x.index \in sections /\ x.title = g /\ x.live = TRUE
  BY <1>3
<1>7. \A x, y \in RowsOf(k, g, sections) : x.index = y.index => x = y
  <2>1. \A s \in sections : row(s).index = s
    OBVIOUS
  <2>2. \A x \in RowsOf(k, g, sections) : x = row(x.index)
    BY <1>3, <2>1
  <2> HIDE DEF row
  <2> QED
    BY <2>2
<1> QED
  BY <1>2, <1>4, <1>5, <1>6, <1>7

\* An upsert keeps every row but its title, and leaves chapter k with one paragraph of each of
\* the sections.
Saves(new, k, g, sections) ==
    /\ DOMAIN paragraphs \subseteq DOMAIN new
    /\ \A p \in DOMAIN paragraphs :
         /\ new[p].chapter = paragraphs[p].chapter /\ new[p].index = paragraphs[p].index
         /\ new[p].live = paragraphs[p].live
         /\ new[p].title = paragraphs[p].title \/ (paragraphs[p].chapter = k /\ new[p].title = g)
    /\ \A p \in DOMAIN new \ DOMAIN paragraphs :
         /\ new[p].chapter = k /\ new[p].title = g /\ new[p].live
         /\ \A q \in ParagraphsOf(k) : paragraphs[q].index # new[p].index
    /\ \A p, q \in DOMAIN new \ DOMAIN paragraphs : new[p].index = new[q].index => p = q
    /\ \A s \in sections :
         \E p \in DOMAIN new : new[p].live /\ new[p].chapter = k /\ new[p].index = s

LEMMA SavedRows ==
    ASSUME Tables, NEW k \in Nat, NEW g \in Groups,
           NEW sections \in SUBSET Sections, IsFiniteSet(sections)
    PROVE  Saved(k, g, sections) \in Seq(ParagraphRows) /\ Saves(Saved(k, g, sections), k, g, sections)
<1> DEFINE known == {p \in ParagraphsOf(k) : paragraphs[p].index \in sections}
           rest == sections \ {paragraphs[p].index : p \in known}
           f == [p \in DOMAIN paragraphs |->
                   IF p \in known THEN [paragraphs[p] EXCEPT !.title = g] ELSE paragraphs[p]]
           S == RowsOf(k, g, rest)
           new == f \o SetToSeq(S)
<1>1. new = Saved(k, g, sections)
  BY Zenon DEF Saved, NewParagraphs
<1>2. rest \in SUBSET Sections /\ IsFiniteSet(rest)
  BY FS_Subset
<1>3. \A p \in DOMAIN paragraphs : paragraphs[p] \in ParagraphRows
  BY DEF Tables
<1>4. f \in [DOMAIN paragraphs -> ParagraphRows]
  BY <1>3 DEF ParagraphRows
<1> HIDE DEF rest
<1>5. /\ S \in SUBSET ParagraphRows /\ IsFiniteSet(S)
      /\ \A x \in S : x.chapter = k /\ x.index \in rest /\ x.title = g /\ x.live
      /\ \A s \in rest : \E x \in S : x.index = s
      /\ \A x, y \in S : x.index = y.index => x = y
  BY <1>2, RowsOfSections
<1>6. \A p \in DOMAIN paragraphs :
        /\ f[p].chapter = paragraphs[p].chapter /\ f[p].index = paragraphs[p].index
        /\ f[p].live = paragraphs[p].live
        /\ \/ f[p].title = paragraphs[p].title
           \/ paragraphs[p].chapter = k /\ f[p].title = g
  BY <1>3 DEF ParagraphRows, ParagraphsOf
<1> HIDE DEF f, S
<1>7. /\ new \in Seq(ParagraphRows)
      /\ DOMAIN paragraphs \subseteq DOMAIN new
      /\ \A p \in DOMAIN paragraphs : new[p] = f[p]
      /\ \A p \in DOMAIN new \ DOMAIN paragraphs : new[p] \in S
      /\ \A x \in S : \E p \in DOMAIN new \ DOMAIN paragraphs : new[p] = x
      /\ \A p, q \in DOMAIN new \ DOMAIN paragraphs : new[p] = new[q] => p = q
  <2>1. f \in Seq(ParagraphRows) /\ DOMAIN f = DOMAIN paragraphs
    BY <1>4 DEF Tables
  <2>2. new \in Seq(ParagraphRows) /\ Appends(new, f, S)
    BY <2>1, <1>5, AppendedSet, Zenon
  <2> HIDE DEF new
  <2> QED
    BY <2>1, <2>2 DEF Appends
<1> HIDE DEF new
<1>8. \A p \in DOMAIN paragraphs :
        /\ new[p].chapter = paragraphs[p].chapter /\ new[p].index = paragraphs[p].index
        /\ new[p].live = paragraphs[p].live
        /\ \/ new[p].title = paragraphs[p].title
           \/ paragraphs[p].chapter = k /\ new[p].title = g
  BY <1>6, <1>7
<1>9. ASSUME NEW p \in DOMAIN new \ DOMAIN paragraphs
      PROVE  /\ new[p].chapter = k /\ new[p].title = g /\ new[p].live
             /\ \A q \in ParagraphsOf(k) : paragraphs[q].index # new[p].index
  <2>1. /\ new[p].chapter = k /\ new[p].title = g /\ new[p].live /\ new[p].index \in rest
    BY <1>5, <1>7, Zenon
  <2> QED
    BY <2>1 DEF rest
<1>10. \A p, q \in DOMAIN new \ DOMAIN paragraphs : new[p].index = new[q].index => p = q
  BY <1>5, <1>7
<1>11. ASSUME NEW s \in sections
       PROVE  \E p \in DOMAIN new : new[p].live /\ new[p].chapter = k /\ new[p].index = s
  <2>1. CASE s \in rest
    <3>1. PICK x \in S : x.index = s
      BY <2>1, <1>5
    <3> QED
      BY <3>1, <1>5, <1>7
  <2>2. CASE s \notin rest
    <3>1. PICK p \in ParagraphsOf(k) : paragraphs[p].index = s
      BY <2>2 DEF rest
    <3> QED
      BY <3>1, <1>7, <1>8 DEF ParagraphsOf
  <2> QED
    BY <2>1, <2>2
<1> QED
  BY <1>1, <1>7, <1>8, <1>9, <1>10, <1>11 DEF Saves

\* A repair deletes the paragraphs of the chapters in gone and keeps the others as they are;
\* what it appends is S.
Replaces(new, gone, S) ==
    /\ DOMAIN paragraphs \subseteq DOMAIN new
    /\ \A p \in DOMAIN paragraphs :
         /\ new[p].chapter = paragraphs[p].chapter /\ new[p].index = paragraphs[p].index
         /\ new[p].title = paragraphs[p].title
         /\ new[p].live <=> paragraphs[p].live /\ paragraphs[p].chapter \notin gone
    /\ \A p \in DOMAIN new \ DOMAIN paragraphs : new[p] \in S
    /\ \A x \in S : \E p \in DOMAIN new \ DOMAIN paragraphs : new[p] = x
    /\ \A p, q \in DOMAIN new \ DOMAIN paragraphs : new[p] = new[q] => p = q

LEMMA ReplacedRows ==
    ASSUME Tables, NEW gone, NEW S \in SUBSET ParagraphRows, IsFiniteSet(S)
    PROVE  /\ Without(gone) \o SetToSeq(S) \in Seq(ParagraphRows)
           /\ Replaces(Without(gone) \o SetToSeq(S), gone, S)
<1> DEFINE f == Without(gone)
           new == f \o SetToSeq(S)
<1>1. \A p \in DOMAIN paragraphs : paragraphs[p] \in ParagraphRows
  BY DEF Tables
<1>2. f \in [DOMAIN paragraphs -> ParagraphRows]
  BY <1>1 DEF ParagraphRows, Without
<1>3. \A p \in DOMAIN paragraphs :
        /\ f[p].chapter = paragraphs[p].chapter /\ f[p].index = paragraphs[p].index
        /\ f[p].title = paragraphs[p].title
        /\ f[p].live <=> paragraphs[p].live /\ paragraphs[p].chapter \notin gone
  BY <1>1 DEF ParagraphRows, Without
<1> HIDE DEF f
<1>4. f \in Seq(ParagraphRows) /\ DOMAIN f = DOMAIN paragraphs
  BY <1>2 DEF Tables
<1>5. new \in Seq(ParagraphRows) /\ Appends(new, f, S)
  BY <1>4, AppendedSet, Zenon
<1> HIDE DEF new
<1>6. Replaces(new, gone, S)
  BY <1>3, <1>4, <1>5 DEF Appends, Replaces
<1> QED
  BY <1>5, <1>6 DEF new, f

\* The rows of a page whose m chapters, listed by cs, have the ids after n.
RowsOfPage(n, g, page, m, cs) == UNION {RowsOf(n + i, g, page[cs[i]]) : i \in 1..m}

LEMMA PageRows ==
    ASSUME NEW n \in Nat, NEW g \in Groups, NEW page \in Pages[g], NEW m \in Nat,
           NEW cs \in [1..m -> DOMAIN page]
    PROVE  LET S == RowsOfPage(n, g, page, m, cs)
           IN  /\ S \in SUBSET ParagraphRows /\ IsFiniteSet(S)
               /\ \A x \in S : x.chapter \in n+1 .. n+m /\ x.title = g /\ x.live
               /\ \A x, y \in S : x.chapter = y.chapter /\ x.index = y.index => x = y
<1> DEFINE T(i) == RowsOf(n + i, g, page[cs[i]])
           f == [i \in 1..m |-> T(i)]
           Ts == {T(i) : i \in 1..m}
           S == RowsOfPage(n, g, page, m, cs)
<1>1. ASSUME NEW i \in 1..m
      PROVE  /\ T(i) \in SUBSET ParagraphRows /\ IsFiniteSet(T(i))
             /\ \A x \in T(i) : x.chapter = n + i /\ x.title = g /\ x.live
             /\ \A x, y \in T(i) : x.index = y.index => x = y
  <2>1. n + i \in Nat /\ page[cs[i]] \in SUBSET Sections /\ IsFiniteSet(page[cs[i]])
    BY CatalogueAssumption
  <2> QED
    BY <2>1, RowsOfSections
<1>0. S = UNION Ts
  BY DEF RowsOfPage
<1> HIDE DEF T, S
<1>2. IsFiniteSet(Ts)
  <2>1. f \in Surjection(1..m, Ts)
    <3>1. f \in [1..m -> Ts] /\ \A t \in Ts : \E i \in 1..m : f[i] = t
      OBVIOUS
    <3> QED
      BY <3>1, Zenon DEF Surjection
  <2>2. IsFiniteSet(1..m)
    BY FS_Interval
  <2> HIDE DEF f, Ts
  <2> QED
    BY <2>1, <2>2, FS_Surjection
<1>3. \A t \in Ts : IsFiniteSet(t)
  BY <1>1
<1>4. IsFiniteSet(S)
  BY <1>0, <1>2, <1>3, FS_UNION
<1>5. \A x \in S : \E i \in 1..m : x \in T(i)
  BY <1>0
<1>6. S \in SUBSET ParagraphRows
  BY <1>1, <1>5
<1>7. \A x \in S : x.chapter \in n+1 .. n+m /\ x.title = g /\ x.live
  <2> SUFFICES ASSUME NEW x \in S
               PROVE  x.chapter \in n+1 .. n+m /\ x.title = g /\ x.live
    OBVIOUS
  <2>1. PICK i \in 1..m : x \in T(i)
    BY <1>5
  <2> QED
    BY <1>1, <2>1
<1>8. \A x, y \in S : x.chapter = y.chapter /\ x.index = y.index => x = y
  <2> SUFFICES ASSUME NEW x \in S, NEW y \in S, x.chapter = y.chapter, x.index = y.index
               PROVE  x = y
    OBVIOUS
  <2>1. PICK i \in 1..m : x \in T(i)
    BY <1>5
  <2>2. PICK j \in 1..m : y \in T(j)
    BY <1>5
  <2>3. i = j
    BY <1>1, <2>1, <2>2
  <2> QED
    BY <1>1, <2>1, <2>2, <2>3
<1> QED
  BY <1>4, <1>6, <1>7, <1>8 DEF S

-----------------------------------------------------------------------------
(* The script that runs, after a step.                                      *)

LEMMA ProceedJob ==
    ASSUME NEW left, Proceed(left)
    PROVE  /\ JobShape' /\ AtItem' /\ job'.left = left
           /\ job'.script \in {"none", job.script}
           /\ job'.script = "seed" => \A g \in left : job'.pages[g] = job.pages[g]
<1>1. CASE left = {}
  <2>1. job' = Idle
    BY <1>1 DEF Proceed
  <2> QED
    BY <1>1, <2>1 DEF Idle, JobShape, AtItem
<1>2. CASE left # {}
  <2> DEFINE pages == IF job.script = "seed" THEN Restrict(job.pages, left) ELSE <<>>
  <2>1. job' = [script |-> job.script, left |-> left, pages |-> pages, group |-> None,
                book |-> 0, rows |-> {}, open |-> <<>>]
    BY <1>2 DEF Proceed, Idle
  <2>2. job.script = "seed" => \A g \in left : pages[g] = job.pages[g]
    BY DEF Restrict
  <2> HIDE DEF pages
  <2> QED
    BY <2>1, <2>2 DEF JobShape, AtItem
<1> QED
  BY <1>1, <1>2

LEMMA BeginJob ==
    ASSUME NEW script, NEW left, Begin(script, left)
    PROVE  /\ JobShape' /\ AtItem' /\ job'.left = left /\ job'.script = script
           /\ script = "seed" => \A g \in left : job'.pages[g] = site[g]
<1> DEFINE pages == IF script = "seed" THEN Restrict(site, left) ELSE <<>>
<1>1. job' = [script |-> script, left |-> left, pages |-> pages, group |-> None,
              book |-> 0, rows |-> {}, open |-> <<>>]
  BY DEF Begin, Idle
<1>2. script = "seed" => \A g \in left : pages[g] = site[g]
  BY DEF Restrict
<1> HIDE DEF pages
<1> QED
  BY <1>1, <1>2 DEF JobShape, AtItem

-----------------------------------------------------------------------------
(* What the steps that write rows do to the tables.                         *)

LEMMA UpsertedBook ==
    ASSUME TypeInv, JobInv, UpsertBook
    PROVE  \E b \in DOMAIN books' :
             /\ books' \in Seq(BookRows) /\ DOMAIN books' = DOMAIN books \cup {b}
             /\ \A d \in DOMAIN books :
                  /\ books'[d].slug = books[d].slug /\ books'[d].cover = books[d].cover
                  /\ d # b => books'[d].of = books[d].of
             /\ books'[b].slug = SlugOf[job.group] /\ books'[b].of = job.group
             /\ b \notin DOMAIN books =>
                  /\ books'[b].cover = None
                  /\ \A d \in DOMAIN books : books[d].slug # SlugOf[job.group]
             /\ job' = [job EXCEPT !.book = b, !.rows = DOMAIN job.pages[job.group]]
<1> DEFINE g == job.group
<1>1. /\ g \in Groups /\ books \in Seq(BookRows)
      /\ \A d \in DOMAIN books : books[d] \in BookRows
  <2>1. g \in Groups
    BY DEF UpsertBook, JobInv, SeedJob
  <2> QED
    BY <2>1 DEF TypeInv, Tables
<1>2. CASE \E b \in DOMAIN books : /\ books[b].slug = SlugOf[g]
                                   /\ books' = [books EXCEPT ![b].of = g]
                                   /\ job' = [job EXCEPT !.book = b, !.rows = DOMAIN job.pages[g]]
  <2>1. PICK b \in DOMAIN books : /\ books[b].slug = SlugOf[g]
                                  /\ books' = [books EXCEPT ![b].of = g]
                                  /\ job' = [job EXCEPT !.book = b, !.rows = DOMAIN job.pages[g]]
    BY <1>2
  <2>2. books' \in Seq(BookRows) /\ DOMAIN books' = DOMAIN books
    <3> DEFINE row == [books[b] EXCEPT !.of = g]
    <3>1. row \in BookRows
      BY <1>1 DEF BookRows
    <3>2. books' = [books EXCEPT ![b] = row]
      BY <2>1
    <3> HIDE DEF row
    <3> QED
      BY <1>1, <3>1, <3>2
  <2>3. \A d \in DOMAIN books :
          /\ books'[d].slug = books[d].slug /\ books'[d].cover = books[d].cover
          /\ d # b => books'[d].of = books[d].of
    BY <1>1, <2>1 DEF BookRows
  <2>4. books'[b].slug = SlugOf[g] /\ books'[b].of = g
    BY <1>1, <2>1 DEF BookRows
  <2> QED
    BY <2>1, <2>2, <2>3, <2>4
<1>3. CASE /\ {b \in DOMAIN books : books[b].slug = SlugOf[g]} = {}
           /\ books' = Append(books, [slug |-> SlugOf[g], of |-> g, cover |-> None])
           /\ job' = [job EXCEPT !.book = Len(books'), !.rows = DOMAIN job.pages[g]]
  <2> DEFINE row == [slug |-> SlugOf[g], of |-> g, cover |-> None]
             b == Len(books')
  <2>1. row \in BookRows
    BY <1>1 DEF BookRows, Slugs
  <2>2. /\ row.slug = SlugOf[g] /\ row.of = g /\ row.cover = None
    OBVIOUS
  <2> HIDE DEF row
  <2>3. /\ books' \in Seq(BookRows) /\ b = Len(books) + 1 /\ b \in DOMAIN books'
        /\ DOMAIN books' = DOMAIN books \cup {b} /\ b \notin DOMAIN books
        /\ books'[b] = row /\ \A d \in DOMAIN books : books'[d] = books[d]
    BY <1>1, <1>3, <2>1 DEF row
  <2>4. \A d \in DOMAIN books : books[d].slug # SlugOf[g]
    BY <1>3
  <2> QED
    BY <1>3, <2>2, <2>3, <2>4
<1> QED
  BY <1>2, <1>3 DEF UpsertBook

LEMMA UpsertedChapter ==
    ASSUME TypeInv, JobInv, NEW c \in Numbers, UpsertChapter(c)
    PROVE  \E k \in DOMAIN chapters' :
             /\ chapters' \in Seq(ChapterRows) /\ DOMAIN chapters' = DOMAIN chapters \cup {k}
             /\ \A d \in DOMAIN chapters :
                  /\ chapters'[d].book = chapters[d].book /\ chapters'[d].index = chapters[d].index
                  /\ chapters'[d].live = chapters[d].live
                  /\ d # k => chapters'[d].title = chapters[d].title
             /\ chapters'[k].book = job.book /\ chapters'[k].index = c
             /\ chapters'[k].title = job.group /\ chapters'[k].live
             /\ k \notin DOMAIN chapters => \A d \in ChaptersOf(job.book) : chapters[d].index # c
             /\ job' = [job EXCEPT !.rows = @ \ {c}, !.open = <<k, c>>]
<1>1. /\ job.group \in Groups /\ job.book \in Nat /\ chapters \in Seq(ChapterRows)
      /\ \A d \in DOMAIN chapters : chapters[d] \in ChapterRows
  <2>1. job.group \in Groups /\ job.book \in DOMAIN books
    BY DEF UpsertChapter, JobInv, SeedJob
  <2> QED
    BY <2>1 DEF TypeInv, Tables
<1>2. CASE \E k \in KnownChapters(c) :
             /\ chapters' = [chapters EXCEPT ![k].title = job.group]
             /\ job' = [job EXCEPT !.rows = @ \ {c}, !.open = <<k, c>>]
  <2>1. PICK k \in KnownChapters(c) :
             /\ chapters' = [chapters EXCEPT ![k].title = job.group]
             /\ job' = [job EXCEPT !.rows = @ \ {c}, !.open = <<k, c>>]
    BY <1>2
  <2>2. /\ k \in DOMAIN chapters /\ chapters[k].live /\ chapters[k].book = job.book
        /\ chapters[k].index = c
    BY DEF KnownChapters, ChaptersOf
  <2>3. chapters' \in Seq(ChapterRows) /\ DOMAIN chapters' = DOMAIN chapters
    <3> DEFINE row == [chapters[k] EXCEPT !.title = job.group]
    <3>1. row \in ChapterRows
      BY <1>1, <2>2 DEF ChapterRows
    <3>2. chapters' = [chapters EXCEPT ![k] = row]
      BY <2>1
    <3> HIDE DEF row
    <3> QED
      BY <1>1, <2>2, <3>1, <3>2
  <2>4. \A d \in DOMAIN chapters :
          /\ chapters'[d].book = chapters[d].book /\ chapters'[d].index = chapters[d].index
          /\ chapters'[d].live = chapters[d].live
          /\ d # k => chapters'[d].title = chapters[d].title
    BY <1>1, <2>1 DEF ChapterRows
  <2>5. chapters'[k].title = job.group
    BY <1>1, <2>1, <2>2 DEF ChapterRows
  <2> QED
    BY <2>1, <2>2, <2>3, <2>4, <2>5
<1>3. CASE /\ KnownChapters(c) = {}
           /\ chapters' = Append(chapters, [book |-> job.book, index |-> c,
                                            title |-> job.group, live |-> TRUE])
           /\ job' = [job EXCEPT !.rows = @ \ {c}, !.open = <<Len(chapters'), c>>]
  <2> DEFINE row == [book |-> job.book, index |-> c, title |-> job.group, live |-> TRUE]
             k == Len(chapters')
  <2>1. row \in ChapterRows
    BY <1>1 DEF ChapterRows
  <2>2. /\ row.book = job.book /\ row.index = c /\ row.title = job.group /\ row.live
    OBVIOUS
  <2> HIDE DEF row
  <2>3. /\ chapters' \in Seq(ChapterRows) /\ k = Len(chapters) + 1 /\ k \in DOMAIN chapters'
        /\ DOMAIN chapters' = DOMAIN chapters \cup {k} /\ k \notin DOMAIN chapters
        /\ chapters'[k] = row /\ \A d \in DOMAIN chapters : chapters'[d] = chapters[d]
    BY <1>1, <1>3, <2>1 DEF row
  <2>4. \A d \in ChaptersOf(job.book) : chapters[d].index # c
    BY <1>3 DEF KnownChapters
  <2> QED
    BY <1>3, <2>2, <2>3, <2>4
<1> QED
  BY <1>2, <1>3 DEF UpsertChapter

LEMMA FlushedRows ==
    ASSUME TypeInv, JobInv, job.script = "seed"
    PROVE  LET new == Flushed
               k == job.open[1]
           IN  /\ new \in Seq(ParagraphRows)
               /\ DOMAIN paragraphs \subseteq DOMAIN new
               /\ \A p \in DOMAIN paragraphs :
                    /\ new[p].chapter = paragraphs[p].chapter /\ new[p].index = paragraphs[p].index
                    /\ new[p].live = paragraphs[p].live
                    /\ \/ new[p].title = paragraphs[p].title
                       \/ job.open # <<>> /\ paragraphs[p].chapter = k /\ new[p].title = job.group
               /\ \A p \in DOMAIN new \ DOMAIN paragraphs :
                    /\ job.open # <<>>
                    /\ new[p].chapter = k /\ new[p].title = job.group /\ new[p].live
                    /\ \A q \in ParagraphsOf(k) : paragraphs[q].index # new[p].index
               /\ \A p, q \in DOMAIN new \ DOMAIN paragraphs : new[p].index = new[q].index => p = q
               /\ job.open # <<>> =>
                    \A s \in job.pages[job.group][job.open[2]] :
                      \E p \in DOMAIN new : new[p].live /\ new[p].chapter = k /\ new[p].index = s
<1> DEFINE new == Flushed
<1>1. Tables
  BY DEF TypeInv
<1>2. CASE job.open = <<>>
  <2>1. new = paragraphs
    BY <1>2 DEF Flushed
  <2> HIDE DEF new
  <2> QED
    BY <1>1, <1>2, <2>1 DEF Tables, new
<1>3. CASE job.open # <<>>
  <2> DEFINE k == job.open[1]
             sections == job.pages[job.group][job.open[2]]
  <2>1. /\ job.group \in Groups /\ job.pages[job.group] \in Pages[job.group]
        /\ job.open[2] \in DOMAIN job.pages[job.group] /\ k \in DOMAIN chapters
    BY <1>3 DEF JobInv, SeedJob, ChaptersOf
  <2>2. sections \in SUBSET Sections /\ IsFiniteSet(sections)
    BY <2>1, CatalogueAssumption
  <2>3. k \in Nat
    BY <1>1, <2>1 DEF Tables
  <2>4. new = Saved(k, job.group, sections)
    BY <1>3 DEF Flushed
  <2> HIDE DEF k, sections
  <2>5. /\ Saved(k, job.group, sections) \in Seq(ParagraphRows)
        /\ Saves(Saved(k, job.group, sections), k, job.group, sections)
    BY <1>1, <2>1, <2>2, <2>3, SavedRows, Zenon
  <2>6. new \in Seq(ParagraphRows) /\ Saves(new, k, job.group, sections)
    BY <2>4, <2>5
  <2> HIDE DEF new
  <2> QED
    BY <1>3, <2>6, Zenon DEF new, k, sections, Saves
<1> QED
  BY <1>2, <1>3

LEMMA FixedChapter ==
    ASSUME TypeInv, JobInv, NEW k \in DOMAIN chapters, NEW c \in Numbers, NEW number \in Numbers,
           FixChapter(k, c, number)
    PROVE  /\ chapters' \in Seq(ChapterRows) /\ DOMAIN chapters' = DOMAIN chapters
           /\ \A d \in DOMAIN chapters :
                /\ chapters'[d].book = chapters[d].book /\ chapters'[d].live = chapters[d].live
                /\ d # k => chapters'[d] = chapters[d]
           /\ chapters'[k].title = job.group
           /\ paragraphs' \in Seq(ParagraphRows)
           /\ DOMAIN paragraphs \subseteq DOMAIN paragraphs'
           /\ \A p \in DOMAIN paragraphs :
                /\ paragraphs'[p].chapter = paragraphs[p].chapter
                /\ paragraphs'[p].index = paragraphs[p].index
                /\ paragraphs'[p].title = paragraphs[p].title
                /\ paragraphs'[p].live <=> paragraphs[p].live /\ paragraphs[p].chapter # k
           /\ \A p \in DOMAIN paragraphs' \ DOMAIN paragraphs :
                /\ paragraphs'[p].chapter = k /\ paragraphs'[p].title = job.group
                /\ paragraphs'[p].live
           /\ \A p, q \in DOMAIN paragraphs' \ DOMAIN paragraphs :
                paragraphs'[p].index = paragraphs'[q].index => p = q
           /\ \E p \in DOMAIN paragraphs' : paragraphs'[p].chapter = k /\ paragraphs'[p].live
           /\ job.group \in Groups /\ <<job.group, k>> \in job.left
<1> DEFINE sections == job.pages[job.group][c]
           S == RowsOf(k, job.group, sections)
<1>1. /\ Tables /\ k \in Nat
      /\ \A d \in DOMAIN chapters : chapters[d] \in ChapterRows
  BY DEF TypeInv, Tables
<1>2. /\ job.group \in Groups /\ job.pages[job.group] \in Pages[job.group]
      /\ <<job.group, k>> \in job.left /\ c \in DOMAIN job.pages[job.group]
      /\ sections # {}
  BY DEF FixChapter, JobInv, FixJob
<1>3. sections \in SUBSET Sections /\ IsFiniteSet(sections)
  BY <1>2, CatalogueAssumption
<1>4. chapters' = [chapters EXCEPT ![k].title = job.group, ![k].index = number]
  BY DEF FixChapter
<1>5. paragraphs' = Without({k}) \o SetToSeq(S)
  BY DEF FixChapter, NewParagraphs
<1> HIDE DEF sections
<1>6. /\ S \in SUBSET ParagraphRows /\ IsFiniteSet(S)
      /\ \A x \in S : x.chapter = k /\ x.index \in sections /\ x.title = job.group /\ x.live
      /\ \A s \in sections : \E x \in S : x.index = s
      /\ \A x, y \in S : x.index = y.index => x = y
  BY <1>1, <1>2, <1>3, RowsOfSections
<1> HIDE DEF S
<1>7. chapters' \in Seq(ChapterRows) /\ DOMAIN chapters' = DOMAIN chapters
  <2> DEFINE row == [chapters[k] EXCEPT !.title = job.group, !.index = number]
  <2>1. row \in ChapterRows
    BY <1>1, <1>2 DEF ChapterRows
  <2>2. chapters' = [chapters EXCEPT ![k] = row]
    BY <1>4
  <2> HIDE DEF row
  <2> QED
    BY <1>1, <2>1, <2>2 DEF Tables
<1>8. /\ \A d \in DOMAIN chapters :
           /\ chapters'[d].book = chapters[d].book /\ chapters'[d].live = chapters[d].live
           /\ d # k => chapters'[d] = chapters[d]
      /\ chapters'[k].title = job.group
  BY <1>1, <1>4 DEF ChapterRows
<1> DEFINE new == Without({k}) \o SetToSeq(S)
<1>9. paragraphs' \in Seq(ParagraphRows) /\ Replaces(paragraphs', {k}, S)
  <2>1. new \in Seq(ParagraphRows) /\ Replaces(new, {k}, S)
    BY <1>1, <1>6, ReplacedRows, Zenon
  <2> QED
    BY <1>5, <2>1, Zenon
<1> HIDE DEF new
<1>10. /\ \A p \in DOMAIN paragraphs' \ DOMAIN paragraphs :
            /\ paragraphs'[p].chapter = k /\ paragraphs'[p].title = job.group
            /\ paragraphs'[p].live
       /\ \A p, q \in DOMAIN paragraphs' \ DOMAIN paragraphs :
            paragraphs'[p].index = paragraphs'[q].index => p = q
  BY <1>6, <1>9 DEF Replaces
<1>11. \E p \in DOMAIN paragraphs' : paragraphs'[p].chapter = k /\ paragraphs'[p].live
  BY <1>2, <1>6, <1>9 DEF Replaces
<1> QED
  BY <1>2, <1>7, <1>8, <1>9, <1>10, <1>11 DEF Replaces

LEMMA RebuiltBook ==
    ASSUME TypeInv, JobInv, NEW g \in Groups, NEW number \in [DOMAIN site[g] -> Numbers],
           RebuildBook(g, number)
    PROVE  \E b \in DOMAIN books :
             /\ books[b].of = g /\ repaired' = repaired \cup {books[b].slug}
             /\ chapters' \in Seq(ChapterRows) /\ DOMAIN chapters \subseteq DOMAIN chapters'
             /\ \A k \in DOMAIN chapters :
                  /\ chapters'[k].book = chapters[k].book /\ chapters'[k].index = chapters[k].index
                  /\ chapters'[k].title = chapters[k].title
                  /\ chapters'[k].live <=> chapters[k].live /\ chapters[k].book # b
             /\ \A k \in DOMAIN chapters' \ DOMAIN chapters :
                  chapters'[k].book = b /\ chapters'[k].title = g /\ chapters'[k].live
             /\ DOMAIN chapters' \ DOMAIN chapters # {}
             /\ paragraphs' \in Seq(ParagraphRows)
             /\ DOMAIN paragraphs \subseteq DOMAIN paragraphs'
             /\ \A p \in DOMAIN paragraphs :
                  /\ paragraphs'[p].chapter = paragraphs[p].chapter
                  /\ paragraphs'[p].index = paragraphs[p].index
                  /\ paragraphs'[p].title = paragraphs[p].title
                  /\ paragraphs'[p].live <=>
                       paragraphs[p].live /\ paragraphs[p].chapter \notin ChaptersOf(b)
             /\ \A p \in DOMAIN paragraphs' \ DOMAIN paragraphs :
                  /\ paragraphs'[p].chapter \in DOMAIN chapters' \ DOMAIN chapters
                  /\ paragraphs'[p].title = g /\ paragraphs'[p].live
             /\ \A p, q \in DOMAIN paragraphs' \ DOMAIN paragraphs :
                  paragraphs'[p].chapter = paragraphs'[q].chapter
                    /\ paragraphs'[p].index = paragraphs'[q].index => p = q
<1> DEFINE page == site[g]
           cs == SetToSeq(DOMAIN page)
           m == Len(cs)
           S == RowsOfPage(Len(chapters), g, page, m, cs)
           old(b) == [k \in DOMAIN chapters |->
                        IF k \in ChaptersOf(b) THEN [chapters[k] EXCEPT !.live = FALSE]
                        ELSE chapters[k]]
           new(b) == [i \in 1..m |->
                        [book |-> b, index |-> number[cs[i]], title |-> g, live |-> TRUE]]
<1>1. PICK b \in DOMAIN books :
        /\ books[b].of = g
        /\ chapters' = old(b) \o new(b)
        /\ paragraphs' = Without(ChaptersOf(b)) \o SetToSeq(S)
        /\ repaired' = repaired \cup {books[b].slug}
  BY Zenon DEF RebuildBook, RowsOfPage
<1>2. /\ Tables /\ b \in Nat /\ Len(chapters) \in Nat
      /\ \A d \in DOMAIN chapters : chapters[d] \in ChapterRows
  BY DEF TypeInv, Tables
<1>3. page \in Pages[g]
  BY DEF TypeInv, Sites
<1>4. DOMAIN page # {} /\ IsFiniteSet(DOMAIN page)
  BY <1>3, CatalogueAssumption
<1> HIDE DEF page
<1>5. cs \in Seq(DOMAIN page) /\ \A c \in DOMAIN page : \E i \in DOMAIN cs : cs[i] = c
  BY <1>4, SetToSeqLists
<1> HIDE DEF cs
<1>6. m \in Nat /\ cs \in [1..m -> DOMAIN page] /\ 1..m # {}
  <2>1. m \in Nat /\ DOMAIN cs = 1..m /\ cs \in [1..m -> DOMAIN page]
    BY <1>5
  <2>2. PICK i \in DOMAIN cs : TRUE
    BY <1>4, <1>5
  <2> QED
    BY <2>1, <2>2
<1> HIDE DEF m
<1>7. /\ S \in SUBSET ParagraphRows /\ IsFiniteSet(S)
      /\ \A x \in S : x.chapter \in Len(chapters)+1 .. Len(chapters)+m /\ x.title = g /\ x.live
      /\ \A x, y \in S : x.chapter = y.chapter /\ x.index = y.index => x = y
  BY <1>2, <1>3, <1>6, PageRows
<1> HIDE DEF S
<1>8. /\ old(b) \in Seq(ChapterRows) /\ DOMAIN old(b) = DOMAIN chapters
      /\ Len(old(b)) = Len(chapters)
      /\ \A k \in DOMAIN chapters :
           /\ old(b)[k].book = chapters[k].book /\ old(b)[k].index = chapters[k].index
           /\ old(b)[k].title = chapters[k].title
           /\ old(b)[k].live <=> chapters[k].live /\ chapters[k].book # b
  <2>1. old(b) \in [DOMAIN chapters -> ChapterRows]
    BY <1>2 DEF ChapterRows
  <2>2. \A k \in DOMAIN chapters :
           /\ old(b)[k].book = chapters[k].book /\ old(b)[k].index = chapters[k].index
           /\ old(b)[k].title = chapters[k].title
           /\ old(b)[k].live <=> chapters[k].live /\ chapters[k].book # b
    BY <1>2 DEF ChapterRows, ChaptersOf
  <2> HIDE DEF old
  <2> QED
    BY <1>2, <2>1, <2>2 DEF Tables
<1>9. /\ new(b) \in Seq(ChapterRows) /\ DOMAIN new(b) = 1..m
      /\ \A i \in 1..m : new(b)[i].book = b /\ new(b)[i].title = g /\ new(b)[i].live
  <2>1. \A i \in 1..m : number[cs[i]] \in Numbers
    BY <1>6 DEF page
  <2>2. new(b) \in [1..m -> ChapterRows]
    BY <1>2, <2>1 DEF ChapterRows
  <2>3. \A i \in 1..m : new(b)[i].book = b /\ new(b)[i].title = g /\ new(b)[i].live
    OBVIOUS
  <2> HIDE DEF new
  <2> QED
    BY <1>6, <2>2, <2>3
<1> HIDE DEF old, new
<1> DEFINE all == old(b) \o new(b)
<1>10. /\ chapters' \in Seq(ChapterRows)
       /\ DOMAIN chapters \subseteq DOMAIN chapters'
       /\ \A k \in DOMAIN chapters : chapters'[k] = old(b)[k]
       /\ \A k \in DOMAIN chapters' \ DOMAIN chapters :
            k - Len(chapters) \in 1..m /\ chapters'[k] = new(b)[k - Len(chapters)]
       /\ \A i \in 1..m : i + Len(chapters) \in DOMAIN chapters' \ DOMAIN chapters
  <2>1. all \in Seq(ChapterRows) /\ Concatenates(all, old(b), new(b))
    BY <1>8, <1>9, AppendedRows, Zenon
  <2>2. chapters' = all
    BY <1>1
  <2> HIDE DEF all
  <2> QED
    BY <1>8, <1>9, <2>1, <2>2 DEF Concatenates
<1> HIDE DEF all
<1>11. /\ \A k \in DOMAIN chapters :
            /\ chapters'[k].book = chapters[k].book /\ chapters'[k].index = chapters[k].index
            /\ chapters'[k].title = chapters[k].title
            /\ chapters'[k].live <=> chapters[k].live /\ chapters[k].book # b
       /\ \A k \in DOMAIN chapters' \ DOMAIN chapters :
            chapters'[k].book = b /\ chapters'[k].title = g /\ chapters'[k].live
       /\ DOMAIN chapters' \ DOMAIN chapters # {}
  <2>1. PICK first \in 1..m : TRUE
    BY <1>6
  <2>2. DOMAIN chapters' \ DOMAIN chapters # {}
    BY <1>10, <2>1
  <2>3. \A k \in DOMAIN chapters :
          /\ chapters'[k].book = chapters[k].book /\ chapters'[k].index = chapters[k].index
          /\ chapters'[k].title = chapters[k].title
          /\ chapters'[k].live <=> chapters[k].live /\ chapters[k].book # b
    <3>1. \A k \in DOMAIN chapters : chapters'[k] = old(b)[k]
      BY <1>10
    <3> QED
      BY <1>8, <3>1
  <2>4. \A k \in DOMAIN chapters' \ DOMAIN chapters :
          chapters'[k].book = b /\ chapters'[k].title = g /\ chapters'[k].live
    <3>1. \A k \in DOMAIN chapters' \ DOMAIN chapters :
            k - Len(chapters) \in 1..m /\ chapters'[k] = new(b)[k - Len(chapters)]
      BY <1>10
    <3>2. \A i \in 1..m : new(b)[i].book = b /\ new(b)[i].title = g /\ new(b)[i].live
      BY <1>9
    <3> QED
      BY <3>1, <3>2
  <2> QED
    BY <2>2, <2>3, <2>4
<1> DEFINE news == Without(ChaptersOf(b)) \o SetToSeq(S)
<1>12. paragraphs' \in Seq(ParagraphRows) /\ Replaces(paragraphs', ChaptersOf(b), S)
  <2>1. news \in Seq(ParagraphRows) /\ Replaces(news, ChaptersOf(b), S)
    BY <1>2, <1>7, ReplacedRows, Zenon
  <2> QED
    BY <1>1, <2>1, Zenon
<1> HIDE DEF news
<1>13. \A n \in Len(chapters)+1 .. Len(chapters)+m : n \in DOMAIN chapters' \ DOMAIN chapters
  <2> SUFFICES ASSUME NEW n \in Len(chapters)+1 .. Len(chapters)+m
               PROVE  n \in DOMAIN chapters' \ DOMAIN chapters
    OBVIOUS
  <2>1. n - Len(chapters) \in 1..m /\ (n - Len(chapters)) + Len(chapters) = n
    BY <1>2, <1>6
  <2> QED
    BY <1>10, <2>1
<1>14. \A p \in DOMAIN paragraphs' \ DOMAIN paragraphs :
         /\ paragraphs'[p].chapter \in DOMAIN chapters' \ DOMAIN chapters
         /\ paragraphs'[p].title = g /\ paragraphs'[p].live
  BY <1>7, <1>12, <1>13 DEF Replaces
<1>15. \A p, q \in DOMAIN paragraphs' \ DOMAIN paragraphs :
         paragraphs'[p].chapter = paragraphs'[q].chapter
           /\ paragraphs'[p].index = paragraphs'[q].index => p = q
  BY <1>7, <1>12 DEF Replaces
<1>16. /\ DOMAIN paragraphs \subseteq DOMAIN paragraphs'
       /\ \A p \in DOMAIN paragraphs :
            /\ paragraphs'[p].chapter = paragraphs[p].chapter
            /\ paragraphs'[p].index = paragraphs[p].index
            /\ paragraphs'[p].title = paragraphs[p].title
            /\ paragraphs'[p].live <=>
                 paragraphs[p].live /\ paragraphs[p].chapter \notin ChaptersOf(b)
  BY <1>12 DEF Replaces
<1> WITNESS b \in DOMAIN books
<1> QED
  BY <1>1, <1>10, <1>11, <1>12, <1>14, <1>15, <1>16

LEMMA SavedCover ==
    ASSUME TypeInv, JobInv, SaveCover
    PROVE  /\ job.book \in DOMAIN books /\ job.group \in Groups
           /\ SlugOf[job.group] = books[job.book].slug /\ job.group \in bucket
           /\ books' \in Seq(BookRows) /\ DOMAIN books' = DOMAIN books
           /\ \A d \in DOMAIN books :
                /\ books'[d].slug = books[d].slug /\ books'[d].of = books[d].of
                /\ d # job.book => books'[d].cover = books[d].cover
           /\ books'[job.book].cover = job.group
<1>1. /\ <<job.book, job.group>> \in job.left /\ job.group \in bucket
      /\ job.left \subseteq (DOMAIN books) \X Groups
      /\ \A item \in job.left : SlugOf[item[2]] = books[item[1]].slug
  BY DEF SaveCover, JobInv, CoversJob
<1>2. /\ job.book \in DOMAIN books /\ job.group \in Groups
      /\ SlugOf[job.group] = books[job.book].slug
  BY <1>1
<1>3. books \in Seq(BookRows) /\ \A d \in DOMAIN books : books[d] \in BookRows
  BY DEF TypeInv, Tables
<1>4. books' = [books EXCEPT ![job.book].cover = job.group]
  BY DEF SaveCover
<1>5. books' \in Seq(BookRows) /\ DOMAIN books' = DOMAIN books
  <2> DEFINE row == [books[job.book] EXCEPT !.cover = job.group]
  <2>1. row \in BookRows
    BY <1>2, <1>3 DEF BookRows
  <2>2. books' = [books EXCEPT ![job.book] = row]
    BY <1>4
  <2> HIDE DEF row
  <2> QED
    BY <1>2, <1>3, <2>1, <2>2
<1>6. \A d \in DOMAIN books :
        /\ books'[d].slug = books[d].slug /\ books'[d].of = books[d].of
        /\ d # job.book => books'[d].cover = books[d].cover
  BY <1>3, <1>4 DEF BookRows
<1>7. books'[job.book].cover = job.group
  BY <1>2, <1>3, <1>4 DEF BookRows
<1> QED
  BY <1>1, <1>2, <1>5, <1>6, <1>7

-----------------------------------------------------------------------------
(* What every step keeps of the rows.                                       *)

Quiet == UNCHANGED <<books, chapters, paragraphs, repaired>>

LEMMA StepCases ==
    ASSUME [Next]_vars
    PROVE  \/ Quiet
           \/ UpsertBook
           \/ \E c \in Numbers : UpsertChapter(c)
           \/ SaveGroup
           \/ \E k \in DOMAIN chapters, c \in Numbers, number \in Numbers : FixChapter(k, c, number)
           \/ \E g \in Groups : \E number \in [DOMAIN site[g] -> Numbers] : RebuildBook(g, number)
           \/ SaveCover
<1>1. CASE Seed
  BY <1>1, Zenon DEF Seed, StartSeed, Begin, UpsertMethod, Quiet, tables
<1>2. CASE Fix
  BY <1>2, Zenon DEF Fix, Export, StartFix, Begin, FetchPage, SkipRow, Quiet, tables
<1>3. CASE Rebuild
  BY <1>3, Zenon DEF Rebuild, StartRebuild, Begin, SkipBook, Quiet, tables
<1>4. CASE Covers
  BY <1>4, Zenon DEF Covers, StartCovers, Begin, SkipCover, UploadToR2, Quiet, tables
<1>5. CASE Planning
  BY <1>5, Zenon DEF Planning, CheckSelection, CreatePlan, BuildContext, Quiet, tables
<1>6. CASE (\E g \in Groups : \E page \in Pages[g] : Publish(g, page)) \/ Stop
  BY <1>6, Zenon DEF Publish, Stop, Quiet, tables
<1>7. CASE UNCHANGED vars
  BY <1>7 DEF vars, tables, Quiet
<1> QED
  BY <1>1, <1>2, <1>3, <1>4, <1>5, <1>6, <1>7, Zenon DEF Next

\* A row is never removed; book and number of a row, and the slug of a book, stay; a row that
\* was deleted is not seen again.
RowsKept ==
    /\ DOMAIN books \subseteq DOMAIN books'
    /\ \A b \in DOMAIN books : books'[b].slug = books[b].slug
    /\ DOMAIN chapters \subseteq DOMAIN chapters'
    /\ \A k \in DOMAIN chapters :
         chapters'[k].book = chapters[k].book /\ (chapters'[k].live => chapters[k].live)
    /\ \A k \in DOMAIN chapters' \ DOMAIN chapters : chapters'[k].live
    /\ DOMAIN paragraphs \subseteq DOMAIN paragraphs'
    /\ \A p \in DOMAIN paragraphs :
         /\ paragraphs'[p].chapter = paragraphs[p].chapter
         /\ paragraphs'[p].index = paragraphs[p].index
         /\ paragraphs'[p].live => paragraphs[p].live
    /\ \A p \in DOMAIN paragraphs' \ DOMAIN paragraphs : paragraphs'[p].live

\* Rows of a book that no repair has touched are neither deleted nor numbered anew.
OnlyRepairsDelete ==
    /\ repaired \subseteq repaired'
    /\ \A k \in DOMAIN chapters :
         \/ books[chapters[k].book].slug \in repaired'
         \/ chapters'[k].live = chapters[k].live /\ chapters'[k].index = chapters[k].index
    /\ \A p \in DOMAIN paragraphs :
         \/ books[BookOfParagraph(p)].slug \in repaired'
         \/ paragraphs'[p].live = paragraphs[p].live

LEMMA QuietKeeps ==
    ASSUME TypeInv, Quiet
    PROVE  Tables' /\ References' /\ RowsKept /\ OnlyRepairsDelete
  BY DEF TypeInv, Tables, References, Quiet, RowsKept, OnlyRepairsDelete, BookOfParagraph

LEMMA BooksStepKeeps ==
    ASSUME TypeInv, JobInv, UpsertBook \/ SaveCover
    PROVE  Tables' /\ References' /\ RowsKept /\ OnlyRepairsDelete
<1>1. UNCHANGED <<chapters, paragraphs, repaired>>
  BY DEF UpsertBook, SaveCover
<1>2. /\ books' \in Seq(BookRows) /\ DOMAIN books \subseteq DOMAIN books'
      /\ \A b \in DOMAIN books : books'[b].slug = books[b].slug
  <2>1. CASE UpsertBook
    BY <2>1, UpsertedBook
  <2>2. CASE SaveCover
    BY <2>2, SavedCover
  <2> QED
    BY <2>1, <2>2
<1>3. Tables' /\ References'
  BY <1>1, <1>2 DEF TypeInv, Tables, References
<1>4. RowsKept
  BY <1>1, <1>2 DEF RowsKept
<1>5. OnlyRepairsDelete
  BY <1>1 DEF OnlyRepairsDelete
<1> QED
  BY <1>3, <1>4, <1>5

\* The chapter in the session, if there is one, is a live one of the book that is seeded.
LEMMA OpenChapter ==
    ASSUME JobInv, job.script = "seed", job.open # <<>>
    PROVE  /\ job.open[1] \in DOMAIN chapters /\ chapters[job.open[1]].live
           /\ chapters[job.open[1]].book = job.book
           /\ job.book \in DOMAIN books /\ books[job.book].slug = SlugOf[job.group]
  BY DEF JobInv, SeedJob, ChaptersOf

LEMMA UpsertChapterKeeps ==
    ASSUME TypeInv, JobInv, NEW c \in Numbers, UpsertChapter(c)
    PROVE  Tables' /\ References' /\ RowsKept /\ OnlyRepairsDelete
<1>1. UNCHANGED <<books, repaired>> /\ paragraphs' = Flushed /\ job.script = "seed"
      /\ job.book \in DOMAIN books
  BY DEF UpsertChapter, JobInv, SeedJob
<1>2. PICK k \in DOMAIN chapters' :
        /\ chapters' \in Seq(ChapterRows) /\ DOMAIN chapters' = DOMAIN chapters \cup {k}
        /\ \A d \in DOMAIN chapters :
             /\ chapters'[d].book = chapters[d].book /\ chapters'[d].index = chapters[d].index
             /\ chapters'[d].live = chapters[d].live
        /\ chapters'[k].book = job.book /\ chapters'[k].live
  BY UpsertedChapter
<1>3. /\ paragraphs' \in Seq(ParagraphRows)
      /\ DOMAIN paragraphs \subseteq DOMAIN paragraphs'
      /\ \A p \in DOMAIN paragraphs :
           /\ paragraphs'[p].chapter = paragraphs[p].chapter
           /\ paragraphs'[p].index = paragraphs[p].index
           /\ paragraphs'[p].live = paragraphs[p].live
      /\ \A p \in DOMAIN paragraphs' \ DOMAIN paragraphs :
           /\ paragraphs'[p].live /\ paragraphs'[p].chapter \in DOMAIN chapters
           /\ chapters[paragraphs'[p].chapter].live
  BY <1>1, FlushedRows, OpenChapter
<1>4. Tables'
  BY <1>1, <1>2, <1>3 DEF TypeInv, Tables
<1>5. References'
  BY <1>1, <1>2, <1>3 DEF TypeInv, References
<1>6. RowsKept
  BY <1>1, <1>2, <1>3 DEF RowsKept
<1>7. OnlyRepairsDelete
  BY <1>1, <1>2, <1>3 DEF OnlyRepairsDelete
<1> QED
  BY <1>4, <1>5, <1>6, <1>7

LEMMA SaveGroupKeeps ==
    ASSUME TypeInv, JobInv, SaveGroup
    PROVE  Tables' /\ References' /\ RowsKept /\ OnlyRepairsDelete
<1>1. UNCHANGED <<books, chapters, repaired>> /\ paragraphs' = Flushed /\ job.script = "seed"
  BY DEF SaveGroup
<1>2. /\ paragraphs' \in Seq(ParagraphRows)
      /\ DOMAIN paragraphs \subseteq DOMAIN paragraphs'
      /\ \A p \in DOMAIN paragraphs :
           /\ paragraphs'[p].chapter = paragraphs[p].chapter
           /\ paragraphs'[p].index = paragraphs[p].index
           /\ paragraphs'[p].live = paragraphs[p].live
      /\ \A p \in DOMAIN paragraphs' \ DOMAIN paragraphs :
           /\ paragraphs'[p].live /\ paragraphs'[p].chapter \in DOMAIN chapters
           /\ chapters[paragraphs'[p].chapter].live
  BY <1>1, FlushedRows, OpenChapter
<1>3. Tables'
  BY <1>1, <1>2 DEF TypeInv, Tables
<1>4. References'
  BY <1>1, <1>2 DEF TypeInv, References
<1>5. RowsKept
  BY <1>1, <1>2 DEF RowsKept
<1>6. OnlyRepairsDelete
  BY <1>1, <1>2 DEF OnlyRepairsDelete
<1> QED
  BY <1>3, <1>4, <1>5, <1>6

LEMMA FixChapterKeeps ==
    ASSUME TypeInv, JobInv, NEW k \in DOMAIN chapters, NEW c \in Numbers, NEW number \in Numbers,
           FixChapter(k, c, number)
    PROVE  Tables' /\ References' /\ RowsKept /\ OnlyRepairsDelete
<1>1. /\ UNCHANGED books /\ repaired' = repaired \cup {books[chapters[k].book].slug}
      /\ chapters[k].live
  BY DEF FixChapter
<1>2. /\ chapters' \in Seq(ChapterRows) /\ DOMAIN chapters' = DOMAIN chapters
      /\ \A d \in DOMAIN chapters :
           /\ chapters'[d].book = chapters[d].book /\ chapters'[d].live = chapters[d].live
           /\ d # k => chapters'[d] = chapters[d]
      /\ paragraphs' \in Seq(ParagraphRows)
      /\ DOMAIN paragraphs \subseteq DOMAIN paragraphs'
      /\ \A p \in DOMAIN paragraphs :
           /\ paragraphs'[p].chapter = paragraphs[p].chapter
           /\ paragraphs'[p].index = paragraphs[p].index
           /\ paragraphs'[p].live <=> paragraphs[p].live /\ paragraphs[p].chapter # k
      /\ \A p \in DOMAIN paragraphs' \ DOMAIN paragraphs :
           paragraphs'[p].chapter = k /\ paragraphs'[p].live
  BY FixedChapter
<1>3. Tables'
  BY <1>1, <1>2 DEF TypeInv, Tables
<1>4. References'
  BY <1>1, <1>2 DEF TypeInv, References
<1>5. RowsKept
  BY <1>1, <1>2 DEF RowsKept
<1>6. OnlyRepairsDelete
  <2>1. \A p \in DOMAIN paragraphs : paragraphs[p].live \in BOOLEAN /\ paragraphs'[p].live \in BOOLEAN
    <3>1. \A p \in DOMAIN paragraphs :
            paragraphs[p] \in ParagraphRows /\ paragraphs'[p] \in ParagraphRows
      BY <1>2 DEF TypeInv, Tables
    <3> QED
      BY <3>1 DEF ParagraphRows
  <2> QED
    BY <1>1, <1>2, <2>1 DEF OnlyRepairsDelete, BookOfParagraph
<1> QED
  BY <1>3, <1>4, <1>5, <1>6

LEMMA RebuildBookKeeps ==
    ASSUME TypeInv, JobInv, NEW g \in Groups, NEW number \in [DOMAIN site[g] -> Numbers],
           RebuildBook(g, number)
    PROVE  Tables' /\ References' /\ RowsKept /\ OnlyRepairsDelete
<1>1. UNCHANGED books
  BY DEF RebuildBook
<1>2. PICK b \in DOMAIN books :
        /\ repaired' = repaired \cup {books[b].slug}
        /\ chapters' \in Seq(ChapterRows) /\ DOMAIN chapters \subseteq DOMAIN chapters'
        /\ \A k \in DOMAIN chapters :
             /\ chapters'[k].book = chapters[k].book /\ chapters'[k].index = chapters[k].index
             /\ chapters'[k].live <=> chapters[k].live /\ chapters[k].book # b
        /\ \A k \in DOMAIN chapters' \ DOMAIN chapters : chapters'[k].book = b /\ chapters'[k].live
        /\ paragraphs' \in Seq(ParagraphRows)
        /\ DOMAIN paragraphs \subseteq DOMAIN paragraphs'
        /\ \A p \in DOMAIN paragraphs :
             /\ paragraphs'[p].chapter = paragraphs[p].chapter
             /\ paragraphs'[p].index = paragraphs[p].index
             /\ paragraphs'[p].live <=>
                  paragraphs[p].live /\ paragraphs[p].chapter \notin ChaptersOf(b)
        /\ \A p \in DOMAIN paragraphs' \ DOMAIN paragraphs :
             paragraphs'[p].chapter \in DOMAIN chapters' \ DOMAIN chapters /\ paragraphs'[p].live
  BY RebuiltBook
<1>3. Tables'
  BY <1>1, <1>2 DEF TypeInv, Tables
<1>4. References'
  BY <1>1, <1>2 DEF TypeInv, References, ChaptersOf
<1>5. RowsKept
  BY <1>1, <1>2 DEF RowsKept
<1>6. OnlyRepairsDelete
  <2>1. /\ \A k \in DOMAIN chapters : chapters[k].live \in BOOLEAN /\ chapters'[k].live \in BOOLEAN
        /\ \A p \in DOMAIN paragraphs :
             paragraphs[p].live \in BOOLEAN /\ paragraphs'[p].live \in BOOLEAN
    <3>1. /\ \A k \in DOMAIN chapters : chapters[k] \in ChapterRows /\ chapters'[k] \in ChapterRows
          /\ \A p \in DOMAIN paragraphs :
               paragraphs[p] \in ParagraphRows /\ paragraphs'[p] \in ParagraphRows
      BY <1>2 DEF TypeInv, Tables
    <3> QED
      BY <3>1 DEF ParagraphRows, ChapterRows
  <2> QED
    BY <1>1, <1>2, <2>1 DEF OnlyRepairsDelete, BookOfParagraph, ChaptersOf
<1> QED
  BY <1>3, <1>4, <1>5, <1>6

LEMMA StepKeepsRows ==
    ASSUME TypeInv, JobInv, [Next]_vars
    PROVE  Tables' /\ References' /\ RowsKept /\ OnlyRepairsDelete
  BY StepCases, QuietKeeps, BooksStepKeeps, UpsertChapterKeeps, SaveGroupKeeps, FixChapterKeeps,
     RebuildBookKeeps, Zenon

-----------------------------------------------------------------------------
(* The job: a step of a script leaves it where the script expects to be.    *)

LEMMA ProceedKeepsJob ==
    ASSUME JobInv, RowsKept, csv' = csv, NEW left, Proceed(left), left \subseteq job.left
    PROVE  JobInv'
<1>1. /\ JobShape' /\ AtItem' /\ job'.left = left
      /\ job'.script \in {"none", job.script}
      /\ job'.script = "seed" => \A g \in left : job'.pages[g] = job.pages[g]
  BY ProceedJob
<1>2. CASE job'.script = "none"
  BY <1>1, <1>2 DEF JobInv
<1>3. CASE job'.script = "seed" /\ job.script = "seed"
  <2>1. left \subseteq Groups /\ \A g \in left : job'.pages[g] \in Pages[g]
    BY <1>1, <1>3 DEF JobInv, SeedJob
  <2> QED
    BY <1>1, <1>3, <2>1 DEF JobInv, SeedJob, AtItem
<1>4. CASE job'.script = "fix" /\ job.script = "fix"
  BY <1>1, <1>4 DEF JobInv, FixJob, AtItem
<1>5. CASE job'.script = "rebuild" /\ job.script = "rebuild"
  BY <1>1, <1>5 DEF JobInv
<1>6. CASE job'.script = "covers" /\ job.script = "covers"
  <2>1. /\ left \subseteq (DOMAIN books) \X Groups
        /\ \A item \in left : SlugOf[item[2]] = books[item[1]].slug
    BY <1>6 DEF JobInv, CoversJob
  <2>2. /\ left \subseteq (DOMAIN books') \X Groups
        /\ \A item \in left : SlugOf[item[2]] = books'[item[1]].slug
    BY <2>1 DEF RowsKept
  <2> QED
    BY <1>1, <1>6, <2>2 DEF JobInv, CoversJob, AtItem
<1> QED
  BY <1>1, <1>2, <1>3, <1>4, <1>5, <1>6 DEF JobInv

LEMMA BeginKeepsJob ==
    ASSUME TypeInv, Apart, StartSeed \/ StartFix \/ StartRebuild \/ StartCovers
    PROVE  JobInv'
<1>1. UNCHANGED <<books, chapters, methods, bucket, csv>>
  BY DEF StartSeed, StartFix, StartRebuild, StartCovers, Begin, tables
<1>2. CASE StartSeed
  <2>1. PICK gs \in SUBSET Groups : Begin("seed", gs)
    BY <1>2 DEF StartSeed
  <2>2. JobShape' /\ AtItem' /\ job'.left = gs /\ job'.script = "seed"
    BY <2>1, BeginJob
  <2>3. \A g \in gs : job'.pages[g] \in Pages[g]
    BY <2>1, BeginJob DEF TypeInv, Sites
  <2> QED
    BY <2>2, <2>3 DEF JobInv, SeedJob, AtItem
<1>3. CASE StartFix
  <2>1. PICK rows \in SUBSET csv : Begin("fix", rows)
    BY <1>3 DEF StartFix
  <2>2. JobShape' /\ AtItem' /\ job'.left = rows /\ job'.script = "fix"
    BY <2>1, BeginJob
  <2> QED
    BY <1>1, <2>2 DEF JobInv, FixJob, AtItem
<1>4. CASE StartRebuild
  <2>1. PICK gs \in SUBSET {row[1] : row \in csv} : Begin("rebuild", gs)
    BY <1>4 DEF StartRebuild
  <2>2. JobShape' /\ AtItem' /\ job'.left = gs /\ job'.script = "rebuild"
    BY <2>1, BeginJob
  <2>3. gs \subseteq Groups
    BY DEF TypeInv
  <2> QED
    BY <2>2, <2>3 DEF JobInv
<1>5. CASE StartCovers
  <2> DEFINE left == {<<b, books[b].of>> : b \in {c \in DOMAIN books : books[c].cover = None}}
  <2>1. JobShape' /\ AtItem' /\ job'.left = left /\ job'.script = "covers"
    BY <1>5, BeginJob DEF StartCovers
  <2>2. \A b \in DOMAIN books : books[b].of \in Groups /\ SlugOf[books[b].of] = books[b].slug
    <3>1. \A b \in DOMAIN books : books[b] \in BookRows
      BY DEF TypeInv, Tables
    <3> QED
      BY <3>1 DEF BookRows, Apart, OwnBooks
  <2>3. /\ left \subseteq (DOMAIN books) \X Groups
        /\ \A item \in left : SlugOf[item[2]] = books[item[1]].slug
    BY <2>2
  <2> HIDE DEF left
  <2> QED
    BY <1>1, <2>1, <2>3 DEF JobInv, CoversJob, AtItem
<1> QED
  BY <1>2, <1>3, <1>4, <1>5

\* A step that is not the script's.
LEMMA SameJob ==
    ASSUME JobInv, UNCHANGED <<job, books, chapters, methods, bucket>>,
           csv' = csv \/ job = Idle
    PROVE  JobInv'
<1>1. JobShape'
  BY DEF JobInv, JobShape
<1>2. CASE job.script = "none"
  BY <1>1, <1>2 DEF JobInv
<1>3. CASE job.script = "seed"
  BY <1>1, <1>3 DEF JobInv, SeedJob, ChaptersOf
<1>4. CASE job.script = "fix"
  <2>1. csv' = csv
    BY <1>4 DEF Idle
  <2> QED
    BY <1>1, <1>4, <2>1 DEF JobInv, FixJob
<1>5. CASE job.script = "rebuild"
  BY <1>1, <1>5 DEF JobInv
<1>6. CASE job.script = "covers"
  BY <1>1, <1>6 DEF JobInv, CoversJob
<1> QED
  BY <1>2, <1>3, <1>4, <1>5, <1>6 DEF JobInv

LEMMA UpsertMethodKeepsJob ==
    ASSUME JobInv, NEW g \in Groups, UpsertMethod(g)
    PROVE  JobInv'
<1>1. /\ job' = [job EXCEPT !.group = g] /\ g \in job.left /\ job.script = "seed"
      /\ job.group = None /\ methods' = methods \cup {g} /\ JobShape /\ SeedJob
      /\ UNCHANGED <<books, chapters>>
  BY DEF UpsertMethod, JobInv
<1>2. /\ JobShape' /\ job'.script = "seed" /\ job'.left = job.left /\ job'.pages = job.pages
      /\ job'.group = g /\ job'.book = job.book /\ job'.rows = job.rows /\ job'.open = job.open
  BY <1>1 DEF JobShape
<1>3. job.book = 0 /\ job.open = <<>>
  BY <1>1 DEF SeedJob
<1>4. SeedJob'
  BY <1>1, <1>2, <1>3 DEF SeedJob
<1> QED
  BY <1>2, <1>4 DEF JobInv

LEMMA UpsertBookKeepsJob ==
    ASSUME TypeInv, JobInv, UpsertBook
    PROVE  JobInv'
<1>1. PICK b \in DOMAIN books' :
        /\ books'[b].slug = SlugOf[job.group]
        /\ job' = [job EXCEPT !.book = b, !.rows = DOMAIN job.pages[job.group]]
  BY UpsertedBook
<1>2. /\ job.script = "seed" /\ JobShape /\ SeedJob /\ job.group # None /\ job.book = 0
      /\ UNCHANGED <<methods, chapters>>
  BY DEF UpsertBook, JobInv
<1>3. /\ JobShape' /\ job'.script = "seed" /\ job'.left = job.left /\ job'.pages = job.pages
      /\ job'.group = job.group /\ job'.book = b /\ job'.rows = DOMAIN job.pages[job.group]
      /\ job'.open = job.open
  BY <1>1, <1>2 DEF JobShape
<1>4. job.open = <<>>
  BY <1>2 DEF SeedJob
<1>5. SeedJob'
  BY <1>1, <1>2, <1>3, <1>4 DEF SeedJob
<1> QED
  BY <1>3, <1>5 DEF JobInv

LEMMA UpsertChapterKeepsJob ==
    ASSUME TypeInv, JobInv, NEW c \in Numbers, UpsertChapter(c)
    PROVE  JobInv'
<1>1. PICK k \in DOMAIN chapters' :
        /\ chapters'[k].book = job.book /\ chapters'[k].index = c /\ chapters'[k].live
        /\ job' = [job EXCEPT !.rows = @ \ {c}, !.open = <<k, c>>]
  BY UpsertedChapter
<1>2. /\ job.script = "seed" /\ JobShape /\ SeedJob /\ job.book # 0 /\ c \in job.rows
      /\ UNCHANGED <<methods, books>>
  BY DEF UpsertChapter, JobInv
<1>3. /\ JobShape' /\ job'.script = "seed" /\ job'.left = job.left /\ job'.pages = job.pages
      /\ job'.group = job.group /\ job'.book = job.book /\ job'.rows = job.rows \ {c}
      /\ job'.open = <<k, c>>
  BY <1>1, <1>2 DEF JobShape
<1>4. job'.open[1] = k /\ job'.open[2] = c
  BY <1>3
<1>5. k \in ChaptersOf(job.book)'
  BY <1>1, <1>3 DEF ChaptersOf
<1>6. c \in DOMAIN job.pages[job.group] \ job'.rows
  BY <1>2, <1>3 DEF SeedJob
<1>7. SeedJob'
  <2>1. /\ job'.left \subseteq Groups
        /\ \A g \in job'.left : job'.pages[g] \in Pages[g]
        /\ job'.group \in job'.left \cap methods'
        /\ job'.book \in DOMAIN books' /\ books'[job'.book].slug = SlugOf[job'.group]
        /\ job'.rows \subseteq DOMAIN job'.pages[job'.group]
        /\ job'.group # None
    BY <1>2, <1>3 DEF SeedJob
  <2>2. /\ job'.book # 0 /\ job'.open[1] \in ChaptersOf(job.book)'
        /\ job'.open[2] \in DOMAIN job'.pages[job'.group] \ job'.rows
        /\ chapters'[job'.open[1]].index = job'.open[2]
    BY <1>1, <1>2, <1>3, <1>4, <1>5, <1>6
  <2> QED
    BY <2>1, <2>2 DEF SeedJob
<1> QED
  BY <1>3, <1>7 DEF JobInv

LEMMA FetchPageKeepsJob ==
    ASSUME TypeInv, JobInv, NEW g \in Groups, FetchPage(g)
    PROVE  JobInv'
<1> DEFINE rows == {row[2] : row \in {r \in job.left : r[1] = g}}
<1>1. /\ job' = [job EXCEPT !.group = g, !.pages = Restrict(site, {g}), !.rows = rows]
      /\ job.script = "fix" /\ JobShape /\ FixJob /\ csv' = csv
  BY DEF FetchPage, JobInv
<1>2. \A k \in rows : <<g, k>> \in job.left
  <2> SUFFICES ASSUME NEW r \in job.left, r[1] = g PROVE <<g, r[2]>> \in job.left
    OBVIOUS
  <2>1. r \in Groups \X DOMAIN chapters
    BY <1>1 DEF FixJob, TypeInv
  <2> QED
    BY <2>1
<1>3. Restrict(site, {g})[g] \in Pages[g]
  BY DEF Restrict, TypeInv, Sites
<1> HIDE DEF rows
<1>4. /\ JobShape' /\ job'.script = "fix" /\ job'.left = job.left
      /\ job'.pages = Restrict(site, {g}) /\ job'.group = g /\ job'.rows = rows
  BY <1>1 DEF JobShape
<1>5. FixJob'
  BY <1>1, <1>2, <1>3, <1>4, CatalogueAssumption DEF FixJob
<1> QED
  BY <1>4, <1>5 DEF JobInv

LEMMA RowDoneKeepsJob ==
    ASSUME JobInv, RowsKept, csv' = csv, job.script = "fix", NEW k \in job.rows, RowDone(k)
    PROVE  JobInv'
<1> DEFINE left == job.left \ {<<job.group, k>>}
<1>1. CASE job.rows = {k}
  <2>1. Proceed(left)
    BY <1>1 DEF RowDone
  <2> QED
    BY <2>1, ProceedKeepsJob
<1>2. CASE job.rows # {k}
  <2>1. job' = [job EXCEPT !.rows = @ \ {k}, !.left = left]
    BY <1>2 DEF RowDone
  <2> HIDE DEF left
  <2>2. /\ JobShape' /\ job'.script = "fix" /\ job'.left = left /\ job'.pages = job.pages
        /\ job'.group = job.group /\ job'.rows = job.rows \ {k}
    BY <2>1 DEF JobInv, JobShape
  <2>3. FixJob'
    BY <2>2 DEF JobInv, FixJob, left
  <2> QED
    BY <2>2, <2>3 DEF JobInv
<1> QED
  BY <1>1, <1>2

LEMMA UploadKeepsJob ==
    ASSUME JobInv, NEW b \in DOMAIN books, NEW g \in Groups, UploadToR2(b, g)
    PROVE  JobInv'
<1>1. /\ job' = [job EXCEPT !.book = b, !.group = g] /\ <<b, g>> \in job.left
      /\ job.script = "covers" /\ JobShape /\ CoversJob /\ bucket' = bucket \cup {g}
      /\ UNCHANGED books
  BY DEF UploadToR2, JobInv
<1>2. /\ JobShape' /\ job'.script = "covers" /\ job'.left = job.left
      /\ job'.group = g /\ job'.book = b
  BY <1>1 DEF JobShape
<1>3. CoversJob'
  BY <1>1, <1>2 DEF CoversJob
<1> QED
  BY <1>2, <1>3 DEF JobInv

LEMMA JobStep ==
    ASSUME TypeInv, JobInv, Apart, [Next]_vars
    PROVE  JobInv'
<1>0. RowsKept
  BY StepKeepsRows
<1>1. CASE Seed
  <2>1. CASE SaveGroup
    BY <1>0, <2>1, ProceedKeepsJob DEF SaveGroup
  <2> QED
    BY <1>1, <2>1, BeginKeepsJob, UpsertMethodKeepsJob, UpsertBookKeepsJob,
       UpsertChapterKeepsJob, Zenon DEF Seed
<1>2. CASE Fix
  <2>1. CASE Export
    BY <2>1, SameJob DEF Export, tables
  <2>2. ASSUME NEW k \in DOMAIN chapters, SkipRow(k) PROVE JobInv'
    BY <1>0, <2>2, RowDoneKeepsJob DEF SkipRow
  <2>3. ASSUME NEW k \in DOMAIN chapters, NEW c \in Numbers, NEW number \in Numbers,
               FixChapter(k, c, number)
        PROVE  JobInv'
    BY <1>0, <2>3, RowDoneKeepsJob DEF FixChapter
  <2> QED
    BY <1>2, <2>1, <2>2, <2>3, BeginKeepsJob, FetchPageKeepsJob, Zenon DEF Fix
<1>3. CASE Rebuild
  <2>1. ASSUME NEW g \in Groups, SkipBook(g) PROVE JobInv'
    BY <1>0, <2>1, ProceedKeepsJob DEF SkipBook
  <2>2. ASSUME NEW g \in Groups, NEW number \in [DOMAIN site[g] -> Numbers], RebuildBook(g, number)
        PROVE  JobInv'
    <3>1. Proceed(job.left \ {g}) /\ csv' = csv
      BY <2>2 DEF RebuildBook
    <3> QED
      BY <1>0, <3>1, ProceedKeepsJob
  <2> QED
    BY <1>3, <2>1, <2>2, BeginKeepsJob, Zenon DEF Rebuild
<1>4. CASE Covers
  <2>1. CASE SaveCover
    BY <1>0, <2>1, ProceedKeepsJob DEF SaveCover
  <2>2. ASSUME NEW b \in DOMAIN books, NEW g \in Groups, SkipCover(b, g) PROVE JobInv'
    BY <1>0, <2>2, ProceedKeepsJob DEF SkipCover
  <2> QED
    BY <1>4, <2>1, <2>2, BeginKeepsJob, UploadKeepsJob, Zenon DEF Covers
<1>5. CASE Planning
  BY <1>5, SameJob DEF Planning, CheckSelection, CreatePlan, BuildContext, tables
<1>6. CASE \E g \in Groups : \E page \in Pages[g] : Publish(g, page)
  BY <1>6, SameJob DEF Publish, tables
<1>7. CASE Stop
  BY <1>7 DEF Stop, Idle, JobInv, JobShape
<1>8. CASE UNCHANGED vars
  BY <1>8, SameJob DEF vars, tables
<1> QED
  BY <1>1, <1>2, <1>3, <1>4, <1>5, <1>6, <1>7, <1>8, Zenon DEF Next

-----------------------------------------------------------------------------
(* Types.                                                                   *)

LEMMA TypeStep ==
    ASSUME TypeInv, JobInv, [Next]_vars
    PROVE  TypeInv'
<1>1. Tables' /\ References' /\ RowsKept
  BY StepKeepsRows
<1>2. DOMAIN chapters \subseteq DOMAIN chapters' /\ DOMAIN paragraphs \subseteq DOMAIN paragraphs'
  BY <1>1 DEF RowsKept
<1> DEFINE Rest == /\ site' \in Sites /\ methods' \subseteq Groups /\ bucket' \subseteq Groups
                   /\ csv' \subseteq Groups \X DOMAIN chapters'
                   /\ plans' \in [Plans -> PlanRows]
                   /\ \A p \in Plans : plans'[p].picked \subseteq DOMAIN paragraphs'
                   /\ seeded' \in [Groups -> AllPages \cup {None}]
<1> SUFFICES Rest
  BY <1>1 DEF TypeInv
<1>3. ASSUME UNCHANGED <<site, methods, bucket, csv, plans, seeded>>
      PROVE  Rest
  BY <1>2, <1>3 DEF TypeInv
<1>4. CASE Seed
  <2>1. ASSUME NEW g \in Groups, UpsertMethod(g) PROVE Rest
    BY <1>2, <2>1 DEF UpsertMethod, TypeInv
  <2>2. CASE SaveGroup
    <3>1. job.group \in Groups /\ job.pages[job.group] \in Pages[job.group]
      BY <2>2 DEF SaveGroup, JobInv, SeedJob
    <3>2. job.pages[job.group] \in AllPages
      BY <3>1 DEF AllPages
    <3>3. seeded' \in [Groups -> AllPages \cup {None}]
      BY <2>2, <3>1, <3>2 DEF SaveGroup, TypeInv
    <3> QED
      BY <1>2, <2>2, <3>3 DEF SaveGroup, TypeInv
  <2>3. CASE StartSeed \/ UpsertBook \/ \E c \in Numbers : UpsertChapter(c)
    <3>1. UNCHANGED <<site, methods, bucket, csv, plans, seeded>>
      BY <2>3, Zenon DEF StartSeed, Begin, UpsertBook, UpsertChapter, tables
    <3> QED
      BY <1>3, <3>1
  <2> QED
    BY <1>4, <2>1, <2>2, <2>3, Zenon DEF Seed
<1>5. CASE Fix
  <2>1. CASE Export
    <3>1. csv' = UNION {{<<books[b].of, k>> : k \in ChaptersOf(b)} : b \in DOMAIN books}
      BY <2>1 DEF Export
    <3>2. \A b \in DOMAIN books : books[b].of \in Groups /\ ChaptersOf(b) \subseteq DOMAIN chapters
      <4>1. \A b \in DOMAIN books : books[b] \in BookRows
        BY DEF TypeInv, Tables
      <4> QED
        BY <4>1 DEF BookRows, ChaptersOf
    <3>3. csv' \subseteq Groups \X DOMAIN chapters
      BY <3>1, <3>2
    <3>4. chapters' = chapters
      BY <2>1 DEF Export, tables
    <3> QED
      BY <1>2, <2>1, <3>3, <3>4 DEF Export, TypeInv, tables
  <2>2. CASE ~Export
    <3>1. UNCHANGED <<site, methods, bucket, csv, plans, seeded>>
      BY <1>5, <2>2, Zenon DEF Fix, StartFix, Begin, FetchPage, SkipRow, FixChapter, tables
    <3> QED
      BY <1>3, <3>1
  <2> QED
    BY <2>1, <2>2
<1>6. CASE Rebuild
  <2>1. UNCHANGED <<site, methods, bucket, csv, plans, seeded>>
    BY <1>6, Zenon DEF Rebuild, StartRebuild, Begin, SkipBook, RebuildBook, tables
  <2> QED
    BY <1>3, <2>1
<1>7. CASE Covers
  <2>1. ASSUME NEW b \in DOMAIN books, NEW g \in Groups, UploadToR2(b, g) PROVE Rest
    BY <1>2, <2>1 DEF UploadToR2, TypeInv
  <2>2. CASE StartCovers \/ SaveCover \/ \E b \in DOMAIN books, g \in Groups : SkipCover(b, g)
    <3>1. UNCHANGED <<site, methods, bucket, csv, plans, seeded>>
      BY <2>2, Zenon DEF StartCovers, Begin, SaveCover, SkipCover, tables
    <3> QED
      BY <1>3, <3>1
  <2> QED
    BY <1>7, <2>1, <2>2, Zenon DEF Covers
<1>8. CASE Planning
  <2>1. UNCHANGED <<site, methods, bucket, csv, seeded, chapters, paragraphs>>
    BY <1>8, Zenon DEF Planning, CheckSelection, CreatePlan, BuildContext, tables
  <2>2. DOMAIN paragraphs \subseteq Nat /\ plans \in [Plans -> PlanRows]
    BY DEF TypeInv, Tables
  <2> DEFINE Typed == /\ plans' \in [Plans -> PlanRows]
                      /\ \A p \in Plans : plans'[p].picked \subseteq DOMAIN paragraphs
  <2>3. Typed
    <3>1. ASSUME NEW p \in Plans, NEW b \in DOMAIN books, NEW picked \in SUBSET DOMAIN paragraphs,
                 CheckSelection(p, b, picked)
          PROVE  Typed
      BY <2>2, <3>1 DEF CheckSelection, PlanRows, TypeInv
    <3>2. ASSUME NEW p \in Plans, CreatePlan(p) PROVE Typed
      BY <2>2, <3>2 DEF CreatePlan, PlanRows, TypeInv
    <3>3. ASSUME NEW p \in Plans, BuildContext(p) PROVE Typed
      BY <2>2, <3>3 DEF BuildContext, PlanRows, TypeInv
    <3> QED
      BY <1>8, <3>1, <3>2, <3>3, Zenon DEF Planning
  <2> QED
    BY <2>1, <2>3 DEF TypeInv
<1>9. CASE \E g \in Groups : \E page \in Pages[g] : Publish(g, page)
  <2>0. PICK g \in Groups : \E page \in Pages[g] : Publish(g, page)
    BY <1>9
  <2>1. PICK page \in Pages[g] : Publish(g, page)
    BY <2>0
  <2>2. site' \in Sites
    BY <2>1 DEF Publish, TypeInv, Sites, AllPages
  <2> QED
    BY <1>2, <2>1, <2>2 DEF Publish, TypeInv, tables
<1>10. CASE Stop \/ UNCHANGED vars
  <2>1. UNCHANGED <<site, methods, bucket, csv, plans, seeded>>
    BY <1>10 DEF Stop, vars, tables
  <2> QED
    BY <1>3, <2>1
<1> QED
  BY <1>4, <1>5, <1>6, <1>7, <1>8, <1>9, <1>10, Zenon DEF Next

-----------------------------------------------------------------------------
(* Rows come from groups with the slug of their book.                       *)

LEMMA MethodsAndCoversStay ==
    ASSUME [Next]_vars
    PROVE  methods \subseteq methods' /\ bucket \subseteq bucket'
<1>1. CASE Seed
  BY <1>1 DEF Seed, StartSeed, Begin, UpsertMethod, UpsertBook, UpsertChapter, SaveGroup, tables
<1>2. CASE Fix
  BY <1>2 DEF Fix, Export, StartFix, Begin, FetchPage, SkipRow, FixChapter, tables
<1>3. CASE Rebuild
  BY <1>3 DEF Rebuild, StartRebuild, Begin, SkipBook, RebuildBook, tables
<1>4. CASE Covers
  BY <1>4 DEF Covers, StartCovers, Begin, SkipCover, UploadToR2, SaveCover, tables
<1>5. CASE Planning
  BY <1>5 DEF Planning, CheckSelection, CreatePlan, BuildContext, tables
<1>6. CASE (\E g \in Groups : \E page \in Pages[g] : Publish(g, page)) \/ Stop \/ UNCHANGED vars
  BY <1>6 DEF Publish, Stop, vars, tables
<1> QED
  BY <1>1, <1>2, <1>3, <1>4, <1>5, <1>6, Zenon DEF Next

LEMMA OwnBooksStep ==
    ASSUME TypeInv, JobInv, OwnBooks, [Next]_vars
    PROVE  OwnBooks'
<1>1. methods \subseteq methods' /\ bucket \subseteq bucket'
  BY MethodsAndCoversStay
<1>2. CASE UpsertBook
  <2>1. PICK b \in DOMAIN books' :
          /\ DOMAIN books' = DOMAIN books \cup {b}
          /\ \A d \in DOMAIN books :
               /\ books'[d].slug = books[d].slug /\ books'[d].cover = books[d].cover
               /\ d # b => books'[d].of = books[d].of
          /\ books'[b].slug = SlugOf[job.group] /\ books'[b].of = job.group
          /\ b \notin DOMAIN books => books'[b].cover = None
    BY <1>2, UpsertedBook
  <2>2. job.group \in methods
    BY <1>2 DEF UpsertBook, JobInv, SeedJob
  <2> QED
    BY <1>1, <2>1, <2>2 DEF OwnBooks
<1>3. CASE SaveCover
  <2>1. /\ SlugOf[job.group] = books[job.book].slug /\ job.group \in bucket
        /\ DOMAIN books' = DOMAIN books
        /\ \A d \in DOMAIN books :
             /\ books'[d].slug = books[d].slug /\ books'[d].of = books[d].of
             /\ d # job.book => books'[d].cover = books[d].cover
        /\ books'[job.book].cover = job.group
    BY <1>3, SavedCover
  <2> QED
    BY <1>1, <2>1 DEF OwnBooks
<1>4. CASE books' = books
  BY <1>1, <1>4 DEF OwnBooks
<1>5. UpsertBook \/ SaveCover \/ books' = books
  BY StepCases, Zenon DEF Quiet, UpsertChapter, SaveGroup, FixChapter, RebuildBook
<1> QED
  BY <1>2, <1>3, <1>4, <1>5

\* The slug that a row belongs to, by way of its parents, stays.
LEMMA SlugsStay ==
    ASSUME TypeInv, RowsKept
    PROVE  /\ \A k \in DOMAIN chapters :
                books'[chapters'[k].book].slug = books[chapters[k].book].slug
           /\ \A p \in DOMAIN paragraphs :
                books'[BookOfParagraph(p)'].slug = books[BookOfParagraph(p)].slug
<1>1. \A k \in DOMAIN chapters : books'[chapters'[k].book].slug = books[chapters[k].book].slug
  BY DEF TypeInv, References, RowsKept
<1>2. \A p \in DOMAIN paragraphs :
        paragraphs[p].chapter \in DOMAIN chapters /\ paragraphs'[p].chapter = paragraphs[p].chapter
  BY DEF TypeInv, References, RowsKept
<1> QED
  BY <1>1, <1>2 DEF BookOfParagraph

LEMMA OwnChaptersStep ==
    ASSUME TypeInv, JobInv, Apart, [Next]_vars
    PROVE  OwnChapters'
<1>1. RowsKept
  BY StepKeepsRows
<1>2. \A k \in DOMAIN chapters : books'[chapters'[k].book].slug = books[chapters[k].book].slug
  BY <1>1, SlugsStay
<1>3. ASSUME NEW c \in Numbers, UpsertChapter(c) PROVE OwnChapters'
  <2>1. PICK k \in DOMAIN chapters' :
          /\ DOMAIN chapters' = DOMAIN chapters \cup {k}
          /\ \A d \in DOMAIN chapters : d # k => chapters'[d].title = chapters[d].title
          /\ chapters'[k].book = job.book /\ chapters'[k].title = job.group
    BY <1>3, UpsertedChapter
  <2>2. books[job.book].slug = SlugOf[job.group] /\ books' = books
    BY <1>3 DEF UpsertChapter, JobInv, SeedJob
  <2> QED
    BY <1>2, <2>1, <2>2 DEF Apart, OwnChapters
<1>4. ASSUME NEW k \in DOMAIN chapters, NEW c \in Numbers, NEW number \in Numbers,
             FixChapter(k, c, number)
      PROVE  OwnChapters'
  <2>1. /\ DOMAIN chapters' = DOMAIN chapters
        /\ \A d \in DOMAIN chapters : d # k => chapters'[d] = chapters[d]
        /\ chapters'[k].title = job.group /\ <<job.group, k>> \in job.left
    BY <1>4, FixedChapter
  <2>2. <<job.group, k>> \in csv
    BY <1>4, <2>1 DEF FixChapter, JobInv, FixJob
  <2>3. SlugOf[job.group] = books[chapters[k].book].slug
    BY <2>2 DEF Apart, OwnExport
  <2> QED
    BY <1>2, <2>1, <2>3 DEF Apart, OwnChapters
<1>5. ASSUME NEW g \in Groups, NEW number \in [DOMAIN site[g] -> Numbers], RebuildBook(g, number)
      PROVE  OwnChapters'
  <2>1. PICK b \in DOMAIN books :
          /\ books[b].of = g
          /\ \A k \in DOMAIN chapters : chapters'[k].title = chapters[k].title
          /\ \A k \in DOMAIN chapters' \ DOMAIN chapters :
               chapters'[k].book = b /\ chapters'[k].title = g
    BY <1>5, RebuiltBook
  <2>2. SlugOf[g] = books[b].slug /\ books' = books
    BY <1>5, <2>1 DEF Apart, OwnBooks, RebuildBook
  <2> QED
    BY <1>2, <2>1, <2>2 DEF Apart, OwnChapters
<1>6. CASE chapters' = chapters
  BY <1>2, <1>6 DEF Apart, OwnChapters
<1>7. CASE UpsertBook \/ SaveGroup \/ SaveCover \/ Quiet
  BY <1>6, <1>7 DEF UpsertBook, SaveGroup, SaveCover, Quiet
<1> QED
  BY <1>3, <1>4, <1>5, <1>7, StepCases, Zenon

LEMMA OwnParagraphsStep ==
    ASSUME TypeInv, JobInv, Apart, [Next]_vars
    PROVE  OwnParagraphs'
<1>1. RowsKept
  BY StepKeepsRows
<1>2. /\ \A p \in DOMAIN paragraphs :
           /\ books'[BookOfParagraph(p)'].slug = books[BookOfParagraph(p)].slug
           /\ SlugOf[paragraphs[p].title] = books[BookOfParagraph(p)].slug
      /\ \A k \in DOMAIN chapters : books'[chapters'[k].book].slug = books[chapters[k].book].slug
  BY <1>1, SlugsStay DEF Apart, OwnParagraphs
\* A title that is written is the job's group, in a chapter whose book has its slug.
<1>3. ASSUME NEW k \in DOMAIN chapters', NEW g, SlugOf[g] = books'[chapters'[k].book].slug,
             \A p \in DOMAIN paragraphs :
               \/ paragraphs'[p].title = paragraphs[p].title
               \/ paragraphs'[p].chapter = k /\ paragraphs'[p].title = g,
             \A p \in DOMAIN paragraphs' \ DOMAIN paragraphs :
               /\ books'[chapters'[paragraphs'[p].chapter].book].slug = SlugOf[g]
               /\ paragraphs'[p].title = g
      PROVE  OwnParagraphs'
  BY <1>2, <1>3 DEF OwnParagraphs, BookOfParagraph
<1>4. CASE paragraphs' = paragraphs
  BY <1>2, <1>4 DEF OwnParagraphs
<1>5. CASE SaveGroup \/ \E c \in Numbers : UpsertChapter(c)
  <2>1. paragraphs' = Flushed /\ job.script = "seed" /\ books' = books
    BY <1>5 DEF SaveGroup, UpsertChapter
  <2>2. CASE job.open = <<>>
    BY <1>4, <2>1, <2>2 DEF Flushed
  <2>3. CASE job.open # <<>>
    <3> DEFINE k == job.open[1]
    <3>1. k \in DOMAIN chapters /\ SlugOf[job.group] = books[chapters[k].book].slug
      BY <2>1, <2>3, OpenChapter
    <3>2. k \in DOMAIN chapters' /\ SlugOf[job.group] = books'[chapters'[k].book].slug
      BY <1>1, <1>2, <3>1 DEF RowsKept
    <3>3. /\ \A p \in DOMAIN paragraphs :
               \/ paragraphs'[p].title = paragraphs[p].title
               \/ paragraphs'[p].chapter = k /\ paragraphs'[p].title = job.group
          /\ \A p \in DOMAIN paragraphs' \ DOMAIN paragraphs :
               paragraphs'[p].chapter = k /\ paragraphs'[p].title = job.group
      BY <2>1, FlushedRows
    <3> HIDE DEF k
    <3> QED
      BY <1>3, <3>2, <3>3
  <2> QED
    BY <2>2, <2>3
<1>6. ASSUME NEW k \in DOMAIN chapters, NEW c \in Numbers, NEW number \in Numbers,
             FixChapter(k, c, number)
      PROVE  OwnParagraphs'
  <2>1. /\ DOMAIN chapters' = DOMAIN chapters /\ <<job.group, k>> \in job.left
        /\ \A p \in DOMAIN paragraphs : paragraphs'[p].title = paragraphs[p].title
        /\ \A p \in DOMAIN paragraphs' \ DOMAIN paragraphs :
             paragraphs'[p].chapter = k /\ paragraphs'[p].title = job.group
    BY <1>6, FixedChapter
  <2>2. <<job.group, k>> \in csv
    BY <1>6, <2>1 DEF FixChapter, JobInv, FixJob
  <2>3. SlugOf[job.group] = books'[chapters'[k].book].slug
    BY <1>2, <2>2 DEF Apart, OwnExport
  <2> QED
    BY <1>3, <2>1, <2>3
<1>7. ASSUME NEW g \in Groups, NEW number \in [DOMAIN site[g] -> Numbers], RebuildBook(g, number)
      PROVE  OwnParagraphs'
  <2>1. PICK b \in DOMAIN books :
          /\ books[b].of = g
          /\ \A k \in DOMAIN chapters' \ DOMAIN chapters : chapters'[k].book = b
          /\ DOMAIN chapters' \ DOMAIN chapters # {}
          /\ \A p \in DOMAIN paragraphs : paragraphs'[p].title = paragraphs[p].title
          /\ \A p \in DOMAIN paragraphs' \ DOMAIN paragraphs :
               /\ paragraphs'[p].chapter \in DOMAIN chapters' \ DOMAIN chapters
               /\ paragraphs'[p].title = g
    BY <1>7, RebuiltBook
  <2>2. SlugOf[g] = books[b].slug /\ books' = books
    BY <1>7, <2>1 DEF Apart, OwnBooks, RebuildBook
  <2>3. \A k \in DOMAIN chapters' \ DOMAIN chapters : SlugOf[g] = books'[chapters'[k].book].slug
    BY <2>1, <2>2
  <2>4. PICK k \in DOMAIN chapters' \ DOMAIN chapters : TRUE
    BY <2>1
  <2> QED
    BY <1>3, <2>1, <2>3, <2>4
<1>8. CASE UpsertBook \/ SaveCover \/ Quiet
  BY <1>4, <1>8 DEF UpsertBook, SaveCover, Quiet
<1> QED
  BY <1>5, <1>6, <1>7, <1>8, StepCases, Zenon

LEMMA OwnExportStep ==
    ASSUME TypeInv, JobInv, Apart, [Next]_vars
    PROVE  OwnExport'
<1>1. RowsKept
  BY StepKeepsRows
<1>2. \A k \in DOMAIN chapters : books'[chapters'[k].book].slug = books[chapters[k].book].slug
  BY <1>1, SlugsStay
<1>3. CASE csv' = csv
  <2>1. \A row \in csv : row[2] \in DOMAIN chapters
    BY DEF TypeInv
  <2> QED
    BY <1>2, <1>3, <2>1 DEF Apart, OwnExport
<1>4. CASE Export
  <2>1. /\ csv' = UNION {{<<books[b].of, k>> : k \in ChaptersOf(b)} : b \in DOMAIN books}
        /\ UNCHANGED <<books, chapters>>
    BY <1>4 DEF Export, tables
  <2>2. \A b \in DOMAIN books : \A k \in ChaptersOf(b) :
          SlugOf[books[b].of] = books[chapters[k].book].slug
    BY DEF Apart, OwnBooks, ChaptersOf
  <2>3. \A row \in csv' : SlugOf[row[1]] = books[chapters[row[2]].book].slug
    BY <2>1, <2>2
  <2> QED
    BY <2>1, <2>3 DEF OwnExport
<1>5. Export \/ csv' = csv
  <2>1. CASE Seed
    BY <2>1, Zenon DEF Seed, StartSeed, Begin, UpsertMethod, UpsertBook, UpsertChapter, SaveGroup
  <2>2. CASE Fix
    BY <2>2, Zenon DEF Fix, StartFix, Begin, FetchPage, SkipRow, FixChapter
  <2>3. CASE Rebuild
    BY <2>3, Zenon DEF Rebuild, StartRebuild, Begin, SkipBook, RebuildBook
  <2>4. CASE Covers
    BY <2>4, Zenon DEF Covers, StartCovers, Begin, SkipCover, UploadToR2, SaveCover
  <2>5. CASE Planning
    BY <2>5, Zenon DEF Planning, CheckSelection, CreatePlan, BuildContext
  <2>6. CASE (\E g \in Groups : \E page \in Pages[g] : Publish(g, page)) \/ Stop \/ UNCHANGED vars
    BY <2>6 DEF Publish, Stop, vars
  <2> QED
    BY <2>1, <2>2, <2>3, <2>4, <2>5, <2>6, Zenon DEF Next
<1> QED
  BY <1>3, <1>4, <1>5

LEMMA ApartStep ==
    ASSUME TypeInv, JobInv, Apart, [Next]_vars
    PROVE  Apart'
<1>1. OwnBooks'
  BY OwnBooksStep DEF Apart
<1> QED
  BY <1>1, OwnChaptersStep, OwnParagraphsStep, OwnExportStep DEF Apart

-----------------------------------------------------------------------------
(* Deleted rows, and plans that refer to them.                              *)

LEMMA DeletedByRepairStep ==
    ASSUME TypeInv, JobInv, DeletedByRepair, [Next]_vars
    PROVE  DeletedByRepair'
<1>1. RowsKept /\ OnlyRepairsDelete
  BY StepKeepsRows
<1>2. \A k \in DOMAIN chapters' :
        chapters'[k].live \/ books'[chapters'[k].book].slug \in repaired'
  BY <1>1, SlugsStay DEF RowsKept, OnlyRepairsDelete, DeletedByRepair
<1>3. \A p \in DOMAIN paragraphs' :
        paragraphs'[p].live \/ books'[BookOfParagraph(p)'].slug \in repaired'
  BY <1>1, SlugsStay DEF RowsKept, OnlyRepairsDelete, DeletedByRepair
<1> QED
  BY <1>2, <1>3 DEF DeletedByRepair, BookOfParagraph

LEMMA PlansStandStep ==
    ASSUME TypeInv, JobInv, DeletedByRepair, PlansStand, [Next]_vars
    PROVE  PlansStand'
<1>1. RowsKept /\ OnlyRepairsDelete
  BY StepKeepsRows
<1>2. \A q \in DOMAIN paragraphs :
        books[BookOfParagraph(q)].slug \in repaired => books'[BookOfParagraph(q)'].slug \in repaired'
  BY <1>1, SlugsStay DEF OnlyRepairsDelete
<1>3. CASE plans' = plans
  BY <1>2, <1>3 DEF PlansStand, TypeInv, BookOfParagraph
<1>4. CASE Planning
  <2> SUFFICES ASSUME NEW p \in Plans, plans'[p].stage = "failed"
               PROVE  \E q \in plans'[p].picked : books'[BookOfParagraph(q)'].slug \in repaired'
    BY Zenon DEF PlansStand, BookOfParagraph
  <2>1. /\ plans'[p].picked = plans[p].picked
        /\ \/ plans[p].stage = "failed"
           \/ \E q \in plans[p].picked : ~paragraphs[q].live
    <3>1. plans \in [Plans -> PlanRows]
      BY DEF TypeInv
    <3>2. ASSUME NEW o \in Plans, NEW b \in DOMAIN books, NEW picked \in SUBSET DOMAIN paragraphs,
                 CheckSelection(o, b, picked)
          PROVE  <2>1
      BY <3>1, <3>2 DEF CheckSelection, PlanRows
    <3>3. ASSUME NEW o \in Plans, CreatePlan(o) PROVE <2>1
      BY <3>1, <3>3 DEF CreatePlan, PlanRows
    <3>4. ASSUME NEW o \in Plans, BuildContext(o) PROVE <2>1
      BY <3>1, <3>4 DEF BuildContext, PlanRows
    <3> QED
      BY <1>4, <3>2, <3>3, <3>4, Zenon DEF Planning
  <2>2. plans[p].picked \subseteq DOMAIN paragraphs
    BY DEF TypeInv
  <2>3. \E q \in plans[p].picked : books[BookOfParagraph(q)].slug \in repaired
    BY <2>1, <2>2 DEF PlansStand, DeletedByRepair
  <2> QED
    BY <1>2, <2>1, <2>2, <2>3
<1>5. Planning \/ plans' = plans
  <2>1. CASE Seed
    BY <2>1, Zenon DEF Seed, StartSeed, Begin, UpsertMethod, UpsertBook, UpsertChapter, SaveGroup
  <2>2. CASE Fix
    BY <2>2, Zenon DEF Fix, Export, StartFix, Begin, FetchPage, SkipRow, FixChapter
  <2>3. CASE Rebuild
    BY <2>3, Zenon DEF Rebuild, StartRebuild, Begin, SkipBook, RebuildBook
  <2>4. CASE Covers
    BY <2>4, Zenon DEF Covers, StartCovers, Begin, SkipCover, UploadToR2, SaveCover
  <2>5. CASE (\E g \in Groups : \E page \in Pages[g] : Publish(g, page)) \/ Stop \/ UNCHANGED vars
    BY <2>5 DEF Publish, Stop, vars
  <2> QED
    BY <2>1, <2>2, <2>3, <2>4, <2>5, Zenon DEF Next
<1> QED
  BY <1>3, <1>4, <1>5

-----------------------------------------------------------------------------
(* Slugs and numbers are given once.                                        *)

LEMMA SlugsDistinctStep ==
    ASSUME TypeInv, JobInv, SlugsDistinct, [Next]_vars
    PROVE  SlugsDistinct'
<1>1. CASE UpsertBook
  <2>1. PICK b \in DOMAIN books' :
          /\ DOMAIN books' = DOMAIN books \cup {b}
          /\ \A d \in DOMAIN books : books'[d].slug = books[d].slug
          /\ books'[b].slug = SlugOf[job.group]
          /\ b \notin DOMAIN books => \A d \in DOMAIN books : books[d].slug # SlugOf[job.group]
    BY <1>1, UpsertedBook
  <2> QED
    BY <2>1 DEF SlugsDistinct
<1>2. CASE SaveCover
  <2>1. DOMAIN books' = DOMAIN books /\ \A d \in DOMAIN books : books'[d].slug = books[d].slug
    BY <1>2, SavedCover
  <2> QED
    BY <2>1 DEF SlugsDistinct
<1>3. CASE books' = books
  BY <1>3 DEF SlugsDistinct
<1>4. UpsertBook \/ SaveCover \/ books' = books
  BY StepCases, Zenon DEF Quiet, UpsertChapter, SaveGroup, FixChapter, RebuildBook
<1> QED
  BY <1>1, <1>2, <1>3, <1>4

LEMMA ChaptersDistinctStep ==
    ASSUME TypeInv, JobInv, ChaptersDistinct, [Next]_vars
    PROVE  ChaptersDistinct'
<1>1. RowsKept /\ repaired \subseteq repaired'
  BY StepKeepsRows DEF OnlyRepairsDelete
<1>2. \A k \in DOMAIN chapters : books'[chapters'[k].book].slug = books[chapters[k].book].slug
  BY <1>1, SlugsStay
<1>3. ASSUME NEW c \in Numbers, UpsertChapter(c) PROVE ChaptersDistinct'
  <2>1. PICK k \in DOMAIN chapters' :
          /\ DOMAIN chapters' = DOMAIN chapters \cup {k}
          /\ \A d \in DOMAIN chapters :
               /\ chapters'[d].book = chapters[d].book /\ chapters'[d].index = chapters[d].index
               /\ chapters'[d].live = chapters[d].live
          /\ chapters'[k].book = job.book /\ chapters'[k].index = c
          /\ k \notin DOMAIN chapters => \A d \in ChaptersOf(job.book) : chapters[d].index # c
    BY <1>3, UpsertedChapter
  <2> QED
    BY <1>1, <1>2, <2>1 DEF ChaptersDistinct, ChaptersOf
<1>4. ASSUME NEW k \in DOMAIN chapters, NEW c \in Numbers, NEW number \in Numbers,
             FixChapter(k, c, number)
      PROVE  ChaptersDistinct'
  <2>1. /\ DOMAIN chapters' = DOMAIN chapters
        /\ \A d \in DOMAIN chapters :
             /\ chapters'[d].book = chapters[d].book /\ chapters'[d].live = chapters[d].live
             /\ d # k => chapters'[d] = chapters[d]
    BY <1>4, FixedChapter, Zenon
  <2>2. books'[chapters'[k].book].slug \in repaired'
    <3>1. repaired' = repaired \cup {books[chapters[k].book].slug}
      BY <1>4, Zenon DEF FixChapter
    <3> QED
      BY <1>2, <3>1
  <2> QED
    BY <1>1, <1>2, <2>1, <2>2 DEF ChaptersDistinct
<1>5. ASSUME NEW g \in Groups, NEW number \in [DOMAIN site[g] -> Numbers], RebuildBook(g, number)
      PROVE  ChaptersDistinct'
  <2>1. PICK b \in DOMAIN books :
          /\ repaired' = repaired \cup {books[b].slug}
          /\ \A k \in DOMAIN chapters :
               /\ chapters'[k].book = chapters[k].book /\ chapters'[k].index = chapters[k].index
               /\ chapters'[k].live => chapters[k].live
          /\ \A k \in DOMAIN chapters' \ DOMAIN chapters : chapters'[k].book = b
    BY <1>5, RebuiltBook
  <2>2. books' = books
    BY <1>5 DEF RebuildBook
  <2>3. \A k \in DOMAIN chapters' \ DOMAIN chapters : books'[chapters'[k].book].slug \in repaired'
    BY <2>1, <2>2
  <2>4. ASSUME NEW k1 \in DOMAIN chapters', NEW k2 \in DOMAIN chapters',
               chapters'[k1].book = chapters'[k2].book,
               books'[chapters'[k1].book].slug \notin repaired'
        PROVE  k1 \in DOMAIN chapters /\ k2 \in DOMAIN chapters
    BY <2>3, <2>4
  <2> QED
    BY <1>1, <1>2, <2>1, <2>4 DEF ChaptersDistinct
<1>6. CASE chapters' = chapters
  BY <1>1, <1>2, <1>6 DEF ChaptersDistinct
<1>7. CASE UpsertBook \/ SaveGroup \/ SaveCover \/ Quiet
  BY <1>6, <1>7 DEF UpsertBook, SaveGroup, SaveCover, Quiet
<1> QED
  BY <1>3, <1>4, <1>5, <1>7, StepCases, Zenon

LEMMA ParagraphsDistinctStep ==
    ASSUME TypeInv, JobInv, ParagraphsDistinct, [Next]_vars
    PROVE  ParagraphsDistinct'
<1>1. RowsKept
  BY StepKeepsRows
<1>2. \A p \in DOMAIN paragraphs : paragraphs[p].chapter \in DOMAIN chapters
  BY DEF TypeInv, References
\* Two rows that were there were distinct; it is enough to look at one that was not.
<1>3. ASSUME \A p \in DOMAIN paragraphs' \ DOMAIN paragraphs : \A q \in DOMAIN paragraphs' :
               /\ paragraphs'[q].live /\ paragraphs'[p].chapter = paragraphs'[q].chapter
               /\ paragraphs'[p].index = paragraphs'[q].index
               => p = q
      PROVE  ParagraphsDistinct'
  BY <1>1, <1>3 DEF RowsKept, ParagraphsDistinct
<1>4. CASE SaveGroup \/ \E c \in Numbers : UpsertChapter(c)
  <2>1. paragraphs' = Flushed /\ job.script = "seed"
    BY <1>4 DEF SaveGroup, UpsertChapter
  <2>2. /\ \A p \in DOMAIN paragraphs :
             /\ paragraphs'[p].chapter = paragraphs[p].chapter
             /\ paragraphs'[p].index = paragraphs[p].index
             /\ paragraphs'[p].live = paragraphs[p].live
        /\ \A p \in DOMAIN paragraphs' \ DOMAIN paragraphs :
             /\ paragraphs'[p].chapter = job.open[1]
             /\ \A q \in ParagraphsOf(job.open[1]) : paragraphs[q].index # paragraphs'[p].index
        /\ \A p, q \in DOMAIN paragraphs' \ DOMAIN paragraphs :
             paragraphs'[p].index = paragraphs'[q].index => p = q
    BY <2>1, FlushedRows
  <2> QED
    BY <1>3, <2>2 DEF ParagraphsOf
<1>5. ASSUME NEW k \in DOMAIN chapters, NEW c \in Numbers, NEW number \in Numbers,
             FixChapter(k, c, number)
      PROVE  ParagraphsDistinct'
  <2>1. /\ \A p \in DOMAIN paragraphs :
             /\ paragraphs'[p].chapter = paragraphs[p].chapter
             /\ paragraphs'[p].live => paragraphs[p].chapter # k
        /\ \A p \in DOMAIN paragraphs' \ DOMAIN paragraphs : paragraphs'[p].chapter = k
        /\ \A p, q \in DOMAIN paragraphs' \ DOMAIN paragraphs :
             paragraphs'[p].index = paragraphs'[q].index => p = q
    BY <1>5, FixedChapter
  <2> QED
    BY <1>3, <2>1
<1>6. ASSUME NEW g \in Groups, NEW number \in [DOMAIN site[g] -> Numbers], RebuildBook(g, number)
      PROVE  ParagraphsDistinct'
  <2>1. /\ \A p \in DOMAIN paragraphs : paragraphs'[p].chapter = paragraphs[p].chapter
        /\ \A p \in DOMAIN paragraphs' \ DOMAIN paragraphs :
             paragraphs'[p].chapter \in DOMAIN chapters' \ DOMAIN chapters
        /\ \A p, q \in DOMAIN paragraphs' \ DOMAIN paragraphs :
             paragraphs'[p].chapter = paragraphs'[q].chapter
               /\ paragraphs'[p].index = paragraphs'[q].index => p = q
    BY <1>6, RebuiltBook
  <2> QED
    BY <1>2, <1>3, <2>1
<1>7. CASE UpsertBook \/ SaveCover \/ Quiet
  BY <1>7 DEF UpsertBook, SaveCover, Quiet, ParagraphsDistinct
<1> QED
  BY <1>4, <1>5, <1>6, <1>7, StepCases, Zenon

LEMMA DistinctStep ==
    ASSUME TypeInv, JobInv, Distinct, [Next]_vars
    PROVE  Distinct'
  BY SlugsDistinctStep, ChaptersDistinctStep, ParagraphsDistinctStep DEF Distinct

-----------------------------------------------------------------------------
(* A group that was seeded stays filled.                                    *)

\* Whatever the step, a chapter of a book that no repair has touched stays filled.
LEMMA FilledStays ==
    ASSUME TypeInv, RowsKept, OnlyRepairsDelete,
           NEW k \in DOMAIN chapters, books[chapters[k].book].slug \notin repaired',
           NEW sections, Filled(k, sections)
    PROVE  \A s \in sections : \E p \in DOMAIN paragraphs' :
             paragraphs'[p].live /\ paragraphs'[p].chapter = k /\ paragraphs'[p].index = s
<1>1. ASSUME NEW p \in ParagraphsOf(k)
      PROVE  /\ p \in DOMAIN paragraphs' /\ paragraphs'[p].live /\ paragraphs'[p].chapter = k
             /\ paragraphs'[p].index = paragraphs[p].index
  <2>1. /\ p \in DOMAIN paragraphs /\ paragraphs[p].live /\ paragraphs[p].chapter = k
        /\ BookOfParagraph(p) = chapters[k].book
    BY DEF ParagraphsOf, BookOfParagraph
  <2> QED
    BY <2>1 DEF RowsKept, OnlyRepairsDelete
<1> QED
  BY <1>1 DEF Filled

\* So do its number and its book.
LEMMA ChapterStays ==
    ASSUME TypeInv, RowsKept, OnlyRepairsDelete,
           NEW b, NEW k \in ChaptersOf(b), books[b].slug \notin repaired'
    PROVE  /\ k \in DOMAIN chapters' /\ chapters'[k].live /\ chapters'[k].book = b
           /\ chapters'[k].index = chapters[k].index
  BY DEF RowsKept, OnlyRepairsDelete, ChaptersOf

\* The session's paragraphs, once committed, fill the open chapter.
LEMMA OpenChapterIsFilled ==
    ASSUME TypeInv, JobInv, job.script = "seed", paragraphs' = Flushed,
           NEW k, NEW c, job.open = <<k, c>>
    PROVE  \A s \in job.pages[job.group][c] : \E p \in DOMAIN paragraphs' :
             paragraphs'[p].live /\ paragraphs'[p].chapter = k /\ paragraphs'[p].index = s
<1>1. job.open # <<>> /\ job.open[1] = k /\ job.open[2] = c
  OBVIOUS
<1>2. \A s \in job.pages[job.group][job.open[2]] :
        \E p \in DOMAIN paragraphs' :
          paragraphs'[p].live /\ paragraphs'[p].chapter = job.open[1] /\ paragraphs'[p].index = s
  BY <1>1, FlushedRows
<1> QED
  BY <1>1, <1>2

\* Only two steps leave a book in the hands of the seeding.
LEMMA SeedingCases ==
    ASSUME JobInv, [Next]_vars, job'.script = "seed", job'.book # 0
    PROVE  \/ UpsertBook
           \/ \E c \in Numbers : UpsertChapter(c)
           \/ UNCHANGED <<job, chapters, paragraphs>>
<1>1. JobShape
  BY DEF JobInv
<1>2. ASSUME NEW left, Proceed(left) PROVE FALSE
  BY <1>2, ProceedJob DEF AtItem
<1>3. ASSUME NEW script, NEW left, Begin(script, left) PROVE FALSE
  BY <1>3, BeginJob DEF AtItem
<1>4. CASE Seed
  <2>1. ASSUME NEW g \in Groups, UpsertMethod(g) PROVE FALSE
    <3>1. job.book = 0
      BY <2>1 DEF UpsertMethod, JobInv, SeedJob
    <3>2. job'.book = job.book
      BY <1>1, <2>1 DEF UpsertMethod, JobShape
    <3> QED
      BY <3>1, <3>2
  <2> QED
    BY <1>2, <1>3, <1>4, <2>1, Zenon DEF Seed, StartSeed, SaveGroup
<1>5. CASE Fix
  <2>1. ASSUME NEW g \in Groups, FetchPage(g) PROVE FALSE
    <3>1. job'.script = job.script
      BY <1>1, <2>1 DEF FetchPage, JobShape
    <3> QED
      BY <2>1, <3>1 DEF FetchPage
  <2>2. ASSUME NEW k, job.script = "fix", RowDone(k) PROVE FALSE
    <3>1. job.rows # {k}
      BY <1>2, <2>2 DEF RowDone
    <3>2. job'.script = job.script
      BY <1>1, <2>2, <3>1 DEF RowDone, JobShape
    <3> QED
      BY <2>2, <3>2
  <2>3. CASE Export
    BY <2>3 DEF Export, tables
  <2>4. CASE StartFix
    BY <1>3, <2>4 DEF StartFix
  <2>5. ASSUME NEW k \in DOMAIN chapters, SkipRow(k) PROVE FALSE
    BY <2>2, <2>5 DEF SkipRow
  <2>6. ASSUME NEW k \in DOMAIN chapters, NEW c \in Numbers, NEW number \in Numbers,
               FixChapter(k, c, number)
        PROVE  FALSE
    BY <2>2, <2>6 DEF FixChapter
  <2> QED
    BY <1>5, <2>1, <2>3, <2>4, <2>5, <2>6, Zenon DEF Fix
<1>6. CASE Rebuild
  BY <1>2, <1>3, <1>6, Zenon DEF Rebuild, StartRebuild, SkipBook, RebuildBook
<1>7. CASE Covers
  <2>1. ASSUME NEW b \in DOMAIN books, NEW g \in Groups, UploadToR2(b, g) PROVE FALSE
    <3>1. job'.script = job.script
      BY <1>1, <2>1 DEF UploadToR2, JobShape
    <3> QED
      BY <2>1, <3>1 DEF UploadToR2
  <2> QED
    BY <1>2, <1>3, <1>7, <2>1, Zenon DEF Covers, StartCovers, SkipCover, SaveCover
<1>8. CASE Planning
  BY <1>8, Zenon DEF Planning, CheckSelection, CreatePlan, BuildContext, tables
<1>9. CASE \E g \in Groups : \E page \in Pages[g] : Publish(g, page)
  BY <1>9, Zenon DEF Publish, tables
<1>10. CASE Stop
  BY <1>10 DEF Stop, Idle
<1>11. CASE UNCHANGED vars
  BY <1>11 DEF vars, tables
<1> QED
  BY <1>4, <1>5, <1>6, <1>7, <1>8, <1>9, <1>10, <1>11, Zenon DEF Next

LEMMA SeedingFillsStep ==
    ASSUME TypeInv, JobInv, SeedingFills, [Next]_vars
    PROVE  SeedingFills'
<1> SUFFICES ASSUME job'.script = "seed", job'.book # 0 PROVE SeedingFills'
  BY DEF SeedingFills
<1>1. JobShape /\ RowsKept /\ OnlyRepairsDelete
  BY StepKeepsRows DEF JobInv
<1>2. CASE UpsertBook
  <2>1. PICK b \in DOMAIN books' :
          job' = [job EXCEPT !.book = b, !.rows = DOMAIN job.pages[job.group]]
    BY <1>2, UpsertedBook
  <2>2. job'.rows = DOMAIN job'.pages[job'.group]
    BY <1>1, <2>1 DEF JobShape
  <2> QED
    BY <2>2 DEF SeedingFills
<1>3. ASSUME NEW c \in Numbers, UpsertChapter(c) PROVE SeedingFills'
  <2>1. PICK k \in DOMAIN chapters' :
          /\ \A d \in DOMAIN chapters :
               /\ chapters'[d].book = chapters[d].book /\ chapters'[d].index = chapters[d].index
               /\ chapters'[d].live = chapters[d].live
               /\ d # k => chapters'[d].title = chapters[d].title
          /\ chapters'[k].book = job.book /\ chapters'[k].index = c /\ chapters'[k].live
          /\ job' = [job EXCEPT !.rows = @ \ {c}, !.open = <<k, c>>]
    BY <1>3, UpsertedChapter
  <2>2. /\ job'.pages = job.pages /\ job'.group = job.group /\ job'.book = job.book
        /\ job'.rows = job.rows \ {c} /\ job'.open = <<k, c>>
    BY <1>1, <2>1 DEF JobShape
  <2>3. /\ job.script = "seed" /\ job.book # 0 /\ paragraphs' = Flushed
        /\ books' = books /\ repaired' = repaired
    BY <1>3 DEF UpsertChapter
  <2>4. /\ DOMAIN paragraphs \subseteq DOMAIN paragraphs'
        /\ \A p \in DOMAIN paragraphs :
             /\ paragraphs'[p].chapter = paragraphs[p].chapter
             /\ paragraphs'[p].index = paragraphs[p].index
             /\ paragraphs'[p].live = paragraphs[p].live
    BY <2>3, FlushedRows
  <2> SUFFICES ASSUME NEW d \in DOMAIN job.pages[job.group] \ (job.rows \ {c})
               PROVE  \E j \in ChaptersOf(job.book)' :
                        /\ chapters'[j].index = d
                        /\ job'.open = <<j, d>> \/ Filled(j, job.pages[job.group][d])'
    BY <2>2 DEF SeedingFills
  <2>5. CASE d = c
    <3>1. k \in ChaptersOf(job.book)'
      BY <2>1, <2>2 DEF ChaptersOf
    <3> QED
      BY <2>1, <2>2, <2>5, <3>1
  <2>6. CASE d # c
    <3>1. PICK j \in ChaptersOf(job.book) :
            /\ chapters[j].index = d
            /\ job.open = <<j, d>> \/ Filled(j, job.pages[job.group][d])
      BY <2>3, <2>6 DEF SeedingFills
    <3>2. j \in ChaptersOf(job.book)' /\ chapters'[j].index = d
      BY <1>1, <2>1, <2>2, <3>1 DEF ChaptersOf, RowsKept
    <3>3. \A s \in job.pages[job.group][d] : \E p \in DOMAIN paragraphs' :
            paragraphs'[p].live /\ paragraphs'[p].chapter = j /\ paragraphs'[p].index = s
      <4>1. CASE job.open = <<j, d>>
        BY <2>3, <4>1, OpenChapterIsFilled
      <4>2. CASE Filled(j, job.pages[job.group][d])
        BY <2>4, <4>2 DEF Filled, ParagraphsOf
      <4> QED
        BY <3>1, <4>1, <4>2
    <3>4. Filled(j, job.pages[job.group][d])'
      BY <2>2, <3>3 DEF Filled, ParagraphsOf
    <3> QED
      BY <3>2, <3>4
  <2> QED
    BY <2>5, <2>6
<1>4. CASE UNCHANGED <<job, chapters, paragraphs>>
  BY <1>4 DEF SeedingFills, Filled, ChaptersOf, ParagraphsOf
<1> QED
  BY <1>2, <1>3, <1>4, SeedingCases, Zenon

LEMMA SeededStays ==
    ASSUME [Next]_vars
    PROVE  SaveGroup \/ seeded' = seeded
<1>1. CASE Seed
  BY <1>1, Zenon DEF Seed, StartSeed, Begin, UpsertMethod, UpsertBook, UpsertChapter
<1>2. CASE Fix
  BY <1>2, Zenon DEF Fix, Export, StartFix, Begin, FetchPage, SkipRow, FixChapter
<1>3. CASE Rebuild
  BY <1>3, Zenon DEF Rebuild, StartRebuild, Begin, SkipBook, RebuildBook
<1>4. CASE Covers
  BY <1>4, Zenon DEF Covers, StartCovers, Begin, SkipCover, UploadToR2, SaveCover
<1>5. CASE Planning
  BY <1>5, Zenon DEF Planning, CheckSelection, CreatePlan, BuildContext
<1>6. CASE (\E g \in Groups : \E page \in Pages[g] : Publish(g, page)) \/ Stop \/ UNCHANGED vars
  BY <1>6 DEF Publish, Stop, vars
<1> QED
  BY <1>1, <1>2, <1>3, <1>4, <1>5, <1>6, Zenon DEF Next

\* What SeededFilled says of a page of group g that was stored in book b.
Holds(b, g, page) ==
    /\ b \in DOMAIN books /\ books[b].slug = SlugOf[g]
    /\ \A c \in DOMAIN page :
         \E k \in ChaptersOf(b) : chapters[k].index = c /\ Filled(k, page[c])

LEMMA HoldsStays ==
    ASSUME TypeInv, RowsKept, OnlyRepairsDelete, NEW b, NEW g, NEW page,
           Holds(b, g, page), SlugOf[g] \notin repaired'
    PROVE  Holds(b, g, page)'
<1>1. b \in DOMAIN books' /\ books'[b].slug = SlugOf[g] /\ books[b].slug = SlugOf[g]
  BY DEF Holds, RowsKept
<1>2. ASSUME NEW c \in DOMAIN page
      PROVE  \E k \in ChaptersOf(b)' : chapters'[k].index = c /\ Filled(k, page[c])'
  <2>1. PICK k \in ChaptersOf(b) : chapters[k].index = c /\ Filled(k, page[c])
    BY <1>2 DEF Holds
  <2>2. k \in ChaptersOf(b)' /\ chapters'[k].index = c
    BY <1>1, <2>1, ChapterStays DEF ChaptersOf
  <2>3. k \in DOMAIN chapters /\ books[chapters[k].book].slug \notin repaired'
    BY <1>1, <2>1 DEF ChaptersOf
  <2>4. \A s \in page[c] : \E p \in DOMAIN paragraphs' :
          paragraphs'[p].live /\ paragraphs'[p].chapter = k /\ paragraphs'[p].index = s
    BY <2>1, <2>3, FilledStays
  <2>5. Filled(k, page[c])'
    BY <2>4 DEF Filled, ParagraphsOf
  <2> QED
    BY <2>2, <2>5
<1> QED
  BY <1>1, <1>2 DEF Holds

\* When the last commit of a group is done, its book holds the page that was read.
LEMMA SaveGroupFills ==
    ASSUME TypeInv, JobInv, SeedingFills, SaveGroup, NEW g, g = job.group,
           SlugOf[g] \notin repaired', NEW page, page = job.pages[g]
    PROVE  \E b \in DOMAIN books' : Holds(b, g, page)'
<1>1. /\ job.script = "seed" /\ job.book # 0 /\ job.rows = {} /\ paragraphs' = Flushed
      /\ chapters' = chapters /\ books' = books /\ repaired' = repaired
  BY DEF SaveGroup
<1>2. [Next]_vars
  BY DEF Next, Seed
<1>3. RowsKept /\ OnlyRepairsDelete
  BY SaveGroupKeeps
<1>4. job.book \in DOMAIN books /\ books[job.book].slug = SlugOf[g]
  BY <1>1 DEF JobInv, SeedJob
<1>5. PICK b : b = job.book
  OBVIOUS
<1>6. ASSUME NEW c \in DOMAIN page
      PROVE  \E k \in ChaptersOf(b)' : chapters'[k].index = c /\ Filled(k, page[c])'
  <2>1. PICK k \in ChaptersOf(b) :
          chapters[k].index = c /\ (job.open = <<k, c>> \/ Filled(k, page[c]))
    BY <1>1, <1>5, <1>6 DEF SeedingFills
  <2>2. k \in ChaptersOf(b)' /\ chapters'[k].index = c
    BY <1>1, <2>1 DEF ChaptersOf
  <2>3. \A s \in page[c] : \E p \in DOMAIN paragraphs' :
          paragraphs'[p].live /\ paragraphs'[p].chapter = k /\ paragraphs'[p].index = s
    <3>1. CASE job.open = <<k, c>>
      BY <1>1, <3>1, OpenChapterIsFilled
    <3>2. CASE Filled(k, page[c])
      <4>1. k \in DOMAIN chapters /\ books[chapters[k].book].slug \notin repaired'
        BY <1>4, <1>5, <2>1 DEF ChaptersOf
      <4> QED
        BY <1>3, <3>2, <4>1, FilledStays
    <3> QED
      BY <2>1, <3>1, <3>2
  <2>4. Filled(k, page[c])'
    BY <2>3 DEF Filled, ParagraphsOf
  <2> QED
    BY <2>2, <2>4
<1>7. Holds(b, g, page)' /\ b \in DOMAIN books'
  BY <1>1, <1>4, <1>5, <1>6 DEF Holds
<1> QED
  BY <1>7

LEMMA SeededFilledStep ==
    ASSUME TypeInv, JobInv, SeedingFills, SeededFilled, [Next]_vars
    PROVE  SeededFilled'
<1>1. RowsKept /\ OnlyRepairsDelete
  BY StepKeepsRows
<1> SUFFICES ASSUME NEW g \in Groups, NEW page, page = seeded'[g], page # None,
                    SlugOf[g] \notin repaired'
             PROVE  \E b \in DOMAIN books' : Holds(b, g, page)'
  BY DEF SeededFilled, Holds
<1>2. CASE seeded[g] = page
  <2>1. PICK b \in DOMAIN books : Holds(b, g, page)
    BY <1>1, <1>2 DEF SeededFilled, OnlyRepairsDelete, Holds
  <2>2. Holds(b, g, page)'
    BY <1>1, <2>1, HoldsStays
  <2> QED
    BY <1>1, <2>2 DEF RowsKept
<1>3. CASE seeded[g] # page
  <2>1. SaveGroup /\ seeded' = [seeded EXCEPT ![job.group] = job.pages[job.group]]
    BY <1>3, SeededStays DEF SaveGroup
  <2>2. g = job.group /\ page = job.pages[g]
    BY <1>3, <2>1 DEF TypeInv
  <2> QED
    BY <2>1, <2>2, SaveGroupFills
<1> QED
  BY <1>2, <1>3

-----------------------------------------------------------------------------
(* The inductive invariant.                                                 *)

LEMMA InitInv == Init => CatalogueInv
<1> SUFFICES ASSUME Init PROVE CatalogueInv
  OBVIOUS
<1>1. /\ books = <<>> /\ chapters = <<>> /\ paragraphs = <<>> /\ csv = {} /\ job = Idle
      /\ methods = {} /\ bucket = {} /\ site \in Sites
      /\ plans = [p \in Plans |-> [stage |-> "none", picked |-> {}]]
      /\ seeded = [g \in Groups |-> None]
  BY DEF Init
<1>2. TypeInv
  BY <1>1 DEF TypeInv, Tables, References, PlanRows
<1>3. JobInv
  BY <1>1 DEF JobInv, Idle, JobShape
<1>4. Apart /\ DeletedByRepair /\ Distinct
  BY <1>1 DEF Apart, OwnBooks, OwnChapters, OwnParagraphs, OwnExport, DeletedByRepair, Distinct,
     SlugsDistinct, ChaptersDistinct, ParagraphsDistinct
<1>5. SeedingFills /\ SeededFilled /\ PlansStand
  BY <1>1 DEF SeedingFills, SeededFilled, PlansStand, Idle
<1> QED
  BY <1>2, <1>3, <1>4, <1>5 DEF CatalogueInv

LEMMA InvStep == CatalogueInv /\ [Next]_vars => CatalogueInv'
<1> SUFFICES ASSUME CatalogueInv, [Next]_vars PROVE CatalogueInv'
  OBVIOUS
<1> USE DEF CatalogueInv
<1>1. TypeInv' /\ JobInv' /\ Apart'
  BY TypeStep, JobStep, ApartStep
<1>2. DeletedByRepair' /\ Distinct' /\ PlansStand'
  BY DeletedByRepairStep, DistinctStep, PlansStandStep
<1>3. SeedingFills' /\ SeededFilled'
  BY SeedingFillsStep, SeededFilledStep
<1> QED
  BY <1>1, <1>2, <1>3

LEMMA AlwaysInv == Spec => []CatalogueInv
  BY InitInv, InvStep, PTL DEF Spec

-----------------------------------------------------------------------------
(* What follows.                                                            *)

\* Rows have the types of their columns, and a row that is there has a parent that is there,
\* whatever scripts ran, in whatever order, and wherever they stopped (the foreign keys and
\* cascades of book_chapter.py and book_chapter_paragraph.py).
THEOREM Types == Spec => []TypeOK
<1>1. CatalogueInv => TypeOK
  <2> SUFFICES ASSUME TypeInv PROVE TypeOK
    BY DEF CatalogueInv
  <2>1. /\ \A b \in DOMAIN books : books[b] \in BookRows
        /\ \A k \in DOMAIN chapters : chapters[k] \in ChapterRows
        /\ \A p \in DOMAIN paragraphs : paragraphs[p] \in ParagraphRows
    BY DEF TypeInv, Tables
  <2> QED
    BY <2>1 DEF TypeInv, References, TypeOK, BookRows, ChapterRows, ParagraphRows
<1> QED
  BY <1>1, AlwaysInv, PTL

\* A book is made of what the site showed of groups with its slug and of nothing else, also
\* with an export that is out of date and a URL that another group took over
\* (seed_from_sitemap.py:549-591, fix_paragraphs.py:244-279 and 395-412, fetch_covers.py:115-160).
THEOREM BooksAreApart == Spec => []BooksStayApart
<1>1. CatalogueInv => BooksStayApart
  BY DEF CatalogueInv, Apart, OwnBooks, OwnChapters, OwnParagraphs, BooksStayApart, ChaptersOf,
     ParagraphsOf, BookOfParagraph
<1> QED
  BY <1>1, AlwaysInv, PTL

\* A paragraph that a plan selected is missing, and the plan's job fails for it, only after
\* fix_paragraphs.py replaced rows of its book (route.py:98-109 and 151-170, util.py:611-627).
THEOREM PlansKeepTheirSelection == Spec => []SelectionsStand
<1>1. CatalogueInv => SelectionsStand
  BY DEF CatalogueInv, TypeInv, DeletedByRepair, PlansStand, SelectionsStand
<1> QED
  BY <1>1, AlwaysInv, PTL

\* What a completed seeding stored stays there once, whatever later runs did and wherever they
\* stopped, until fix_paragraphs.py replaces rows of the book (seed_from_sitemap.py:537-616).
THEOREM SeedingIsKept == Spec => []SeedingHolds
<1>1. CatalogueInv => SeedingHolds
  <2> SUFFICES ASSUME CatalogueInv, NEW g \in Groups, seeded[g] # None, SlugOf[g] \notin repaired
               PROVE  \E b \in DOMAIN books :
                        /\ books[b].slug = SlugOf[g]
                        /\ \A other \in DOMAIN books : books[other].slug = SlugOf[g] => other = b
                        /\ \A c \in DOMAIN seeded[g] :
                             \E k \in ChaptersOf(b) :
                               /\ \A other \in ChaptersOf(b) :
                                    chapters[other].index = chapters[k].index => other = k
                               /\ chapters[k].index = c
                               /\ \A s \in seeded[g][c] :
                                    Cardinality({p \in ParagraphsOf(k) : paragraphs[p].index = s}) = 1
    BY DEF SeedingHolds
  <2>1. PICK b \in DOMAIN books :
          /\ books[b].slug = SlugOf[g]
          /\ \A c \in DOMAIN seeded[g] :
               \E k \in ChaptersOf(b) : chapters[k].index = c /\ Filled(k, seeded[g][c])
    BY DEF CatalogueInv, SeededFilled
  <2>2. \A other \in DOMAIN books : books[other].slug = SlugOf[g] => other = b
    BY <2>1 DEF CatalogueInv, Distinct, SlugsDistinct
  <2>3. ASSUME NEW c \in DOMAIN seeded[g]
        PROVE  \E k \in ChaptersOf(b) :
                 /\ \A other \in ChaptersOf(b) :
                      chapters[other].index = chapters[k].index => other = k
                 /\ chapters[k].index = c
                 /\ \A s \in seeded[g][c] :
                      Cardinality({p \in ParagraphsOf(k) : paragraphs[p].index = s}) = 1
    <3>1. PICK k \in ChaptersOf(b) : chapters[k].index = c /\ Filled(k, seeded[g][c])
      BY <2>1, <2>3
    <3>2. \A other \in ChaptersOf(b) : chapters[other].index = chapters[k].index => other = k
      BY <2>1, <3>1 DEF CatalogueInv, Distinct, ChaptersDistinct, ChaptersOf
    <3>3. ASSUME NEW s \in seeded[g][c]
          PROVE  Cardinality({p \in ParagraphsOf(k) : paragraphs[p].index = s}) = 1
      <4>1. PICK p \in ParagraphsOf(k) : paragraphs[p].index = s
        BY <3>1, <3>3 DEF Filled
      <4>2. {q \in ParagraphsOf(k) : paragraphs[q].index = s} = {p}
        BY <4>1 DEF CatalogueInv, Distinct, ParagraphsDistinct, ParagraphsOf
      <4> QED
        BY <4>2, FS_Singleton
    <3> QED
      BY <3>1, <3>2, <3>3
  <2> QED
    BY <2>1, <2>2, <2>3
<1> QED
  BY <1>1, AlwaysInv, PTL

\* One step of a repair replaces all that it deletes.
LEMMA StepIsWhole ==
    ASSUME TypeInv, JobInv, [Next]_vars
    PROVE  /\ \A k \in DOMAIN chapters :
                ParagraphsOf(k) # {} /\ chapters'[k].live => ParagraphsOf(k)' # {}
           /\ \A b \in DOMAIN books : ChaptersOf(b) # {} => ChaptersOf(b)' # {}
<1> DEFINE Whole == /\ \A k \in DOMAIN chapters :
                         ParagraphsOf(k) # {} /\ chapters'[k].live => ParagraphsOf(k)' # {}
                    /\ \A b \in DOMAIN books : ChaptersOf(b) # {} => ChaptersOf(b)' # {}
<1>1. RowsKept
  BY StepKeepsRows
<1>2. ASSUME \A p \in DOMAIN paragraphs : paragraphs'[p].live = paragraphs[p].live,
             \A k \in DOMAIN chapters : chapters'[k].live = chapters[k].live
      PROVE  Whole
  BY <1>1, <1>2 DEF RowsKept, ParagraphsOf, ChaptersOf
<1>3. CASE UpsertBook \/ SaveCover \/ Quiet
  <2>1. UNCHANGED <<chapters, paragraphs>>
    BY <1>3 DEF UpsertBook, SaveCover, Quiet
  <2> QED
    BY <1>2, <2>1
<1>4. ASSUME NEW c \in Numbers, UpsertChapter(c) PROVE Whole
  <2>1. \E k \in DOMAIN chapters' : \A d \in DOMAIN chapters :
          /\ chapters'[d].book = chapters[d].book /\ chapters'[d].index = chapters[d].index
          /\ chapters'[d].live = chapters[d].live
    BY <1>4, UpsertedChapter
  <2>2. paragraphs' = Flushed /\ job.script = "seed"
    BY <1>4 DEF UpsertChapter
  <2>3. \A p \in DOMAIN paragraphs : paragraphs'[p].live = paragraphs[p].live
    BY <2>2, FlushedRows
  <2> QED
    BY <1>2, <2>1, <2>3
<1>5. CASE SaveGroup
  <2>1. paragraphs' = Flushed /\ job.script = "seed" /\ chapters' = chapters
    BY <1>5 DEF SaveGroup
  <2>2. \A p \in DOMAIN paragraphs : paragraphs'[p].live = paragraphs[p].live
    BY <2>1, FlushedRows
  <2> QED
    BY <1>2, <2>1, <2>2
<1>6. ASSUME NEW k \in DOMAIN chapters, NEW c \in Numbers, NEW number \in Numbers,
             FixChapter(k, c, number)
      PROVE  Whole
  <2>1. /\ DOMAIN chapters' = DOMAIN chapters
        /\ \A d \in DOMAIN chapters :
             chapters'[d].book = chapters[d].book /\ chapters'[d].live = chapters[d].live
        /\ \A p \in DOMAIN paragraphs :
             /\ paragraphs'[p].chapter = paragraphs[p].chapter
             /\ paragraphs'[p].live <=> paragraphs[p].live /\ paragraphs[p].chapter # k
        /\ \E p \in DOMAIN paragraphs' : paragraphs'[p].chapter = k /\ paragraphs'[p].live
    BY <1>6, FixedChapter
  <2>2. ParagraphsOf(k)' # {}
    BY <2>1 DEF ParagraphsOf
  <2>3. \A d \in DOMAIN chapters : d # k => ParagraphsOf(d) \subseteq ParagraphsOf(d)'
    BY <1>1, <2>1 DEF ParagraphsOf, RowsKept
  <2>4. \A b \in DOMAIN books : ChaptersOf(b) \subseteq ChaptersOf(b)'
    BY <2>1 DEF ChaptersOf
  <2> QED
    BY <2>2, <2>3, <2>4
<1>7. ASSUME NEW g \in Groups, NEW number \in [DOMAIN site[g] -> Numbers], RebuildBook(g, number)
      PROVE  Whole
  <2>1. PICK b \in DOMAIN books :
          /\ \A k \in DOMAIN chapters :
               /\ chapters'[k].book = chapters[k].book
               /\ chapters'[k].live <=> chapters[k].live /\ chapters[k].book # b
          /\ \A k \in DOMAIN chapters' \ DOMAIN chapters : chapters'[k].book = b /\ chapters'[k].live
          /\ DOMAIN chapters' \ DOMAIN chapters # {}
          /\ \A p \in DOMAIN paragraphs :
               /\ paragraphs'[p].chapter = paragraphs[p].chapter
               /\ paragraphs'[p].live <=>
                    paragraphs[p].live /\ paragraphs[p].chapter \notin ChaptersOf(b)
    BY <1>7, RebuiltBook
  <2>2. \A k \in DOMAIN chapters : chapters'[k].live => ParagraphsOf(k) \subseteq ParagraphsOf(k)'
    BY <1>1, <2>1 DEF ParagraphsOf, ChaptersOf, RowsKept
  <2>3. ChaptersOf(b)' # {}
    BY <2>1 DEF ChaptersOf
  <2>4. \A d \in DOMAIN books : d # b => ChaptersOf(d) \subseteq ChaptersOf(d)'
    BY <1>1, <2>1 DEF ChaptersOf, RowsKept
  <2> QED
    BY <2>2, <2>3, <2>4
<1> QED
  BY <1>3, <1>4, <1>5, <1>6, <1>7, StepCases, Zenon

\* A repair is never seen half done: a chapter that has paragraphs keeps some as long as it
\* exists, and a book that has chapters keeps some (fix_paragraphs.py:244-284, 395-432).
THEOREM RepairsLeaveNoGap == Spec => RepairsAreWhole
<1>1. CatalogueInv /\ [Next]_vars =>
        [/\ \A k \in DOMAIN chapters :
              ParagraphsOf(k) # {} /\ chapters'[k].live => ParagraphsOf(k)' # {}
         /\ \A b \in DOMAIN books : ChaptersOf(b) # {} => ChaptersOf(b)' # {}]_vars
  BY StepIsWhole DEF CatalogueInv
<1> QED
  BY <1>1, AlwaysInv, PTL DEF Spec, RepairsAreWhole
=============================================================================
