------------------------- MODULE OverviewOutline_proofs -------------------------
(***************************************************************************)
(* Proofs about OverviewOutline for any number of lessons and paragraphs   *)
(* and whatever the model proposes or returns on feedback.                 *)
(***************************************************************************)
EXTENDS OverviewOutline, FiniteSetTheorems, TLAPS

USE DEF Lessons, Paragraphs

\* A non-empty set of naturals has a least element: of the intervals that end
\* at its members one is minimal.
LEMMA MinIsThere ==
    ASSUME NEW S \in SUBSET Nat, S # {}
    PROVE  Min(S) \in S
<1> DEFINE T == {0..x : x \in S}
           R == StrictSubsetOrdering(Nat)
<1>1. T \subseteq FiniteSubsetsOf(Nat)
  <2> SUFFICES ASSUME NEW x \in S PROVE 0..x \in FiniteSubsetsOf(Nat)
      OBVIOUS
  <2>1. IsFiniteSet(0..x)
        BY FS_Interval
  <2>2. 0..x \in SUBSET Nat
        OBVIOUS
  <2> QED BY <2>1, <2>2 DEF FiniteSubsetsOf
<1>2. IsWellFoundedOn(R, FiniteSubsetsOf(Nat))
      BY FS_StrictSubsetOrderingWellFounded
<1>3. T # {}
      OBVIOUS
<1>4. \E X \in T : \A Y \in T : ~ (<<Y, X>> \in R)
      <2> HIDE DEF T, R
      <2> QED BY <1>1, <1>2, <1>3, WFMin
<1>5. PICK x \in S : \A y \in S : ~ (<<0..y, 0..x>> \in R)
      BY <1>4
<1>6. ASSUME NEW y \in S PROVE x <= y
  <2> SUFFICES ASSUME y < x PROVE FALSE
      OBVIOUS
  <2>1. 0..y \subseteq 0..x /\ 0..y # 0..x
    <3>1. x \in 0..x /\ x \notin 0..y
          OBVIOUS
    <3> QED BY <3>1
  <2>2. <<0..y, 0..x>> \in R
        BY <2>1 DEF StrictSubsetOrdering
  <2> QED BY <2>2, <1>5
<1> QED BY <1>6 DEF Min

\* And a bounded one a greatest: the same with the intervals that begin there.
LEMMA MaxIsThere ==
    ASSUME NEW k \in Nat, NEW S \in SUBSET (1..k), S # {}
    PROVE  Max(S) \in S
<1> DEFINE T == {x..k : x \in S}
           R == StrictSubsetOrdering(Nat)
<1>1. T \subseteq FiniteSubsetsOf(Nat)
  <2> SUFFICES ASSUME NEW x \in S PROVE x..k \in FiniteSubsetsOf(Nat)
      OBVIOUS
  <2>1. IsFiniteSet(x..k)
        BY FS_Interval
  <2>2. x..k \in SUBSET Nat
        OBVIOUS
  <2> QED BY <2>1, <2>2 DEF FiniteSubsetsOf
<1>2. IsWellFoundedOn(R, FiniteSubsetsOf(Nat))
      BY FS_StrictSubsetOrderingWellFounded
<1>3. T # {}
      OBVIOUS
<1>4. \E X \in T : \A Y \in T : ~ (<<Y, X>> \in R)
      <2> HIDE DEF T, R
      <2> QED BY <1>1, <1>2, <1>3, WFMin
<1>5. PICK x \in S : \A y \in S : ~ (<<y..k, x..k>> \in R)
      BY <1>4
<1>6. ASSUME NEW y \in S PROVE x >= y
  <2> SUFFICES ASSUME y > x PROVE FALSE
      OBVIOUS
  <2>1. y..k \subseteq x..k /\ y..k # x..k
    <3>1. x \in x..k /\ x \notin y..k
          OBVIOUS
    <3> QED BY <3>1
  <2>2. <<y..k, x..k>> \in R
        BY <2>1 DEF StrictSubsetOrdering
  <2> QED BY <2>2, <1>5
<1> QED BY <1>6 DEF Max

LEMMA OfOne ==
    ASSUME NEW n \in Nat
    PROVE  Min({n}) = n /\ Max({n}) = n
<1>1. \E x \in {n} : \A y \in {n} : x <= y
      OBVIOUS
<1>2. \E x \in {n} : \A y \in {n} : x >= y
      OBVIOUS
<1> QED BY <1>1, <1>2 DEF Min, Max

----------------------------------------------------------------------------
(* What the normalisers return *)

\* A list of lessons, of any length.
Lists == UNION {[1..k -> RawLesson] : k \in Nat}

\* A lesson as generation leaves it.
Shown(lesson, n) ==
    /\ lesson \in Lesson /\ lesson.number = n
    /\ lesson.after \subseteq Earlier(n) /\ (lesson.after = {} => n = 1)
    /\ lesson.buildsOn # NoText
    /\ lesson.paragraphs # {}
    /\ lesson.focus # ""
    /\ Placeholder(lesson.focus) => lesson.focus = Topic(lesson.paragraphs)
    /\ ~Placeholder(lesson.description) /\ ~Placeholder(lesson.detail)
    /\ lesson.detail # lesson.description

\* A lesson as the normaliser of stored overviews leaves it.
Kept(lesson, n) ==
    /\ lesson \in Lesson /\ lesson.number = n
    /\ lesson.after \subseteq Earlier(n)
    /\ lesson.paragraphs # {}
    /\ lesson.focus # "" /\ lesson.description # "" /\ lesson.detail # ""

Preview(outline) ==
    /\ outline \in Outline /\ Uncovered(outline) = {}
    /\ \A n \in Lessons : Shown(outline[n], n)

Row(outline) ==
    /\ outline \in Outline /\ Uncovered(outline) = {}
    /\ \A n \in Lessons : Kept(outline[n], n)

LEMMA TextFacts ==
    /\ "" \in Texts /\ Placeholder("")
    /\ Written.numbered \in Texts /\ Written.missing \in Texts
    /\ Written.unavailable \in Texts /\ Written.joined \in Texts
    /\ Written.description \in Texts /\ Written.detail \in Texts
    /\ ~Placeholder(Written.description) /\ ~Placeholder(Written.detail)
    /\ Written.numbered # "" /\ Written.missing # "" /\ Written.unavailable # ""
    /\ Written.joined # ""
    /\ {"", Written.numbered, Written.missing, Written.joined, Written.description}
         \subseteq Content
<1>1. /\ "" \in Placeholders /\ "" \in Texts
      BY WrittenTexts
<1>2. DOMAIN Written = {"empty", "numbered", "missing", "unavailable", "joined",
                        "description", "detail"}
      BY DEF Written
<1>3. /\ Written.numbered \in Texts /\ Written.missing \in Texts
      /\ Written.unavailable \in Texts /\ Written.joined \in Texts
      /\ Written.description \in Texts /\ Written.detail \in Texts
      BY <1>2, WrittenTexts
<1>4. /\ Written.numbered # "" /\ Written.missing # "" /\ Written.unavailable # ""
      /\ Written.joined # ""
      /\ Written.detail \notin {"", Written.numbered, Written.missing, Written.joined,
                               Written.description}
      BY DEF Written
<1> QED BY <1>1, <1>3, <1>4, WrittenTexts DEF Placeholder, Content

LEMMA RawOutline == Outline \subseteq Lists
<1> SUFFICES ASSUME NEW outline \in Outline PROVE outline \in Lists
    OBVIOUS
<1>1. Lesson \subseteq RawLesson
  <2>1. SUBSET Lessons \subseteq SUBSET Int /\ SUBSET Paragraphs \subseteq SUBSET Int
        /\ Lessons \subseteq Int
        BY Sizes
  <2> QED BY <2>1 DEF Lesson, RawLesson
<1>2. NumLessons \in Nat
      BY Sizes
<1>3. outline \in [1..NumLessons -> RawLesson]
      BY <1>1 DEF Outline
<1> QED BY <1>2, <1>3 DEF Lists

LEMMA PlacesAreIndices ==
    ASSUME NEW raw \in Lists, NEW n \in Lessons, Places(raw, n) # {}
    PROVE  /\ raw[Min(Places(raw, n))] \in RawLesson
           /\ raw[Max(Places(raw, n))] \in RawLesson
           /\ Min(Places(raw, n)) \in Places(raw, n)
           /\ Max(Places(raw, n)) \in Places(raw, n)
<1>1. PICK k \in Nat : raw \in [1..k -> RawLesson]
      BY DEF Lists
<1>2. Places(raw, n) \in SUBSET (1..k) /\ Places(raw, n) \in SUBSET Nat
      BY <1>1 DEF Places
<1>3. Min(Places(raw, n)) \in Places(raw, n)
      BY <1>2, MinIsThere
<1>4. Max(Places(raw, n)) \in Places(raw, n)
      BY <1>1, <1>2, MaxIsThere
<1> QED BY <1>1, <1>2, <1>3, <1>4

\* In a normalised outline every lesson stands at its own number.
LEMMA OwnPlace ==
    ASSUME NEW outline \in Outline, NEW n \in Lessons,
           \A m \in Lessons : outline[m].number = m
    PROVE  Places(outline, n) = {n}
<1>1. \A m \in Lessons : NumberAt(outline, m) = m
      BY Sizes DEF NumberAt
<1>2. DOMAIN outline = Lessons
      BY DEF Outline
<1> QED BY <1>1, <1>2 DEF Places

LEMMA OwnParagraphsTypes ==
    ASSUME NEW given, NEW n \in Lessons
    PROVE  OwnParagraphs(given, n) \in SUBSET Paragraphs /\ OwnParagraphs(given, n) # {}
<1>1. UsualParagraph(n) \in Paragraphs
      BY Sizes DEF UsualParagraph
<1> QED BY <1>1 DEF OwnParagraphs

\* Dealing out covers what was left: every paragraph has a rank among those
\* left, and so a lesson.
LEMMA SpreadCovers ==
    ASSUME NEW outline \in Outline
    PROVE  /\ Spread(outline) \in Outline
           /\ Uncovered(Spread(outline)) = {}
           /\ \A n \in Lessons :
                 Spread(outline)[n] = [outline[n] EXCEPT !.paragraphs =
                                         @ \union Dealt(n, Uncovered(outline))]
<1> DEFINE left == Uncovered(outline)
           new == [n \in Lessons |-> [outline[n] EXCEPT !.paragraphs = @ \union Dealt(n, left)]]
<1>1. left \subseteq Paragraphs
      BY DEF Uncovered
<1>2. \A n \in Lessons : Dealt(n, left) \subseteq Paragraphs
      BY <1>1 DEF Dealt
<1>3. Spread(outline) = new
      BY DEF Spread
<1>4. new \in Outline
      BY <1>2 DEF Outline, Lesson
<1>5. \A n \in Lessons : new[n].paragraphs = outline[n].paragraphs \union Dealt(n, left)
      BY DEF Outline, Lesson
<1>6. ASSUME NEW p \in left PROVE \E n \in Lessons : p \in Dealt(n, left)
  <2>1. IsFiniteSet(left)
    <3>1. IsFiniteSet(Paragraphs)
          BY Sizes, FS_Interval
    <3> QED BY <1>1, <3>1, FS_Subset
  <2>2. {q \in left : q < p} \in SUBSET left
        OBVIOUS
  <2>3. IsFiniteSet({q \in left : q < p})
        BY <2>1, <2>2, FS_Subset
  <2>4. Rank(p, left) \in Nat
        BY <2>3, FS_CardinalityType DEF Rank
  <2>5. (Rank(p, left) % NumLessons) + 1 \in Lessons
        BY <2>4, Sizes
  <2>6. p \in Dealt((Rank(p, left) % NumLessons) + 1, left)
    <3> DEFINE r == Rank(p, left) % NumLessons
    <3>1. r \in Int
          BY <2>4, Sizes
    <3>2. (r + 1) - 1 = r
          BY <3>1
    <3> QED BY <3>2 DEF Dealt
  <2> QED BY <2>5, <2>6
<1>7. Uncovered(new) = {}
  <2> SUFFICES ASSUME NEW p \in Paragraphs
               PROVE  \E n \in Lessons : p \in new[n].paragraphs
      BY DEF Uncovered
  <2>1. CASE p \in left
        BY <2>1, <1>5, <1>6
  <2>2. CASE p \notin left
    <3>1. \E n \in Lessons : p \in outline[n].paragraphs
          BY <2>2 DEF Uncovered
    <3> QED BY <3>1, <1>5
  <2> QED BY <2>1, <2>2
<1> QED BY <1>3, <1>4, <1>7

\* Where nothing is left, nothing changes.
LEMMA SpreadOfCovered ==
    ASSUME NEW outline \in Outline, Uncovered(outline) = {}
    PROVE  Spread(outline) = outline
<1>1. \A n \in Lessons : Dealt(n, Uncovered(outline)) = {}
      BY DEF Dealt
<1>2. ASSUME NEW n \in Lessons
      PROVE  [outline[n] EXCEPT !.paragraphs = @ \union {}] = outline[n]
      BY DEF Outline, Lesson
<1>3. Spread(outline) = [n \in Lessons |-> outline[n]]
  <2>1. \A n \in Lessons : [outline[n] EXCEPT !.paragraphs = @ \union Dealt(n, Uncovered(outline))]
                          = outline[n]
        BY <1>1, <1>2
  <2> QED BY <2>1 DEF Spread
<1> QED BY <1>3 DEF Outline

----------------------------------------------------------------------------
(* Generation *)

LEMMA FirstOfTypes ==
    ASSUME NEW raw \in Lists, NEW n \in Lessons
    PROVE  FirstOf(raw, n) \in RawLesson
<1>1. CASE Places(raw, n) = {}
  <2>1. "" \in Texts /\ "" \in Content
        BY TextFacts
  <2>2. n \in Int
        BY Sizes
  <2> QED BY <1>1, <2>1, <2>2 DEF FirstOf, Blank, RawLesson
<1>2. CASE Places(raw, n) # {}
      BY <1>2, PlacesAreIndices DEF FirstOf
<1> QED BY <1>1, <1>2

\* A drafted lesson: everything but its texts is repaired.
LEMMA DraftedFacts ==
    ASSUME NEW item \in RawLesson, NEW n \in Lessons
    PROVE  LET d == Drafted(item, n) IN
           /\ d \in Lesson /\ d.number = n
           /\ d.after \subseteq Earlier(n) /\ (d.after = {} => n = 1)
           /\ d.buildsOn # NoText /\ d.paragraphs # {} /\ d.focus # ""
<1> DEFINE earlier == item.after \intersect Earlier(n)
           after == IF earlier = {} THEN Earlier(n) \intersect {n - 1} ELSE earlier
           buildsOn == IF item.buildsOn # NoText THEN item.buildsOn
                       ELSE IF n = 1 THEN {} ELSE {Max(after)}
<1>1. n \in Int /\ 1 <= n /\ n <= NumLessons /\ NumLessons \in Nat
      BY Sizes
<1>2. after \subseteq Earlier(n)
      BY <1>1 DEF Earlier
<1>3. after = {} => n = 1
  <2> SUFFICES ASSUME n # 1 PROVE after # {}
      OBVIOUS
  <2>1. n - 1 \in Earlier(n)
        BY <1>1 DEF Earlier
  <2> QED BY <2>1
<1>4. after \subseteq Lessons
      BY <1>1, <1>2 DEF Earlier
<1>5. n # 1 => Max(after) \in 0..NumLessons
  <2> SUFFICES ASSUME n # 1 PROVE Max(after) \in 0..NumLessons
      OBVIOUS
  <2>1. after \in SUBSET (1..NumLessons) /\ after # {}
        BY <1>3, <1>4
  <2> HIDE DEF after
  <2>2. Max(after) \in after
        BY <1>1, <2>1, MaxIsThere
  <2>3. Max(after) \in 1..NumLessons
        BY <2>1, <2>2
  <2> QED BY <2>3
<1>6. buildsOn \in {NoText} \union SUBSET Nat /\ buildsOn # NoText
  <2>1. CASE item.buildsOn # NoText
        BY <2>1 DEF RawLesson
  <2>2. CASE item.buildsOn = NoText
    <3> HIDE DEF after
    <3>1. {} # NoText /\ \A m \in 0..NumLessons : {m} # NoText
          BY NoTextIsNoSet
    <3> QED BY <2>2, <3>1, <1>5
  <2> QED BY <2>1, <2>2
<1>7. /\ Or(item.focus, Written.numbered) \in Content
      /\ Or(item.focus, Written.numbered) # ""
      /\ Or(item.detail, item.description) \in Texts
      /\ item.description \in Content
      BY TextFacts DEF Or, RawLesson, Content
<1>8. Drafted(item, n) =
        [number |-> n, focus |-> Or(item.focus, Written.numbered),
         description |-> item.description, detail |-> Or(item.detail, item.description),
         buildsOn |-> buildsOn, after |-> after,
         paragraphs |-> OwnParagraphs(item.paragraphs, n)]
      BY Zenon DEF Drafted
<1> DEFINE d == Drafted(item, n)
           paragraphs == OwnParagraphs(item.paragraphs, n)
<1>9. paragraphs \in SUBSET Paragraphs /\ paragraphs # {}
      BY OwnParagraphsTypes
<1> HIDE DEF after, buildsOn
<1>10. d \in Lesson
  <2> DEFINE focus == Or(item.focus, Written.numbered)
             detail == Or(item.detail, item.description)
  <2>1. d = [number |-> n, focus |-> focus, description |-> item.description,
             detail |-> detail, buildsOn |-> buildsOn, after |-> after,
             paragraphs |-> paragraphs]
        BY <1>8
  <2>2. focus \in Content /\ item.description \in Content /\ detail \in Texts
        BY <1>7
  <2> HIDE DEF d, focus, detail, paragraphs
  <2> QED BY <1>4, <1>6, <1>9, <2>1, <2>2 DEF Lesson
<1>11. /\ d.number = n /\ d.after = after /\ d.buildsOn = buildsOn
       /\ d.paragraphs = paragraphs /\ d.focus = Or(item.focus, Written.numbered)
       BY <1>8 DEF paragraphs
<1> HIDE DEF d
<1>12. /\ d \in Lesson /\ d.number = n
       /\ d.after \subseteq Earlier(n) /\ (d.after = {} => n = 1)
       /\ d.buildsOn # NoText /\ d.paragraphs # {} /\ d.focus # ""
       BY <1>2, <1>3, <1>6, <1>7, <1>9, <1>10, <1>11
<1> QED BY <1>12 DEF d

\* The texts of a lesson are repaired by the topic of its paragraphs.
LEMMA EnrichedFacts ==
    ASSUME NEW lesson \in Lesson, NEW n \in Lessons, lesson.number = n,
           lesson.after \subseteq Earlier(n), lesson.after = {} => n = 1,
           lesson.buildsOn # NoText, lesson.paragraphs # {}, lesson.focus # ""
    PROVE  Shown(Enriched(lesson), n) /\ Enriched(lesson).paragraphs = lesson.paragraphs
<1> DEFINE focus == IF Placeholder(lesson.focus) THEN Topic(lesson.paragraphs) ELSE lesson.focus
           description == IF Placeholder(lesson.description) THEN Written.description
                          ELSE lesson.description
           detail == OwnDetail(lesson.detail, description)
<1>1. Topic(lesson.paragraphs) \in Content /\ Topic(lesson.paragraphs) # ""
  <2>1. CASE \E p \in Paragraphs : lesson.paragraphs = {p}
    <3>1. (CHOOSE p \in Paragraphs : lesson.paragraphs = {p}) \in Paragraphs
          BY <2>1
    <3> QED BY <2>1, <3>1, BookTitles DEF Topic
  <2>2. CASE ~ \E p \in Paragraphs : lesson.paragraphs = {p}
        BY <2>2, TextFacts DEF Topic
  <2> QED BY <2>1, <2>2
<1>2. focus \in Content /\ focus # "" /\ (Placeholder(focus) => focus = Topic(lesson.paragraphs))
      BY <1>1 DEF Lesson
<1>3. description \in Content /\ ~Placeholder(description)
      BY TextFacts DEF Lesson
<1>4. detail \in Texts /\ ~Placeholder(detail) /\ detail # description
  <2> HIDE DEF description
  <2>1. CASE Placeholder(lesson.detail) \/ lesson.detail = description
    <3>1. detail = Written.detail
          BY <2>1 DEF OwnDetail
    <3>2. Written.detail # description
          BY <1>3 DEF Content
    <3> QED BY <3>1, <3>2, TextFacts
  <2>2. CASE ~(Placeholder(lesson.detail) \/ lesson.detail = description)
    <3>1. detail = lesson.detail
          BY <2>2 DEF OwnDetail
    <3> QED BY <2>2, <3>1 DEF Lesson
  <2> QED BY <2>1, <2>2
<1>5. Enriched(lesson) = [lesson EXCEPT !.focus = focus, !.description = description,
                                        !.detail = detail]
      BY Zenon DEF Enriched
<1> HIDE DEF focus, description, detail
<1>6. Enriched(lesson) \in Lesson
      BY <1>2, <1>3, <1>4, <1>5 DEF Lesson
<1>7. /\ Enriched(lesson).number = lesson.number /\ Enriched(lesson).after = lesson.after
      /\ Enriched(lesson).buildsOn = lesson.buildsOn
      /\ Enriched(lesson).paragraphs = lesson.paragraphs
      /\ Enriched(lesson).focus = focus /\ Enriched(lesson).description = description
      /\ Enriched(lesson).detail = detail
      BY <1>5 DEF Lesson
<1> QED BY <1>2, <1>3, <1>4, <1>6, <1>7 DEF Shown

\* Whatever is proposed, the outline shown is complete.
LEMMA ForContextShows ==
    ASSUME NEW raw \in Lists
    PROVE  Preview(ForContext(raw))
<1> DEFINE drafted == [n \in Lessons |-> Drafted(FirstOf(raw, n), n)]
           covered == Spread(drafted)
           new == [n \in Lessons |-> Enriched(covered[n])]
<1>1. ForContext(raw) = new
      BY Zenon DEF ForContext
<1>2. \A n \in Lessons :
        /\ drafted[n] \in Lesson /\ drafted[n].number = n
        /\ drafted[n].after \subseteq Earlier(n) /\ (drafted[n].after = {} => n = 1)
        /\ drafted[n].buildsOn # NoText /\ drafted[n].paragraphs # {} /\ drafted[n].focus # ""
      BY FirstOfTypes, DraftedFacts
<1>3. drafted \in Outline
      BY <1>2 DEF Outline
<1> HIDE DEF drafted
<1>4. covered \in Outline /\ Uncovered(covered) = {}
      /\ \A n \in Lessons : covered[n] = [drafted[n] EXCEPT !.paragraphs =
                                             @ \union Dealt(n, Uncovered(drafted))]
      BY <1>3, SpreadCovers
<1> HIDE DEF covered
<1>5. ASSUME NEW n \in Lessons
      PROVE  /\ covered[n] \in Lesson /\ covered[n].number = n
             /\ covered[n].after \subseteq Earlier(n) /\ (covered[n].after = {} => n = 1)
             /\ covered[n].buildsOn # NoText /\ covered[n].paragraphs # {}
             /\ covered[n].focus # ""
  <2>1. covered[n] \in Lesson
        BY <1>4 DEF Outline
  <2>2. /\ covered[n].number = drafted[n].number /\ covered[n].after = drafted[n].after
        /\ covered[n].buildsOn = drafted[n].buildsOn /\ covered[n].focus = drafted[n].focus
        /\ drafted[n].paragraphs \subseteq covered[n].paragraphs
    <3>1. drafted[n] \in Lesson
          BY <1>2
    <3>2. covered[n] = [drafted[n] EXCEPT !.paragraphs =
                          @ \union Dealt(n, Uncovered(drafted))]
          BY <1>4
    <3> QED BY <3>1, <3>2 DEF Lesson
  <2> QED BY <2>1, <2>2, <1>2
<1>6. \A n \in Lessons : Shown(new[n], n) /\ new[n].paragraphs = covered[n].paragraphs
      BY <1>5, EnrichedFacts
<1>7. new \in Outline
      BY <1>6 DEF Outline, Shown
<1>8. Uncovered(new) = {}
  <2>1. {new[n].paragraphs : n \in Lessons} = {covered[n].paragraphs : n \in Lessons}
        BY <1>6
  <2> HIDE DEF new
  <2> QED BY <2>1, <1>4 DEF Uncovered
<1> QED BY <1>1, <1>6, <1>7, <1>8 DEF Preview

\* A lesson as generation leaves it is left alone when generation repairs it
\* again.
LEMMA ShownIsStable ==
    ASSUME NEW n \in Lessons, NEW lesson, Shown(lesson, n)
    PROVE  Drafted(lesson, n) = lesson /\ Enriched(lesson) = lesson
<1>1. /\ lesson \in Lesson /\ lesson.number = n
      /\ lesson.after \subseteq Earlier(n) /\ (lesson.after = {} => n = 1)
      /\ lesson.buildsOn # NoText /\ lesson.paragraphs # {} /\ lesson.focus # ""
      /\ Placeholder(lesson.focus) => lesson.focus = Topic(lesson.paragraphs)
      /\ ~Placeholder(lesson.description) /\ ~Placeholder(lesson.detail)
      /\ lesson.detail # lesson.description
      BY DEF Shown
<1>2. lesson = [number |-> n, focus |-> lesson.focus, description |-> lesson.description,
                detail |-> lesson.detail, buildsOn |-> lesson.buildsOn,
                after |-> lesson.after, paragraphs |-> lesson.paragraphs]
      BY <1>1 DEF Lesson
<1>3. Drafted(lesson, n) = lesson
  <2> DEFINE earlier == lesson.after \intersect Earlier(n)
             after == IF earlier = {} THEN Earlier(n) \intersect {n - 1} ELSE earlier
             buildsOn == IF lesson.buildsOn # NoText THEN lesson.buildsOn
                         ELSE IF n = 1 THEN {} ELSE {Max(after)}
  <2>1. after = lesson.after
    <3>1. earlier = lesson.after
          BY <1>1
    <3>2. CASE lesson.after = {}
      <4>1. n = 1
            BY <1>1, <3>2
      <4>2. 1..(1 - 1) = {}
            OBVIOUS
      <4>3. Earlier(n) = {}
            BY <4>1, <4>2 DEF Earlier
      <4> QED BY <4>3, <3>1, <3>2
    <3>3. CASE lesson.after # {}
          BY <3>1, <3>3
    <3> QED BY <3>2, <3>3
  <2>2. buildsOn = lesson.buildsOn
        BY <1>1
  <2>3. OwnParagraphs(lesson.paragraphs, n) = lesson.paragraphs
    <3>1. lesson.paragraphs \intersect Paragraphs = lesson.paragraphs
          BY <1>1 DEF Lesson
    <3> QED BY <1>1, <3>1 DEF OwnParagraphs
  <2>4. Or(lesson.focus, Written.numbered) = lesson.focus
        BY <1>1 DEF Or
  <2>5. Or(lesson.detail, lesson.description) = lesson.detail
    <3>1. lesson.detail # ""
          BY <1>1, TextFacts
    <3> QED BY <3>1 DEF Or
  <2>6. Drafted(lesson, n) =
          [number |-> n, focus |-> Or(lesson.focus, Written.numbered),
           description |-> lesson.description,
           detail |-> Or(lesson.detail, lesson.description),
           buildsOn |-> buildsOn, after |-> after,
           paragraphs |-> OwnParagraphs(lesson.paragraphs, n)]
        BY Zenon DEF Drafted
  <2> HIDE DEF after, buildsOn
  <2> QED BY <1>2, <2>1, <2>2, <2>3, <2>4, <2>5, <2>6
<1>4. Enriched(lesson) = lesson
  <2> DEFINE focus == IF Placeholder(lesson.focus) THEN Topic(lesson.paragraphs) ELSE lesson.focus
             description == IF Placeholder(lesson.description) THEN Written.description
                            ELSE lesson.description
             detail == OwnDetail(lesson.detail, description)
  <2>1. focus = lesson.focus
        BY <1>1
  <2>2. description = lesson.description
        BY <1>1
  <2>3. detail = lesson.detail
        BY <1>1, <2>2 DEF OwnDetail
  <2>4. Enriched(lesson) = [lesson EXCEPT !.focus = focus, !.description = description,
                                          !.detail = detail]
        BY Zenon DEF Enriched
  <2> HIDE DEF focus, description, detail
  <2> QED BY <1>1, <2>1, <2>2, <2>3, <2>4 DEF Lesson
<1> QED BY <1>3, <1>4

LEMMA ForContextIsStable ==
    ASSUME NEW outline, Preview(outline)
    PROVE  ForContext(outline) = outline
<1>1. /\ outline \in Outline /\ Uncovered(outline) = {}
      /\ \A n \in Lessons : Shown(outline[n], n) /\ outline[n].number = n
      BY DEF Preview, Shown
<1>2. ASSUME NEW n \in Lessons
      PROVE  FirstOf(outline, n) = outline[n]
  <2>1. Places(outline, n) = {n}
        BY <1>1, OwnPlace
  <2>2. Min({n}) = n
        BY OfOne, Sizes
  <2> QED BY <2>1, <2>2 DEF FirstOf
<1>3. [n \in Lessons |-> Drafted(FirstOf(outline, n), n)] = outline
  <2>1. \A n \in Lessons : Drafted(FirstOf(outline, n), n) = outline[n]
        BY <1>1, <1>2, ShownIsStable
  <2> QED BY <1>1, <2>1 DEF Outline
<1>4. Spread(outline) = outline
      BY <1>1, SpreadOfCovered
<1>5. [n \in Lessons |-> Enriched(outline[n])] = outline
  <2>1. \A n \in Lessons : Enriched(outline[n]) = outline[n]
        BY <1>1, ShownIsStable
  <2> QED BY <1>1, <2>1 DEF Outline
<1>6. ForContext(outline) =
        [n \in Lessons |-> Enriched(
            Spread([m \in Lessons |-> Drafted(FirstOf(outline, m), m)])[n])]
      BY Zenon DEF ForContext
<1> QED BY <1>3, <1>4, <1>5, <1>6

----------------------------------------------------------------------------
(* Storing and reading *)

LEMMA MissingFacts ==
    ASSUME NEW n \in Lessons
    PROVE  Kept(Missing(n), n)
<1>1. n \in Int /\ 1 <= n /\ n <= NumLessons /\ NumLessons \in Nat /\ NumParagraphs \in Nat \ {0}
      BY Sizes
<1>2. UsualParagraph(n) \in Paragraphs
      BY <1>1 DEF UsualParagraph
<1>3. Earlier(n) \subseteq Nat /\ Earlier(n) \subseteq Lessons
      BY <1>1 DEF Earlier
<1>5. /\ Written.numbered \in Content /\ Written.missing \in Content
      /\ Written.unavailable \in Texts
      /\ Written.numbered # "" /\ Written.missing # "" /\ Written.unavailable # ""
      BY TextFacts
<1>6. Missing(n) \in Lesson
  <2> DEFINE before == Earlier(n) \intersect {n - 1}
             usual == {UsualParagraph(n)}
             numbered == Written.numbered
             missing == Written.missing
             unavailable == Written.unavailable
  <2>1. before \in SUBSET Lessons /\ before \in SUBSET Nat
        BY <1>3
  <2>2. Missing(n) = [number |-> n, focus |-> numbered, description |-> missing,
                      detail |-> unavailable, buildsOn |-> before, after |-> before,
                      paragraphs |-> usual]
        BY DEF Missing
  <2>3. usual \in SUBSET Paragraphs
        BY <1>2
  <2>4. numbered \in Content /\ missing \in Content /\ unavailable \in Texts
        BY <1>5
  <2> HIDE DEF before, usual, numbered, missing, unavailable
  <2> QED BY <2>1, <2>2, <2>3, <2>4 DEF Lesson
<1>8. /\ Missing(n).number = n /\ Missing(n).after \subseteq Earlier(n)
      /\ Missing(n).paragraphs # {} /\ Missing(n).focus # ""
      /\ Missing(n).description # "" /\ Missing(n).detail # ""
      BY <1>5 DEF Missing
<1> QED BY <1>6, <1>8 DEF Kept

LEMMA RestoredFacts ==
    ASSUME NEW item \in RawLesson, NEW n \in Lessons
    PROVE  Kept(Restored(item, n), n)
<1> DEFINE r == Restored(item, n)
           focus == RestoredFocus(item)
           description == RestoredDescription(item)
           detail == RestoredDetail(item)
           after == RestoredAfter(item, n)
           paragraphs == OwnParagraphs(item.paragraphs, n)
<1>1. n \in Int /\ 1 <= n /\ n <= NumLessons /\ NumLessons \in Nat
      BY Sizes
<1>2. focus \in Content /\ focus # ""
      BY TextFacts DEF RawLesson, RestoredFocus, Or
<1>3. description \in Content /\ description # ""
      BY <1>2 DEF RawLesson, RestoredDescription, Or
<1>4. detail \in Texts /\ detail # ""
      BY <1>3 DEF RawLesson, RestoredDetail, Or, Content
<1>5. after \subseteq Earlier(n) /\ Earlier(n) \subseteq Lessons
      BY <1>1 DEF RestoredAfter, Earlier
<1>7. paragraphs \in SUBSET Paragraphs /\ paragraphs # {}
      BY OwnParagraphsTypes
<1>8. item.buildsOn \in {NoText} \union SUBSET Nat
      BY DEF RawLesson
<1>9. r = [number |-> n, focus |-> focus, description |-> description, detail |-> detail,
           buildsOn |-> item.buildsOn, after |-> after, paragraphs |-> paragraphs]
      BY DEF Restored, RestoredBuildsOn
<1> HIDE DEF r, focus, description, detail, after, paragraphs
<1>10. after \in SUBSET Lessons
       BY <1>5
<1>11. r \in Lesson
       BY <1>2, <1>3, <1>4, <1>7, <1>8, <1>9, <1>10 DEF Lesson
<1>12. Kept(r, n)
       BY <1>2, <1>3, <1>4, <1>5, <1>7, <1>9, <1>11 DEF Kept
<1> QED BY <1>12 DEF r

\* Whatever is stored is complete, and every lesson has its texts.
LEMMA NormalisedIsRow ==
    ASSUME NEW raw \in Lists
    PROVE  Row(Normalised(raw))
<1> DEFINE filled == [n \in Lessons |-> IF Places(raw, n) = {} THEN Missing(n)
                                       ELSE Restored(raw[Max(Places(raw, n))], n)]
           new == Spread(filled)
<1>1. Normalised(raw) = new
      BY Zenon DEF Normalised
<1>2. ASSUME NEW n \in Lessons PROVE Kept(filled[n], n)
  <2>1. CASE Places(raw, n) = {}
    <3>1. filled[n] = Missing(n)
          BY <2>1
    <3> QED BY <3>1, MissingFacts
  <2>2. CASE Places(raw, n) # {}
    <3>1. filled[n] = Restored(raw[Max(Places(raw, n))], n)
          BY <2>2
    <3> QED BY <2>2, <3>1, PlacesAreIndices, RestoredFacts
  <2> QED BY <2>1, <2>2
<1>3. filled \in Outline
  <2>1. \A n \in Lessons : filled[n] \in Lesson
        BY <1>2 DEF Kept
  <2>2. filled = [n \in Lessons |-> filled[n]]
        OBVIOUS
  <2> HIDE DEF filled
  <2> QED BY <2>1, <2>2 DEF Outline
<1> HIDE DEF filled
<1>4. new \in Outline /\ Uncovered(new) = {}
      /\ \A n \in Lessons : new[n] = [filled[n] EXCEPT !.paragraphs =
                                         @ \union Dealt(n, Uncovered(filled))]
      BY <1>3, SpreadCovers
<1> HIDE DEF new
<1>5. ASSUME NEW n \in Lessons PROVE Kept(new[n], n)
  <2>1. new[n] \in Lesson
        BY <1>4 DEF Outline
  <2>2. filled[n] \in Lesson
        BY <1>3 DEF Outline
  <2>3. /\ new[n].number = filled[n].number /\ new[n].after = filled[n].after
        /\ new[n].focus = filled[n].focus /\ new[n].description = filled[n].description
        /\ new[n].detail = filled[n].detail
        /\ filled[n].paragraphs \subseteq new[n].paragraphs
    <3>1. new[n] = [filled[n] EXCEPT !.paragraphs = @ \union Dealt(n, Uncovered(filled))]
          BY <1>4
    <3> QED BY <2>2, <3>1 DEF Lesson
  <2> QED BY <1>2, <2>1, <2>3 DEF Kept
<1> QED BY <1>1, <1>4, <1>5 DEF Row

\* A lesson with other earlier lessons, field by field.
LEMMA WithAfter ==
    ASSUME NEW lesson \in Lesson, NEW earlier
    PROVE  /\ [lesson EXCEPT !.after = earlier] =
                [number |-> lesson.number, focus |-> lesson.focus,
                 description |-> lesson.description, detail |-> lesson.detail,
                 buildsOn |-> lesson.buildsOn, after |-> earlier,
                 paragraphs |-> lesson.paragraphs]
           /\ earlier \in SUBSET Lessons => [lesson EXCEPT !.after = earlier] \in Lesson
BY DEF Lesson

\* A stored outline is read as it is, but for the lessons that only its texts
\* name.
LEMMA NormalisedIsRead ==
    ASSUME NEW outline, Row(outline)
    PROVE  Normalised(outline) = AsRead(outline)
<1>1. /\ outline \in Outline /\ Uncovered(outline) = {}
      /\ \A n \in Lessons : Kept(outline[n], n) /\ outline[n].number = n
      BY DEF Row, Kept
<1> DEFINE after(n) == IF outline[n].after = {}
                       THEN Named(outline[n].buildsOn) \intersect Earlier(n)
                       ELSE outline[n].after
<1>2. ASSUME NEW n \in Lessons
      PROVE  Restored(outline[n], n) = [outline[n] EXCEPT !.after = after(n)]
  <2> DEFINE lesson == outline[n]
  <2>1. /\ lesson \in Lesson /\ lesson.number = n /\ lesson.after \subseteq Earlier(n)
        /\ lesson.paragraphs # {}
        /\ lesson.focus # "" /\ lesson.description # "" /\ lesson.detail # ""
        BY <1>1 DEF Kept
  <2> HIDE DEF lesson
  <2>2. /\ RestoredFocus(lesson) = lesson.focus
        /\ RestoredDescription(lesson) = lesson.description
        /\ RestoredDetail(lesson) = lesson.detail
        BY <2>1 DEF RestoredFocus, RestoredDescription, RestoredDetail, Or
  <2>3. OwnParagraphs(lesson.paragraphs, n) = lesson.paragraphs
    <3>1. lesson.paragraphs \intersect Paragraphs = lesson.paragraphs
          BY <2>1 DEF Lesson
    <3> QED BY <2>1, <3>1 DEF OwnParagraphs
  <2>4. RestoredAfter(lesson, n) = after(n)
        BY <2>1 DEF RestoredAfter, lesson
  <2>5. Restored(lesson, n) =
          [number |-> n, focus |-> lesson.focus, description |-> lesson.description,
           detail |-> lesson.detail, buildsOn |-> lesson.buildsOn, after |-> after(n),
           paragraphs |-> lesson.paragraphs]
        BY <2>2, <2>3, <2>4 DEF Restored, RestoredBuildsOn
  <2> HIDE DEF after
  <2>6. Restored(lesson, n) = [lesson EXCEPT !.after = after(n)]
        BY <2>1, <2>5, WithAfter
  <2> QED BY <2>6 DEF lesson
<1> DEFINE filled == [n \in Lessons |-> IF Places(outline, n) = {} THEN Missing(n)
                                       ELSE Restored(outline[Max(Places(outline, n))], n)]
<1>3. \A n \in Lessons : Places(outline, n) = {n} /\ Max({n}) = n
  <2>1. \A n \in Lessons : n \in Nat
        BY Sizes
  <2> QED BY <1>1, <2>1, OwnPlace, OfOne
<1>4. \A n \in Lessons : filled[n] = [outline[n] EXCEPT !.after = after(n)]
      BY <1>2, <1>3
<1>5. filled = AsRead(outline)
  <2>1. AsRead(outline) = [n \in Lessons |-> [outline[n] EXCEPT !.after = after(n)]]
        BY DEF AsRead
  <2> QED BY <1>4, <2>1
<1>6. filled \in Outline
  <2>1. \A n \in Lessons : outline[n] \in Lesson /\ outline[n].after \subseteq Earlier(n)
        BY <1>1 DEF Kept
  <2>2. \A n \in Lessons : after(n) \in SUBSET Lessons
    <3>1. \A n \in Lessons : Earlier(n) \subseteq Lessons
          BY Sizes DEF Earlier
    <3> QED BY <2>1, <3>1
  <2> HIDE DEF after
  <2>3. \A n \in Lessons : filled[n] \in Lesson
    <3> TAKE n \in Lessons
    <3> HIDE DEF filled
    <3>1. outline[n] \in Lesson /\ after(n) \in SUBSET Lessons
          BY <2>1, <2>2
    <3>2. [outline[n] EXCEPT !.after = after(n)] \in Lesson
          BY <3>1, WithAfter
    <3> QED BY <1>4, <3>2
  <2>4. filled = [n \in Lessons |-> filled[n]]
        OBVIOUS
  <2> HIDE DEF filled
  <2> QED BY <2>3, <2>4 DEF Outline
<1>7. Uncovered(filled) = {}
  <2> HIDE DEF filled, after
  <2>1. ASSUME NEW n \in Lessons PROVE filled[n].paragraphs = outline[n].paragraphs
    <3>1. outline[n] \in Lesson
          BY <1>1 DEF Kept
    <3>2. filled[n] = [outline[n] EXCEPT !.after = after(n)]
          BY <1>4
    <3> QED BY <3>1, <3>2 DEF Lesson
  <2>2. {filled[n].paragraphs : n \in Lessons} = {outline[n].paragraphs : n \in Lessons}
        BY <2>1
  <2> QED BY <1>1, <2>2 DEF Uncovered
<1>8. Normalised(outline) = Spread(filled)
      BY Zenon DEF Normalised
<1> HIDE DEF filled
<1> QED BY <1>5, <1>6, <1>7, <1>8, SpreadOfCovered

\* What generation leaves fits the row, and only lesson 1 builds on nothing:
\* reading does not change it.
LEMMA PreviewIsRead ==
    ASSUME NEW outline, Preview(outline)
    PROVE  Normalised(outline) = outline
<1>1. ASSUME NEW n \in Lessons
      PROVE  /\ Kept(outline[n], n) /\ outline[n] \in Lesson
             /\ outline[n].after = {} => Earlier(n) = {}
  <2>1. Shown(outline[n], n)
        BY DEF Preview
  <2>2. outline[n].description # "" /\ outline[n].detail # ""
        BY <2>1, TextFacts DEF Shown
  <2>3. outline[n].after = {} => n = 1
        BY <2>1 DEF Shown
  <2>4. 1..(1 - 1) = {}
        OBVIOUS
  <2>5. outline[n].after = {} => Earlier(n) = {}
        BY <2>3, <2>4 DEF Earlier
  <2> QED BY <2>1, <2>2, <2>5 DEF Shown, Kept
<1>2. Row(outline) /\ outline \in Outline
      BY <1>1 DEF Preview, Row
<1>3. ASSUME NEW n \in Lessons
      PROVE  [outline[n] EXCEPT !.after =
                IF @ = {} THEN Named(outline[n].buildsOn) \intersect Earlier(n) ELSE @]
               = outline[n]
  <2> DEFINE after == IF outline[n].after = {}
                      THEN Named(outline[n].buildsOn) \intersect Earlier(n)
                      ELSE outline[n].after
  <2>1. after = outline[n].after
    <3>1. CASE outline[n].after = {}
      <4>1. Earlier(n) = {}
            BY <1>1, <3>1
      <4> QED BY <3>1, <4>1
    <3>2. CASE outline[n].after # {}
          BY <3>2
    <3> QED BY <3>1, <3>2
  <2> HIDE DEF after
  <2>2. [outline[n] EXCEPT !.after = after] = outline[n]
        BY <1>1, <2>1 DEF Lesson
  <2> QED BY <2>2 DEF after
<1>4. AsRead(outline) = [n \in Lessons |-> outline[n]]
      BY <1>3 DEF AsRead
<1>5. AsRead(outline) = outline
      BY <1>2, <1>4 DEF Outline
<1> QED BY <1>2, <1>5, NormalisedIsRead

----------------------------------------------------------------------------
(* What a stored overview is, and that every step keeps it so *)

\* Every lesson of an outline has texts that approval accepts.
Sound(outline) ==
    \A n \in Lessons :
        /\ ~Placeholder(outline[n].focus) /\ ~Placeholder(outline[n].description)
        /\ outline[n].detail # outline[n].description
        /\ \A named \in Named(outline[n].buildsOn) : named < n

Overview(payload) ==
    /\ payload = [outline |-> payload.outline, goals |-> payload.goals,
                  cover |-> payload.cover]
    /\ Row(payload.outline)
    /\ payload.goals # {} /\ payload.goals \subseteq Goals \union {DefaultGoal}
    /\ payload.cover = [g \in payload.goals |-> payload.cover[g]]
    /\ \A g \in payload.goals :
          payload.cover[g] # {} /\ payload.cover[g] \subseteq Lessons

LEMMA CoverFacts ==
    ASSUME NEW cover, NEW goals
    PROVE  LET new == NormalisedCover(cover, goals) IN
           /\ new = [g \in goals |-> new[g]]
           /\ \A g \in goals : new[g] # {} /\ new[g] \subseteq Lessons
<1> DEFINE known(g) == IF g \in DOMAIN cover THEN cover[g] \intersect Lessons ELSE {}
           kept(g) == IF known(g) = {} THEN {1} ELSE known(g)
<1>1. NormalisedCover(cover, goals) = [g \in goals |-> kept(g)]
      BY Zenon DEF NormalisedCover
<1>2. 1 \in Lessons
      BY Sizes
<1>3. \A g \in goals : known(g) \subseteq Lessons
      BY Zenon
<1> HIDE DEF known
<1>4. \A g \in goals : kept(g) # {} /\ kept(g) \subseteq Lessons
      BY <1>2, <1>3
<1> HIDE DEF kept
<1> QED BY <1>1, <1>4

\* Whatever is stored, from generation or from feedback, is an overview.
LEMMA StoredIsOverview ==
    ASSUME NEW payload, payload.outline \in Lists,
           payload.goals \subseteq Goals \union {DefaultGoal}
    PROVE  Overview(NormalisedPayload(payload))
<1> DEFINE goals == NormalisedGoals(payload.goals)
           outline == Normalised(payload.outline)
           cover == NormalisedCover(payload.cover, goals)
           new == NormalisedPayload(payload)
<1>1. new = [outline |-> outline, goals |-> goals, cover |-> cover]
      BY Zenon DEF NormalisedPayload
<1>2. Row(outline)
      BY NormalisedIsRow
<1>3. goals # {} /\ goals \subseteq Goals \union {DefaultGoal}
      BY DEF NormalisedGoals
<1> HIDE DEF goals
<1>4. /\ cover = [g \in goals |-> cover[g]]
      /\ \A g \in goals : cover[g] # {} /\ cover[g] \subseteq Lessons
      BY CoverFacts
<1> HIDE DEF outline, cover, new
<1>5. new.outline = outline /\ new.goals = goals /\ new.cover = cover
      BY <1>1
<1>6. Overview(new)
      BY <1>1, <1>2, <1>3, <1>4, <1>5 DEF Overview
<1> QED BY <1>6 DEF new

\* An overview is read as it is, but for the lessons its texts name.
LEMMA OverviewIsRead ==
    ASSUME NEW payload, Overview(payload)
    PROVE  /\ NormalisedPayload(payload) =
                [outline |-> AsRead(payload.outline), goals |-> payload.goals,
                 cover |-> payload.cover]
           /\ NormalisedPayload(payload) =
                [payload EXCEPT !.outline = AsRead(payload.outline)]
<1> DEFINE goals == payload.goals
           cover == payload.cover
           outline == payload.outline
<1>1. Normalised(outline) = AsRead(outline)
      BY NormalisedIsRead DEF Overview
<1>2. NormalisedGoals(goals) = goals
      BY DEF Overview, NormalisedGoals
<1>3. NormalisedCover(cover, goals) = cover
  <2>1. /\ cover = [g \in goals |-> cover[g]]
        /\ \A g \in goals : cover[g] # {} /\ cover[g] \subseteq Lessons
        BY DEF Overview
  <2> HIDE DEF goals, cover
  <2>2. DOMAIN cover = goals
        BY <2>1
  <2>3. ASSUME NEW g \in goals
        PROVE  (LET known == IF g \in DOMAIN cover THEN cover[g] \intersect Lessons ELSE {}
                IN  IF known = {} THEN {1} ELSE known) = cover[g]
    <3>1. g \in DOMAIN cover
          BY <2>2
    <3>2. cover[g] \intersect Lessons = cover[g] /\ cover[g] # {}
          BY <2>1
    <3> QED BY Zenon, <3>1, <3>2
  <2>4. NormalisedCover(cover, goals) = [g \in goals |-> cover[g]]
        BY <2>3 DEF NormalisedCover
  <2> QED BY <2>1, <2>4
<1>4. NormalisedPayload(payload) = [outline |-> AsRead(outline), goals |-> goals,
                                    cover |-> cover]
      BY <1>1, <1>2, <1>3 DEF NormalisedPayload
<1>5. payload = [outline |-> outline, goals |-> goals, cover |-> cover]
      BY DEF Overview
<1>6. [payload EXCEPT !.outline = AsRead(outline)] =
        [outline |-> AsRead(outline), goals |-> goals, cover |-> cover]
  <2> HIDE DEF outline, goals, cover
  <2> QED BY <1>5
<1> QED BY <1>4, <1>6

\* Approval accepts an overview whose lessons all have their texts.
LEMMA SoundIsValid ==
    ASSUME NEW payload, Overview(payload), Sound(payload.outline)
    PROVE  Valid(NormalisedPayload(payload))
<1> DEFINE outline == payload.outline
           read == AsRead(outline)
<1>1. Row(outline)
      BY DEF Overview
<1>2. Row(read)
  <2>1. outline \in Lists
        BY <1>1, RawOutline DEF Row
  <2>2. Row(Normalised(outline))
        BY <2>1, NormalisedIsRow
  <2> QED BY <1>1, <2>2, NormalisedIsRead
<1>3. ASSUME NEW n \in Lessons PROVE ValidLesson(read[n], n)
  <2> DEFINE after == IF outline[n].after = {}
                      THEN Named(outline[n].buildsOn) \intersect Earlier(n)
                      ELSE outline[n].after
  <2>1. read[n] = [outline[n] EXCEPT !.after = after]
        BY DEF AsRead
  <2>2. outline[n] \in Lesson
        BY <1>1 DEF Row, Kept
  <2>3. Kept(read[n], n)
        BY <1>2 DEF Row
  <2> HIDE DEF after, read
  <2>4. /\ read[n].focus = outline[n].focus
        /\ read[n].description = outline[n].description
        /\ read[n].detail = outline[n].detail /\ read[n].buildsOn = outline[n].buildsOn
        BY <2>1, <2>2 DEF Lesson
  <2>5. /\ read[n].number = n /\ read[n].after \subseteq Earlier(n)
        /\ read[n].paragraphs \subseteq Paragraphs
        BY <2>3 DEF Kept, Lesson
  <2>6. /\ ~Placeholder(outline[n].focus) /\ ~Placeholder(outline[n].description)
        /\ outline[n].detail # outline[n].description
        /\ \A named \in Named(outline[n].buildsOn) : named < n
        BY DEF Sound
  <2> HIDE DEF outline
  <2> QED BY <2>4, <2>5, <2>6 DEF ValidLesson
<1>4. Uncovered(read) = {}
      BY <1>2 DEF Row
<1>5. NormalisedPayload(payload) = [outline |-> read, goals |-> payload.goals,
                                    cover |-> payload.cover]
      BY OverviewIsRead
<1>6. /\ payload.goals # {} /\ DOMAIN payload.cover = payload.goals
      /\ \A g \in payload.goals :
            payload.cover[g] # {} /\ payload.cover[g] \subseteq Lessons
      BY DEF Overview
<1> HIDE DEF read
<1> QED BY <1>3, <1>4, <1>5, <1>6 DEF Valid

\* A revision that gives every lesson its texts is stored with them.
LEMMA WholeIsSound ==
    ASSUME NEW raw \in Lists, Whole(raw)
    PROVE  Sound(Normalised(raw))
<1> DEFINE filled == [n \in Lessons |-> IF Places(raw, n) = {} THEN Missing(n)
                                       ELSE Restored(raw[Max(Places(raw, n))], n)]
           new == Spread(filled)
<1>1. Normalised(raw) = new
      BY Zenon DEF Normalised
<1>2. ASSUME NEW n \in Lessons
      PROVE  /\ ~Placeholder(filled[n].focus) /\ ~Placeholder(filled[n].description)
             /\ filled[n].detail # filled[n].description
             /\ \A named \in Named(filled[n].buildsOn) : named < n
             /\ filled[n] \in Lesson
  <2> DEFINE i == Max(Places(raw, n))
             item == raw[i]
  <2>1. Places(raw, n) # {}
        BY DEF Whole
  <2>2. i \in Places(raw, n) /\ item \in RawLesson
        BY <2>1, PlacesAreIndices
  <2>3. i \in DOMAIN raw /\ NumberAt(raw, i) = n
        BY <2>2 DEF Places
  <2>4. WellWritten(item, n)
        BY <2>3 DEF Whole
  <2>5. filled[n] = Restored(item, n)
        BY <2>1
  <2> HIDE DEF item, filled
  <2>6. /\ item.focus # "" /\ item.description # "" /\ item.detail # ""
        BY <2>4, TextFacts DEF WellWritten
  <2>7. /\ RestoredFocus(item) = item.focus
        /\ RestoredDescription(item) = item.description
        /\ RestoredDetail(item) = item.detail
        BY <2>6 DEF RestoredFocus, RestoredDescription, RestoredDetail, Or
  <2>8. /\ filled[n].focus = item.focus /\ filled[n].description = item.description
        /\ filled[n].detail = item.detail /\ filled[n].buildsOn = item.buildsOn
        BY <2>5, <2>7 DEF Restored, RestoredBuildsOn
  <2>9. filled[n] \in Lesson
        BY <2>2, <2>5, RestoredFacts DEF Kept
  <2> QED BY <2>4, <2>8, <2>9 DEF WellWritten
<1>3. filled \in Outline
  <2>1. \A n \in Lessons : filled[n] \in Lesson
        BY <1>2
  <2>2. filled = [n \in Lessons |-> filled[n]]
        OBVIOUS
  <2> HIDE DEF filled
  <2> QED BY <2>1, <2>2 DEF Outline
<1> HIDE DEF filled
<1>4. ASSUME NEW n \in Lessons
      PROVE  /\ new[n].focus = filled[n].focus /\ new[n].detail = filled[n].detail
             /\ new[n].description = filled[n].description
             /\ new[n].buildsOn = filled[n].buildsOn
  <2>1. new[n] = [filled[n] EXCEPT !.paragraphs = @ \union Dealt(n, Uncovered(filled))]
        BY <1>3, SpreadCovers
  <2> HIDE DEF new
  <2> QED BY <1>2, <2>1 DEF Lesson
<1> HIDE DEF new
<1>5. Sound(new)
      BY <1>2, <1>4 DEF Sound
<1> QED BY <1>1, <1>5

\* Reading leaves the texts alone.
LEMMA ReadIsSound ==
    ASSUME NEW outline \in Outline, Sound(outline)
    PROVE  Sound(AsRead(outline))
<1> DEFINE read == AsRead(outline)
<1>1. ASSUME NEW n \in Lessons
      PROVE  /\ read[n].focus = outline[n].focus
             /\ read[n].description = outline[n].description
             /\ read[n].detail = outline[n].detail /\ read[n].buildsOn = outline[n].buildsOn
  <2> DEFINE after == IF outline[n].after = {}
                      THEN Named(outline[n].buildsOn) \intersect Earlier(n)
                      ELSE outline[n].after
  <2>1. read[n] = [outline[n] EXCEPT !.after = after]
        BY DEF AsRead
  <2>2. outline[n] \in Lesson
        BY DEF Outline
  <2> HIDE DEF after, read
  <2> QED BY <2>1, <2>2 DEF Lesson
<1> HIDE DEF read
<1>2. Sound(read)
      BY <1>1 DEF Sound
<1> QED BY <1>2 DEF read

\* What the model returned on feedback, filled in with what is stored.
LEMMA UpdatedFacts ==
    ASSUME NEW payload, Overview(payload), NEW patch \in Patches
    PROVE  LET new == Updated(payload, patch) IN
           /\ new.outline = IF "outline" \in DOMAIN patch THEN patch.outline
                            ELSE payload.outline
           /\ new.outline \in Lists
           /\ new.goals \subseteq Goals \union {DefaultGoal}
<1> DEFINE new == Updated(payload, patch)
           value(field) == IF field \in DOMAIN patch THEN patch[field] ELSE payload[field]
<1>1. DOMAIN payload = {"outline", "goals", "cover"}
      BY DEF Overview
<1>2. new = [field \in {"outline", "goals", "cover"} |-> value(field)]
      BY <1>1 DEF Updated
<1> HIDE DEF new
<1>3. new.outline = value("outline") /\ new.goals = value("goals")
  <2> HIDE DEF value
  <2> QED BY <1>2
<1>4. value("outline") \in Lists
  <2>1. CASE "outline" \in DOMAIN patch
    <3>1. patch.outline \in Seq(RawLesson)
          BY <2>1, Replies, Proposals
    <3>2. patch.outline \in Lists
          BY <3>1 DEF Lists
    <3> QED BY <2>1, <3>2
  <2>2. CASE "outline" \notin DOMAIN patch
    <3>1. payload.outline \in Lists
          BY RawOutline DEF Overview, Row
    <3> QED BY <2>2, <3>1
  <2> QED BY <2>1, <2>2
<1>5. value("goals") \subseteq Goals \union {DefaultGoal}
  <2>1. CASE "goals" \in DOMAIN patch
        BY <2>1, Replies
  <2>2. CASE "goals" \notin DOMAIN patch
        BY <2>2 DEF Overview
  <2> QED BY <2>1, <2>2
<1>6. /\ new.outline = value("outline") /\ new.outline \in Lists
      /\ new.goals \subseteq Goals \union {DefaultGoal}
      BY <1>3, <1>4, <1>5
<1> QED BY Zenon, <1>6 DEF new

----------------------------------------------------------------------------
(* The inductive invariant *)

Known ==
    /\ phase \in {"sequence", "composing", "ready", "lessons", "failed"}
    /\ patched \in {"never", "whole", "partly"}
    /\ preview = None \/ Preview(preview)
    /\ stored = None \/ Overview(stored)
    /\ phase = "composing" => Preview(preview)
    /\ phase = "ready" => Overview(stored)
    /\ phase \in {"sequence", "composing"} => patched = "never"
    /\ phase = "ready" /\ patched # "partly" => Sound(stored.outline)

LEMMA ComposedFacts ==
    ASSUME Preview(preview), NEW goals \in SUBSET Goals, NEW cover
    PROVE  LET overview == [outline |-> ForContext(preview), goals |-> goals, cover |-> cover]
           IN  /\ overview = [outline |-> preview, goals |-> goals, cover |-> cover]
               /\ Overview(NormalisedPayload(overview))
               /\ NormalisedPayload(overview).outline = preview
               /\ Valid(overview) => Sound(preview)
<1> DEFINE overview == [outline |-> preview, goals |-> goals, cover |-> cover]
<1>1. ForContext(preview) = preview
      BY ForContextIsStable
<1>2. preview \in Lists
      BY RawOutline DEF Preview
<1>3. overview.outline = preview /\ overview.goals = goals
      OBVIOUS
<1> HIDE DEF overview
<1>4. Overview(NormalisedPayload(overview))
      BY <1>2, <1>3, StoredIsOverview
<1>5. NormalisedPayload(overview).outline = Normalised(preview)
      BY <1>3 DEF NormalisedPayload
<1>6. NormalisedPayload(overview).outline = preview
      BY <1>5, PreviewIsRead
<1>7. Valid(overview) => Sound(preview)
      BY <1>3 DEF Valid, ValidLesson, Sound
<1> QED BY <1>1, <1>4, <1>6, <1>7 DEF overview

LEMMA KnownAtFirst == Init => Known
BY DEF Init, Known

LEMMA KnownStep == Known /\ [Next]_vars => Known'
<1> SUFFICES ASSUME Known, [Next]_vars PROVE Known'
    OBVIOUS
<1>1. ASSUME NEW raw \in Outlines, ProposeOutline(raw) PROVE Known'
  <2>1. raw \in Lists
    <3>1. raw \in Seq(RawLesson)
          BY Proposals
    <3> QED BY <3>1 DEF Lists
  <2>2. Preview(preview')
        BY <1>1, <2>1, ForContextShows DEF ProposeOutline
  <2>3. phase = "sequence" /\ phase' = "composing" /\ stored' = stored /\ patched' = patched
        BY <1>1 DEF ProposeOutline
  <2> QED BY <2>2, <2>3 DEF Known
<1>2. ASSUME NEW goals \in SUBSET Goals, NEW cover \in [goals -> Matches],
             Compose(goals, cover)
      PROVE  Known'
  <2> DEFINE overview == [outline |-> ForContext(preview), goals |-> goals, cover |-> cover]
             new == NormalisedPayload(overview)
  <2>1. phase = "composing" /\ preview' = preview /\ patched' = patched
        BY <1>2 DEF Compose
  <2>2. Preview(preview) /\ patched = "never"
        BY <2>1 DEF Known
  <2>3. /\ Overview(new) /\ new.outline = preview
        /\ Valid(overview) => Sound(preview)
        BY <2>2, ComposedFacts
  <2>4. \/ Valid(overview) /\ phase' = "ready" /\ stored' = new
        \/ phase' = "failed" /\ stored' = stored
        BY <1>2 DEF Compose
  <2> HIDE DEF overview, new
  <2> QED BY <2>1, <2>2, <2>3, <2>4 DEF Known
<1>3. ASSUME NEW patch \in Patches, ApplyFeedback(patch) PROVE Known'
  <2> DEFINE revised == Updated(stored, patch)
             new == NormalisedPayload(revised)
  <2>1. /\ phase = "ready" /\ phase' = phase /\ preview' = preview /\ stored' = new
        /\ patched' = IF "outline" \notin DOMAIN patch THEN patched
                      ELSE IF Whole(patch.outline) THEN "whole" ELSE "partly"
        BY <1>3 DEF ApplyFeedback
  <2>2. Overview(stored)
        BY <2>1 DEF Known
  <2>3. /\ revised.outline = IF "outline" \in DOMAIN patch THEN patch.outline
                             ELSE stored.outline
        /\ revised.outline \in Lists
        /\ revised.goals \subseteq Goals \union {DefaultGoal}
        BY Zenon, <2>2, UpdatedFacts
  <2> HIDE DEF revised
  <2>4. Overview(new) /\ new.outline = Normalised(revised.outline)
        BY <2>3, StoredIsOverview DEF NormalisedPayload
  <2>5. patched' \in {"never", "whole", "partly"}
        BY <2>1 DEF Known
  <2>6. patched' # "partly" => Sound(new.outline)
    <3>1. CASE "outline" \in DOMAIN patch /\ patched' # "partly"
      <4>1. Whole(patch.outline)
            BY <2>1, <3>1
      <4>2. revised.outline = patch.outline
            BY <2>3, <3>1
      <4> QED BY <2>3, <2>4, <4>1, <4>2, WholeIsSound
    <3>2. CASE "outline" \notin DOMAIN patch /\ patched' # "partly"
      <4>1. patched # "partly" /\ revised.outline = stored.outline
            BY <2>1, <2>3, <3>2
      <4>2. Sound(stored.outline) /\ Row(stored.outline) /\ stored.outline \in Outline
            BY <2>1, <2>2, <4>1 DEF Known, Overview, Row
      <4> QED BY <2>4, <4>1, <4>2, NormalisedIsRead, ReadIsSound
    <3> QED BY <3>1, <3>2
  <2> HIDE DEF new
  <2> QED BY <2>1, <2>4, <2>5, <2>6 DEF Known
<1>4. ASSUME GenerateLessons PROVE Known'
  <2>1. /\ phase = "ready" /\ phase' \in {"lessons", "failed"}
        /\ preview' = preview /\ stored' = stored /\ patched' = patched
        BY <1>4 DEF GenerateLessons
  <2> QED BY <2>1 DEF Known
<1>5. ASSUME UNCHANGED vars PROVE Known'
      BY <1>5 DEF vars, Known
<1> QED BY <1>1, <1>2, <1>3, <1>4, <1>5 DEF Next

\* The invariant of this part, from which its theorems follow: what is shown
\* is as generation leaves it, what is stored is as the other normaliser
\* leaves it, and until a revision loses texts no lesson lacks them.
THEOREM KnownAlways == Spec => []Known
<1> QED BY KnownAtFirst, KnownStep, PTL DEF Spec

----------------------------------------------------------------------------
(* The theorems *)

\* Every variable keeps its type: whatever the model proposes, what either
\* normaliser returns refers to lessons and paragraphs that exist.
THEOREM OutlineTypes == Spec => []TypeOK
<1>1. Known => TypeOK
  <2>1. preview # None /\ Known => preview \in Outline
        BY DEF Known, Preview
  <2>2. stored # None /\ Known => /\ stored.outline \in Outline
                                  /\ stored.goals \subseteq Goals \union {DefaultGoal}
        BY DEF Known, Overview, Row
  <2> QED BY <2>1, <2>2 DEF Known, TypeOK
<1> QED BY <1>1, KnownAlways, PTL

LEMMA CoveredIsComplete ==
    ASSUME NEW outline, Uncovered(outline) = {},
           \A n \in Lessons : outline[n].after \subseteq Earlier(n)
    PROVE  Complete(outline)
<1>1. Paragraphs \subseteq UNION {outline[n].paragraphs : n \in Lessons}
      BY DEF Uncovered
<1>2. \A n \in Lessons : \A m \in Earlier(n) : 1 <= m /\ m < n
      BY Sizes DEF Earlier
<1> QED BY <1>1, <1>2 DEF Complete

\* The outline shown and the outline stored treat every selected paragraph
\* and build only on earlier lessons, for any proposal and any feedback.
THEOREM OutlinesAreComplete == Spec => []OutlineComplete
<1>1. Known => OutlineComplete
  <2> SUFFICES ASSUME Known PROVE OutlineComplete
      OBVIOUS
  <2>1. ASSUME preview # None PROVE Complete(preview)
    <3>1. Preview(preview)
          BY <2>1 DEF Known
    <3> QED BY <3>1, CoveredIsComplete DEF Preview, Shown
  <2>2. ASSUME stored # None PROVE Complete(stored.outline)
    <3>1. Row(stored.outline)
          BY <2>2 DEF Known, Overview
    <3> QED BY <3>1, CoveredIsComplete DEF Row, Kept
  <2> QED BY <2>1, <2>2 DEF OutlineComplete
<1> QED BY <1>1, KnownAlways, PTL

\* The stored coverage names exactly the stored goals, each with a lesson of
\* the series, whatever feedback changed.
THEOREM CoversAreComplete == Spec => []CoverageComplete
<1>1. Known => CoverageComplete
  <2> SUFFICES ASSUME Known, stored # None
               PROVE  /\ stored.goals # {} /\ DOMAIN stored.cover = stored.goals
                      /\ \A g \in stored.goals : /\ stored.cover[g] # {}
                                                 /\ stored.cover[g] \subseteq Lessons
      BY DEF CoverageComplete
  <2>1. Overview(stored)
        BY DEF Known
  <2> QED BY <2>1 DEF Overview
<1> QED BY <1>1, KnownAlways, PTL

\* What the run checks in one: an overview that is shown is whole.
THEOREM OverviewsAreWhole == Spec => []StoredIsComplete
BY OutlinesAreComplete, CoversAreComplete, PTL DEF StoredIsComplete

\* Reading, which repairs the row again, changes nothing but the earlier
\* lessons of a lesson stored without any.
THEOREM ReadingNeverChanges == Spec => []ReadingIsStable
<1>1. Known => ReadingIsStable
  <2> SUFFICES ASSUME Known, stored # None
               PROVE  NormalisedPayload(stored) =
                        [stored EXCEPT !.outline = AsRead(stored.outline)]
      BY DEF ReadingIsStable
  <2>1. Overview(stored)
        BY DEF Known
  <2> QED BY <2>1, OverviewIsRead
<1> QED BY <1>1, KnownAlways, PTL

\* What the teacher saw while the notes were written is what is stored.
THEOREM PreviewsArePublished == Spec => PreviewIsPublished
<1>1. Known /\ [Next]_vars =>
        [phase = "composing" /\ phase' = "ready" => stored'.outline = preview]_vars
  <2> SUFFICES ASSUME Known, Next, phase = "composing", phase' = "ready"
               PROVE  stored'.outline = preview
      BY DEF vars
  <2>1. PICK goals \in SUBSET Goals : \E cover \in [goals -> Matches] : Compose(goals, cover)
        BY DEF Next, ProposeOutline, ApplyFeedback, GenerateLessons
  <2>2. PICK cover \in [goals -> Matches] : Compose(goals, cover)
        BY <2>1
  <2> DEFINE overview == [outline |-> ForContext(preview), goals |-> goals, cover |-> cover]
  <2>3. stored' = NormalisedPayload(overview)
        BY <2>2 DEF Compose
  <2>4. Preview(preview)
        BY DEF Known
  <2> QED BY <2>3, <2>4, ComposedFacts
<1> QED BY <1>1, KnownAlways, PTL DEF Spec, PreviewIsPublished

\* A topic is the title of the only paragraph, or no placeholder at all.
LEMMA TopicFacts ==
    ASSUME NEW paragraphs, Placeholder(Topic(paragraphs))
    PROVE  \E p \in Paragraphs : paragraphs = {p} /\ Placeholder(Title[p])
<1>1. ~Placeholder(Written.joined)
      BY WrittenTexts DEF Placeholder
<1>2. \E p \in Paragraphs : paragraphs = {p}
      BY <1>1 DEF Topic
<1>3. PICK p \in Paragraphs : paragraphs = {p}
      BY <1>2
<1>4. (CHOOSE q \in Paragraphs : paragraphs = {q}) = p
      BY <1>3
<1>5. Topic(paragraphs) = Title[p]
      BY <1>2, <1>4 DEF Topic
<1> QED BY <1>3, <1>5

\* Generation fails for its outline only over a lesson that says it builds on
\* one that is not earlier, or that is named after a nameless paragraph.
THEOREM GenerationRarelyRefuses == Spec => GenerationRefusesLittle
<1>1. Known /\ [Next]_vars =>
        [phase = "composing" /\ phase' = "failed" =>
            \E n \in Lessons :
                \/ \E m \in Named(preview[n].buildsOn) : m >= n
                \/ \E p \in Paragraphs : preview[n].paragraphs = {p} /\ Placeholder(Title[p])]_vars
  <2> SUFFICES ASSUME Known, Next, phase = "composing", phase' = "failed"
               PROVE  \E n \in Lessons :
                        \/ \E m \in Named(preview[n].buildsOn) : m >= n
                        \/ \E p \in Paragraphs : /\ preview[n].paragraphs = {p}
                                                 /\ Placeholder(Title[p])
      BY DEF vars
  <2>1. PICK goals \in SUBSET Goals : \E cover \in [goals -> Matches] : Compose(goals, cover)
        BY DEF Next, ProposeOutline, ApplyFeedback, GenerateLessons
  <2>2. PICK cover \in [goals -> Matches] : Compose(goals, cover)
        BY <2>1
  <2> DEFINE overview == [outline |-> preview, goals |-> goals, cover |-> cover]
  <2>3. Preview(preview)
        BY DEF Known
  <2>4. ForContext(preview) = preview
        BY <2>3, ForContextIsStable
  <2>5. ~Valid(overview) /\ goals # {}
        BY <2>2, <2>4 DEF Compose
  <2>6. /\ overview.outline = preview /\ overview.goals = goals /\ overview.cover = cover
        OBVIOUS
  <2>7. DOMAIN cover = goals /\ \A g \in goals : cover[g] # {} /\ cover[g] \subseteq Lessons
        BY GoalsAndMatches
  <2> HIDE DEF overview
  <2>8. PICK n \in Lessons : ~ValidLesson(preview[n], n)
        BY <2>3, <2>5, <2>6, <2>7 DEF Valid, Preview
  <2> DEFINE lesson == preview[n]
  <2>9. Shown(lesson, n)
        BY <2>3 DEF Preview
  <2> HIDE DEF lesson
  <2>10. /\ lesson.number = n /\ ~Placeholder(lesson.description)
         /\ lesson.detail # lesson.description /\ lesson.after \subseteq Earlier(n)
         /\ lesson.paragraphs \subseteq Paragraphs
         /\ lesson.buildsOn \subseteq Nat
         /\ Placeholder(lesson.focus) => lesson.focus = Topic(lesson.paragraphs)
        BY <2>9 DEF Shown, Lesson
  <2>11. Placeholder(lesson.focus) \/ \E m \in Named(lesson.buildsOn) : ~(m < n)
        BY <2>8, <2>10 DEF ValidLesson, lesson
  <2>12. CASE Placeholder(lesson.focus)
    <3>1. Placeholder(Topic(lesson.paragraphs))
          BY <2>10, <2>12
    <3>2. \E p \in Paragraphs : lesson.paragraphs = {p} /\ Placeholder(Title[p])
          BY <3>1, TopicFacts
    <3> QED BY <3>2 DEF lesson
  <2>13. CASE \E m \in Named(lesson.buildsOn) : ~(m < n)
    <3>1. PICK m \in Named(lesson.buildsOn) : ~(m < n)
          BY <2>13
    <3>2. m \in Nat /\ n \in Int
          BY <2>10, <3>1, Sizes DEF Named
    <3>3. m >= n
          BY <3>1, <3>2
    <3> QED BY <3>1, <3>3 DEF lesson
  <2> QED BY <2>11, <2>12, <2>13
<1> QED BY <1>1, KnownAlways, PTL DEF Spec, GenerationRefusesLittle

\* An approved overview is refused only after a revision that lost lessons or
\* their texts.
THEOREM ApprovalRarelyRefuses == Spec => ApprovalRefusesLittle
<1>1. Known /\ [Next]_vars =>
        [phase = "ready" /\ phase' = "failed" => patched = "partly"]_vars
  <2> SUFFICES ASSUME Known, Next, phase = "ready", phase' = "failed"
               PROVE  patched = "partly"
      BY DEF vars
  <2>1. GenerateLessons
        BY DEF Next, ProposeOutline, Compose, ApplyFeedback
  <2>2. ~Valid(NormalisedPayload(stored))
        BY <2>1 DEF GenerateLessons
  <2>3. Overview(stored)
        BY DEF Known
  <2>4. ~Sound(stored.outline)
        BY <2>2, <2>3, SoundIsValid
  <2> QED BY <2>4 DEF Known
<1> QED BY <1>1, KnownAlways, PTL DEF Spec, ApprovalRefusesLittle

\* Both in one: the validation of the outline refuses in these cases only.
THEOREM RefusalsStayFew == Spec => RefusalsAreFew
BY GenerationRarelyRefuses, ApprovalRarelyRefuses, PTL DEF RefusalsAreFew

================================================================================
