--------------------------- MODULE MCOverviewOutline ---------------------------
(***************************************************************************)
(* TLC instance of OverviewOutline: three lessons, six paragraphs of which  *)
(* one is titled "Les 7", and proposals of up to three lessons drawn from   *)
(* one good lesson per number and from the ways a proposal goes wrong.      *)
(***************************************************************************)
EXTENDS OverviewOutline, TLC

CONSTANTS MaxLength  \* of a proposal

MCTexts == {Written[k] : k \in DOMAIN Written} \union
           {"titel", "Les 7", "kop", "uitleg", "doel"}
MCPlaceholders == {Written.empty, Written.numbered, Written.missing,
                   Written.unavailable, "Les 7"}
MCTitle == [p \in 0..(NumParagraphs - 1) |-> IF p = 1 THEN "Les 7" ELSE "titel"]

Item(number, focus, description, detail, buildsOn, after, paragraphs) ==
    [number |-> number, focus |-> focus, description |-> description, detail |-> detail,
     buildsOn |-> buildsOn, after |-> after, paragraphs |-> paragraphs]

Items ==
    {Item(1, "kop", "uitleg", "doel", NoText, {}, {0}),
     Item(2, "kop", "uitleg", "doel", {1}, {}, {1, 2}),
     Item(3, "kop", "uitleg", "doel", {1}, {2, 5}, {3, 9}),
     Item(0, "", "", "", NoText, {1, 2}, {}),                     \* hardly anything
     Item(2, "Les 7", "uitleg", "uitleg", {3}, {3}, {1}),           \* names a later lesson
     Item(1, "kop", "", "", {}, {}, {1}),                           \* no description
     Item(3, "kop", "uitleg", "uitleg", {1}, {5}, {}),              \* no detail of its own
     Item(7, "kop", "uitleg", "", {2}, {}, {})}                     \* no such lesson

MCOutlines == UNION {[1..k -> Items] : k \in 0..MaxLength}

\* On feedback no item comes twice, nor a lesson beyond the series.
Revisions == {raw \in MCOutlines :
                /\ \A i \in DOMAIN raw : raw[i].number <= NumLessons
                /\ \A i, j \in DOMAIN raw : raw[i] = raw[j] => i = j}

Covers == UNION {[known -> {{}, {2, 9}}] : known \in SUBSET Goals}

MCPatches ==
    {[outline |-> raw] : raw \in Revisions}
        \union {[goals |-> goals] : goals \in SUBSET Goals}
        \union {[goals |-> goals, cover |-> cover] : goals \in SUBSET Goals, cover \in Covers}
================================================================================
