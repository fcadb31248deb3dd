----------------------------- MODULE Migrations_proofs -----------------------------
(***************************************************************************)
(* Proofs about Migrations, for plans with goals of any length, any number *)
(* of subjects, and any sequence of statements.                            *)
(***************************************************************************)
EXTENDS Migrations, WellFoundedInduction, TLAPS

-----------------------------------------------------------------------------------
(* Induction up to n, over a set.                                          *)

LEMMA UpTo ==
    ASSUME NEW n \in Nat, NEW P, 0 \in P, \A i \in 1..n : i - 1 \in P => i \in P
    PROVE  0..n \subseteq P
<1> DEFINE rest == (0..n) \ P
<1> SUFFICES ASSUME rest # {} PROVE FALSE
  OBVIOUS
<1>1. PICK i \in rest : \A j \in rest : ~ (<<j, i>> \in OpToRel(<, Nat))
  <2>1. rest \subseteq Nat
    OBVIOUS
  <2> HIDE DEF rest
  <2> QED
    BY <2>1, NatLessThanWellFounded, WFMin
<1>2. \A j \in rest : ~ (j < i)
  <2>1. \A j \in rest : j \in Nat
    OBVIOUS
  <2> HIDE DEF rest
  <2> SUFFICES ASSUME NEW j \in rest, j < i PROVE FALSE
    OBVIOUS
  <2>2. <<j, i>> \in Nat \X Nat
    BY <2>1
  <2>3. <<j, i>> \in OpToRel(<, Nat)
    BY <2>2 DEF OpToRel
  <2> QED
    BY <1>1, <2>3
<1>3. i \in 1..n /\ i - 1 \in 0..n
  OBVIOUS
<1>4. i - 1 \in P
  BY <1>2, <1>3
<1> QED
  BY <1>3, <1>4

-----------------------------------------------------------------------------------
(***************************************************************************)
(* Folds.  The folds of Migrations, by name: Turn(fold, a, x) is what      *)
(* fold makes of a when it meets x.                                        *)
(***************************************************************************)
Turn(fold, a, x) ==
    CASE fold[1] = "run" -> IF a # Broken /\ Possible(x, a) THEN Effect(x, a) ELSE Broken
      [] fold[1] = "command" -> StepOf(fold[2], x, a)
      [] fold[1] = "parse" ->
            IF x = <<>> THEN a ELSE Append(a, IF fold[2] = "text" THEN Unmarked(x) ELSE x)
      [] fold[1] = "line" -> IF x \in {"-", "1."} THEN a ELSE Append(a, x)
      [] fold[1] = "lines" -> Said(a, x)

\* h takes the turns of a fold over s, one after another.
Takes(fold, base, s, h) ==
    h[0] = base /\ \A i \in 1..Len(s) : h[i] = Turn(fold, h[i - 1], s[i])

LEMMA TurnsExist ==
    ASSUME NEW fold, NEW base, NEW s, Len(s) \in Nat
    PROVE  \E h : Takes(fold, base, s, h)
<1> DEFINE n == Len(s)
           T(i, h) == h[0] = base /\ \A j \in 1..i : h[j] = Turn(fold, h[j - 1], s[j])
           P == {i \in 0..n : \E h : T(i, h)}
<1>1. 0 \in P
  <2> DEFINE first == [i \in {0} |-> base]
  <2>1. first[0] = base
    OBVIOUS
  <2> HIDE DEF first
  <2>2. T(0, first)
    BY <2>1
  <2> QED
    BY <2>2
<1>2. \A i \in 1..n : i - 1 \in P => i \in P
  <2> SUFFICES ASSUME NEW i \in 1..n, i - 1 \in P PROVE \E h : T(i, h)
    OBVIOUS
  <2>1. PICK h : T(i - 1, h)
    OBVIOUS
  <2> DEFINE new == [j \in 0..i |-> IF j = i THEN Turn(fold, h[i - 1], s[i]) ELSE h[j]]
  <2>2. new[0] = base
    BY <2>1
  <2>3. ASSUME NEW j \in 1..i PROVE new[j] = Turn(fold, new[j - 1], s[j])
    <3>1. j - 1 \in 0..i /\ j \in 0..i /\ j - 1 # i /\ (j # i => j \in 1..(i - 1))
      OBVIOUS
    <3>2. CASE j = i
      BY <3>1, <3>2
    <3>3. CASE j # i
      BY <2>1, <3>1, <3>3
    <3> QED
      BY <3>2, <3>3
  <2> HIDE DEF new
  <2> QED
    BY <2>2, <2>3
<1> HIDE DEF P
<1>3. 0..n \subseteq P
  BY <1>1, <1>2, UpTo
<1>4. n \in P
  BY <1>3
<1> QED
  BY <1>4 DEF P, Takes

\* The function over the sets of positions with which the community modules fold.
Folds(fold, base, s, n, g) ==
    g = [S \in SUBSET (1..n) |->
            IF S = {} THEN base ELSE Turn(fold, g[S \ {Max(S)}], s[Max(S)])]

LEMMA MaxIsLast ==
    ASSUME NEW n \in Nat, NEW S \in SUBSET (1..n), n \in S
    PROVE  Max(S) = n
<1>1. \A y \in S : n >= y
  OBVIOUS
<1>2. Max(S) \in S /\ \A y \in S : Max(S) >= y
  BY <1>1 DEF Max
<1> DEFINE last == Max(S)
<1> HIDE DEF last
<1>3. last \in Nat /\ last \in S /\ n <= last
  <2>1. last \in S /\ \A y \in S : last >= y
    BY <1>2 DEF last
  <2> QED
    BY <2>1
<1> QED
  BY <1>3 DEF last

LEMMA FoldExists ==
    ASSUME NEW fold, NEW base, NEW s, NEW n \in Nat
    PROVE  \E g : Folds(fold, base, s, n, g)
<1> DEFINE P == {i \in 0..n : \E g : Folds(fold, base, s, i, g)}
           F(i, g) == [S \in SUBSET (1..i) |->
                         IF S = {} THEN base ELSE Turn(fold, g[S \ {Max(S)}], s[Max(S)])]
<1>1. 0 \in P
  <2> DEFINE g == [S \in SUBSET (1..0) |-> base]
  <2>1. \A S \in SUBSET (1..0) : S = {}
    OBVIOUS
  <2>2. F(0, g) = g
    BY <2>1
  <2> QED
    BY <2>2 DEF Folds
<1>2. \A i \in 1..n : i - 1 \in P => i \in P
  <2> SUFFICES ASSUME NEW i \in 1..n, i - 1 \in P PROVE \E g : Folds(fold, base, s, i, g)
    OBVIOUS
  <2>1. PICK g : Folds(fold, base, s, i - 1, g)
    OBVIOUS
  <2> DEFINE new == [S \in SUBSET (1..i) |->
                       IF i \in S THEN Turn(fold, g[S \ {i}], s[i]) ELSE g[S]]
  <2>2. ASSUME NEW S \in SUBSET (1..i)
        PROVE  new[S] = IF S = {} THEN base ELSE Turn(fold, new[S \ {Max(S)}], s[Max(S)])
    <3>1. CASE i \in S
      <4>1. Max(S) = i
        BY <3>1, MaxIsLast
      <4>2. S \ {i} \in SUBSET (1..i) /\ i \notin S \ {i}
        OBVIOUS
      <4>3. new[S \ {i}] = g[S \ {i}]
        BY <4>2
      <4>4. new[S] = Turn(fold, g[S \ {i}], s[i])
        BY <3>1
      <4> QED
        BY <3>1, <4>1, <4>3, <4>4
    <3>2. CASE i \notin S
      <4>1. S \in SUBSET (1..(i - 1))
        BY <3>2
      <4>2. g[S] = IF S = {} THEN base ELSE Turn(fold, g[S \ {Max(S)}], s[Max(S)])
        BY <2>1, <4>1 DEF Folds
      <4>3. new[S] = g[S] /\ new[S \ {Max(S)}] = g[S \ {Max(S)}]
        BY <3>2
      <4> QED
        BY <4>2, <4>3
    <3> QED
      BY <3>1, <3>2
  <2>3. new = F(i, new)
    <3>1. new = [S \in SUBSET (1..i) |-> new[S]]
      OBVIOUS
    <3> HIDE DEF new
    <3> QED
      BY <2>2, <3>1
  <2> HIDE DEF new
  <2> QED
    BY <2>3 DEF Folds
<1> HIDE DEF P
<1>3. 0..n \subseteq P
  BY <1>1, <1>2, UpTo
<1>4. n \in P
  BY <1>3
<1> QED
  BY <1>4 DEF P

LEMMA FoldTakesTurns ==
    ASSUME NEW fold, NEW base, NEW s, NEW g, NEW h, NEW n \in Nat, n = Len(s),
           Folds(fold, base, s, n, g), Takes(fold, base, s, h)
    PROVE  g[1..n] = h[n]
<1> DEFINE P == {i \in 0..n : g[1..i] = h[i]}
<1>1. 0 \in P
  <2>1. 1..0 = {} /\ {} \in SUBSET (1..n)
    OBVIOUS
  <2> QED
    BY <2>1 DEF Folds, Takes
<1>2. ASSUME NEW i \in 1..n, i - 1 \in P PROVE i \in P
  <2> HIDE DEF P
  <2>1. i \in Nat /\ i \in 1..i
    OBVIOUS
  <2>5. \A j \in 1..i : j \in 1..n
    OBVIOUS
  <2>6. 1..i \in SUBSET (1..n) /\ 1..i \in SUBSET (1..i)
    BY <2>5
  <2>2. Max(1..i) = i
    BY <2>1, <2>6, MaxIsLast
  <2>3. (1..i) \ {i} = 1..(i - 1)
    OBVIOUS
  <2>4. g[1..i] = Turn(fold, g[1..(i - 1)], s[i])
    BY <2>1, <2>2, <2>3, <2>6 DEF Folds
  <2>7. h[i] = Turn(fold, h[i - 1], s[i])
    BY DEF Takes
  <2> QED
    BY <1>2, <2>4, <2>7 DEF P
<1> HIDE DEF P
<1>3. 0..n \subseteq P
  BY <1>1, <1>2, UpTo
<1>4. n \in P
  BY <1>3
<1> QED
  BY <1>4 DEF P

LEMMA RunTakesTurns ==
    ASSUME NEW d, NEW statements, Len(statements) \in Nat, DOMAIN statements = 1..Len(statements),
           NEW h, Takes(<<"run">>, d, statements, h)
    PROVE  Run(statements, d) = h[Len(statements)]
<1> DEFINE n == Len(statements)
           Turned(g, S) == IF S = {} THEN d ELSE
             LET x == Max(S) IN
               IF g[S \ {x}] # Broken /\ Possible(statements[x], g[S \ {x}])
               THEN Effect(statements[x], g[S \ {x}]) ELSE Broken
           iter == CHOOSE g : g = [S \in SUBSET (DOMAIN statements) |-> Turned(g, S)]
<1>1. PICK g : Folds(<<"run">>, d, statements, n, g)
  BY FoldExists
<1>2. \A f : Folds(<<"run">>, d, statements, n, f) <=>
              f = [S \in SUBSET (DOMAIN statements) |-> Turned(f, S)]
  BY DEF Folds, Turn
<1>3. Folds(<<"run">>, d, statements, n, iter)
  BY <1>1, <1>2, Zenon
<1>4. Run(statements, d) = iter[DOMAIN statements]
  BY Zenon DEF Run, FoldLeft, MapThenFoldSet
<1> HIDE DEF iter
<1> QED
  BY <1>3, <1>4, FoldTakesTurns

LEMMA CommandTakesTurns ==
    ASSUME NEW direction, NEW numbers, NEW d, Len(numbers) \in Nat, DOMAIN numbers = 1..Len(numbers),
           NEW h, Takes(<<"command", direction>>, Started(d), numbers, h)
    PROVE  Command(direction, numbers, d) = h[Len(numbers)]
<1> DEFINE n == Len(numbers)
           Turned(g, S) == IF S = {} THEN Started(d) ELSE
             LET x == Max(S) IN StepOf(direction, numbers[x], g[S \ {x}])
           iter == CHOOSE g : g = [S \in SUBSET (DOMAIN numbers) |-> Turned(g, S)]
<1>1. PICK g : Folds(<<"command", direction>>, Started(d), numbers, n, g)
  BY FoldExists
<1>2. \A f : Folds(<<"command", direction>>, Started(d), numbers, n, f) <=>
              f = [S \in SUBSET (DOMAIN numbers) |-> Turned(f, S)]
  BY DEF Folds, Turn
<1>3. Folds(<<"command", direction>>, Started(d), numbers, n, iter)
  BY <1>1, <1>2, Zenon
<1>4. Command(direction, numbers, d) = iter[DOMAIN numbers]
  BY Zenon DEF Command, FoldLeft, MapThenFoldSet
<1> HIDE DEF iter
<1> QED
  BY <1>3, <1>4, FoldTakesTurns

LEMMA ParsedTakesTurns ==
    ASSUME NEW goals, Len(goals.lines) \in Nat, DOMAIN goals.lines = 1..Len(goals.lines),
           NEW h, Takes(<<"parse", goals.kind>>, <<>>, goals.lines, h)
    PROVE  Parsed(goals) = h[Len(goals.lines)]
<1> DEFINE n == Len(goals.lines)
           Turned(g, S) == IF S = {} THEN <<>> ELSE
             LET x == Max(S) IN
               IF goals.lines[x] = <<>> THEN g[S \ {x}]
               ELSE Append(g[S \ {x}], IF goals.kind = "text" THEN Unmarked(goals.lines[x])
                                       ELSE goals.lines[x])
           iter == CHOOSE g : g = [S \in SUBSET (DOMAIN goals.lines) |-> Turned(g, S)]
<1>1. PICK g : Folds(<<"parse", goals.kind>>, <<>>, goals.lines, n, g)
  BY FoldExists
<1>2. \A f : Folds(<<"parse", goals.kind>>, <<>>, goals.lines, n, f) <=>
              f = [S \in SUBSET (DOMAIN goals.lines) |-> Turned(f, S)]
  BY DEF Folds, Turn
<1>3. Folds(<<"parse", goals.kind>>, <<>>, goals.lines, n, iter)
  BY <1>1, <1>2, Zenon
<1>4. Parsed(goals) = iter[DOMAIN goals.lines]
  BY Zenon DEF Parsed, FoldLeft, MapThenFoldSet
<1> HIDE DEF iter
<1> QED
  BY <1>3, <1>4, FoldTakesTurns

LEMMA SaidTakesTurns ==
    ASSUME NEW before, NEW line, Len(line) \in Nat, DOMAIN line = 1..Len(line),
           NEW h, Takes(<<"line">>, before, line, h)
    PROVE  Said(before, line) = h[Len(line)]
<1> DEFINE n == Len(line)
           Turned(g, S) == IF S = {} THEN before ELSE
             LET x == Max(S) IN
               IF line[x] \in {"-", "1."} THEN g[S \ {x}] ELSE Append(g[S \ {x}], line[x])
           iter == CHOOSE g : g = [S \in SUBSET (DOMAIN line) |-> Turned(g, S)]
<1>1. PICK g : Folds(<<"line">>, before, line, n, g)
  BY FoldExists
<1>2. \A f : Folds(<<"line">>, before, line, n, f) <=>
              f = [S \in SUBSET (DOMAIN line) |-> Turned(f, S)]
  BY DEF Folds, Turn
<1>3. Folds(<<"line">>, before, line, n, iter)
  BY <1>1, <1>2, Zenon
<1>4. Said(before, line) = iter[DOMAIN line]
  BY Zenon DEF Said, FoldLeft, MapThenFoldSet
<1> HIDE DEF iter
<1> QED
  BY <1>3, <1>4, FoldTakesTurns

LEMMA WordsTakeTurns ==
    ASSUME NEW lines, Len(lines) \in Nat, DOMAIN lines = 1..Len(lines),
           NEW h, Takes(<<"lines">>, <<>>, lines, h)
    PROVE  Words(lines) = h[Len(lines)]
<1> DEFINE n == Len(lines)
           Turned(g, S) == IF S = {} THEN <<>> ELSE
             LET x == Max(S) IN Said(g[S \ {x}], lines[x])
           iter == CHOOSE g : g = [S \in SUBSET (DOMAIN lines) |-> Turned(g, S)]
<1>1. PICK g : Folds(<<"lines">>, <<>>, lines, n, g)
  BY FoldExists
<1>2. \A f : Folds(<<"lines">>, <<>>, lines, n, f) <=>
              f = [S \in SUBSET (DOMAIN lines) |-> Turned(f, S)]
  BY DEF Folds, Turn
<1>3. Folds(<<"lines">>, <<>>, lines, n, iter)
  BY <1>1, <1>2, Zenon
<1>4. Words(lines) = iter[DOMAIN lines]
  BY Zenon DEF Words, FoldLeft, MapThenFoldSet
<1> HIDE DEF iter
<1> QED
  BY <1>3, <1>4, FoldTakesTurns

-----------------------------------------------------------------------------------
(* The words of goals.                                                     *)

Line == Seq(STRING)
Lines == Seq(Line)
GoalRecords == [kind : {"text", "json", "list"}, lines : Lines]

LEMMA AppendStays == \A T : \A s \in Seq(T), x \in T : Append(s, x) \in Seq(T)
  OBVIOUS

LEMMA SaidIsLine ==
    ASSUME NEW before \in Line, NEW line \in Line
    PROVE  Said(before, line) \in Line
<1> DEFINE n == Len(line)
<1>1. n \in Nat /\ DOMAIN line = 1..n /\ \A i \in 1..n : line[i] \in STRING
  BY DEF Line
<1>2. PICK h : Takes(<<"line">>, before, line, h)
  BY <1>1, TurnsExist
<1> DEFINE P == {i \in 0..n : h[i] \in Line}
<1>3. 0 \in P
  BY <1>1, <1>2 DEF Takes
<1>4. ASSUME NEW i \in 1..n, i - 1 \in P PROVE i \in P
  <2>1. h[i] = Turn(<<"line">>, h[i - 1], line[i])
    BY <1>2 DEF Takes
  <2>2. h[i] = h[i - 1] \/ h[i] = Append(h[i - 1], line[i])
    BY <2>1 DEF Turn
  <2>3. h[i - 1] \in Line /\ line[i] \in STRING
    BY <1>1, <1>4
  <2>4. h[i] \in Line
    <3>1. \A a \in Line, x \in STRING : Append(a, x) \in Line
      BY AppendStays DEF Line
    <3> QED
      BY <2>2, <2>3, <3>1
  <2> QED
    BY <1>1, <2>4
<1> HIDE DEF P
<1>5. n \in P
  BY <1>1, <1>3, <1>4, UpTo
<1> QED
  BY <1>1, <1>2, <1>5, SaidTakesTurns DEF P

LEMMA SaidOfNothing == ASSUME NEW before PROVE Said(before, <<>>) = before
<1>1. Len(<<>>) = 0 /\ DOMAIN <<>> = 1..0
  OBVIOUS
<1>2. PICK h : Takes(<<"line">>, before, <<>>, h)
  BY <1>1, TurnsExist
<1>3. h[0] = before
  BY <1>2 DEF Takes
<1> QED
  BY <1>1, <1>2, <1>3, SaidTakesTurns

\* A marker at the head of a line is not said.
LEMMA MarkerIsNotSaid ==
    ASSUME NEW before, NEW line \in Line, line # <<>>, line[1] \in {"-", "1."}
    PROVE  Said(before, line) = Said(before, Tail(line))
<1> DEFINE n == Len(line)
           rest == Tail(line)
<1>1. /\ n \in Nat /\ 1 \in 1..n /\ DOMAIN line = 1..n
      /\ Len(rest) = n - 1 /\ DOMAIN rest = 1..(n - 1) /\ n - 1 \in Nat
      /\ \A i \in 1..(n - 1) : rest[i] = line[i + 1]
  BY DEF Line
<1> HIDE DEF rest
<1>2. PICK h : Takes(<<"line">>, before, line, h)
  BY <1>1, TurnsExist
<1> DEFINE k == [i \in 0..(n - 1) |-> h[i + 1]]
<1>3. k[0] = before
  <2>1. h[1] = Turn(<<"line">>, h[1 - 1], line[1]) /\ h[0] = before
    BY <1>1, <1>2 DEF Takes
  <2>2. h[1] = before
    BY <2>1 DEF Turn
  <2>3. 0 \in 0..(n - 1)
    BY <1>1
  <2> QED
    BY <2>2, <2>3
<1>4. ASSUME NEW i \in 1..(n - 1) PROVE k[i] = Turn(<<"line">>, k[i - 1], rest[i])
  <2>1. i + 1 \in 1..n /\ (i + 1) - 1 = i /\ (i - 1) + 1 = i /\ i - 1 \in 0..(n - 1) /\ i \in 0..(n - 1)
    BY <1>1
  <2>2. h[i + 1] = Turn(<<"line">>, h[i], line[i + 1])
    BY <1>2, <2>1 DEF Takes
  <2> QED
    BY <1>1, <2>1, <2>2
<1>5. k[n - 1] = h[n]
  BY <1>1
<1> HIDE DEF k
<1>6. Takes(<<"line">>, before, rest, k)
  BY <1>1, <1>3, <1>4 DEF Takes
<1>7. Said(before, rest) = k[n - 1]
  BY <1>1, <1>6, SaidTakesTurns
<1>8. Said(before, line) = h[n]
  BY <1>1, <1>2, SaidTakesTurns
<1> QED
  BY <1>5, <1>7, <1>8 DEF rest

LEMMA UnmarkedSaysTheSame ==
    ASSUME NEW line \in Line
    PROVE  Unmarked(line) \in Line /\ \A before : Said(before, Unmarked(line)) = Said(before, line)
<1> DEFINE noBullet == IF Len(line) > 1 /\ line[1] = "-" THEN Tail(line) ELSE line
<1>1. noBullet \in Line /\ \A before : Said(before, noBullet) = Said(before, line)
  <2>1. CASE Len(line) > 1 /\ line[1] = "-"
    <3>1. line # <<>> /\ Tail(line) \in Line
      BY <2>1 DEF Line
    <3> QED
      BY <2>1, <3>1, MarkerIsNotSaid
  <2>2. CASE ~(Len(line) > 1 /\ line[1] = "-")
    BY <2>2
  <2> QED
    BY <2>1, <2>2
<1>2. Unmarked(line) =
        IF Len(noBullet) > 1 /\ noBullet[1] = "1." THEN Tail(noBullet) ELSE noBullet
  BY DEF Unmarked
<1> HIDE DEF noBullet
<1>3. CASE Len(noBullet) > 1 /\ noBullet[1] = "1."
  <2>1. noBullet # <<>> /\ Tail(noBullet) \in Line
    BY <1>1, <1>3 DEF Line
  <2> QED
    BY <1>1, <1>2, <1>3, <2>1, MarkerIsNotSaid
<1>4. CASE ~(Len(noBullet) > 1 /\ noBullet[1] = "1.")
  BY <1>1, <1>2, <1>4
<1> QED
  BY <1>3, <1>4

LEMMA WordsOfNothing == Words(<<>>) = <<>>
<1>1. Len(<<>>) = 0 /\ DOMAIN <<>> = 1..0
  OBVIOUS
<1>2. PICK h : Takes(<<"lines">>, <<>>, <<>>, h)
  BY <1>1, TurnsExist
<1>3. h[0] = <<>>
  BY <1>2 DEF Takes
<1> QED
  BY <1>1, <1>2, <1>3, WordsTakeTurns

LEMMA WordsOfOneMore ==
    ASSUME NEW lines \in Lines, NEW line \in Line
    PROVE  Words(Append(lines, line)) = Said(Words(lines), line)
<1> DEFINE n == Len(lines)
           more == Append(lines, line)
<1>1. /\ n \in Nat /\ DOMAIN lines = 1..n
      /\ Len(more) = n + 1 /\ DOMAIN more = 1..(n + 1)
      /\ more[n + 1] = line /\ \A i \in 1..n : more[i] = lines[i]
  BY DEF Lines, Line
<1> HIDE DEF more
<1>2. PICK h : Takes(<<"lines">>, <<>>, more, h)
  BY <1>1, TurnsExist
<1>3. Takes(<<"lines">>, <<>>, lines, h)
  BY <1>1, <1>2 DEF Takes
<1>4. h[n + 1] = Said(h[n], line)
  <2>1. n + 1 \in 1..(n + 1) /\ (n + 1) - 1 = n
    BY <1>1
  <2>2. h[n + 1] = Turn(<<"lines">>, h[n], line)
    BY <1>1, <1>2, <2>1 DEF Takes
  <2> QED
    BY <2>2 DEF Turn
<1>5. Words(more) = h[n + 1] /\ Words(lines) = h[n]
  BY <1>1, <1>2, <1>3, WordsTakeTurns
<1> QED
  BY <1>4, <1>5 DEF more

\* Cleaning goals of bullets, numbers and blank lines keeps their words.
LEMMA ParsedSaysTheSame ==
    ASSUME NEW goals \in GoalRecords
    PROVE  Parsed(goals) \in Lines /\ Words(Parsed(goals)) = Words(goals.lines)
<1> DEFINE n == Len(goals.lines)
           fold == <<"parse", goals.kind>>
<1>1. n \in Nat /\ DOMAIN goals.lines = 1..n /\ \A i \in 1..n : goals.lines[i] \in Line
  BY DEF GoalRecords, Lines
<1>2. PICK h : Takes(fold, <<>>, goals.lines, h)
  BY <1>1, TurnsExist
<1>3. PICK k : Takes(<<"lines">>, <<>>, goals.lines, k)
  BY <1>1, TurnsExist
<1> DEFINE P == {i \in 0..n : h[i] \in Lines /\ Words(h[i]) = k[i]}
<1>4. 0 \in P
  <2>1. h[0] = <<>> /\ k[0] = <<>>
    BY <1>2, <1>3 DEF Takes
  <2>2. h[0] \in Lines
    BY <2>1 DEF Lines
  <2> QED
    BY <1>1, <2>1, <2>2, WordsOfNothing
<1>5. ASSUME NEW i \in 1..n, i - 1 \in P PROVE i \in P
  <2> DEFINE line == goals.lines[i]
             kept == IF goals.kind = "text" THEN Unmarked(line) ELSE line
  <2>1. k[i] = Said(k[i - 1], line)
    <3>1. k[i] = Turn(<<"lines">>, k[i - 1], line)
      BY <1>3 DEF Takes
    <3> QED
      BY <3>1 DEF Turn
  <2>2. h[i] = IF line = <<>> THEN h[i - 1] ELSE Append(h[i - 1], kept)
    <3>1. h[i] = Turn(fold, h[i - 1], line)
      BY <1>2 DEF Takes
    <3>2. fold[1] = "parse" /\ fold[2] = goals.kind
      OBVIOUS
    <3> HIDE DEF fold
    <3> QED
      BY <3>1, <3>2 DEF Turn
  <2>3. line \in Line
    BY <1>1
  <2>4. kept \in Line /\ \A before : Said(before, kept) = Said(before, line)
    BY <2>3, UnmarkedSaysTheSame
  <2> HIDE DEF kept, line
  <2>5. h[i - 1] \in Lines /\ Words(h[i - 1]) = k[i - 1]
    BY <1>5
  <2>6. CASE line = <<>>
    <3>1. k[i] = k[i - 1]
      BY <2>1, <2>6, SaidOfNothing
    <3> QED
      BY <1>1, <2>2, <2>5, <2>6, <3>1
  <2>7. CASE line # <<>>
    <3>1. h[i] = Append(h[i - 1], kept)
      BY <2>2, <2>7
    <3>2. h[i] \in Lines
      BY <2>4, <2>5, <3>1 DEF Lines
    <3>3. Words(h[i]) = Said(k[i - 1], line)
      BY <2>4, <2>5, <3>1, WordsOfOneMore
    <3> QED
      BY <1>1, <2>1, <3>2, <3>3
  <2> QED
    BY <2>6, <2>7
<1> HIDE DEF P
<1>6. n \in P
  <2>1. 0..n \subseteq P
    BY <1>1, <1>4, <1>5, UpTo
  <2> QED
    BY <1>1, <2>1
<1>7. h[n] \in Lines /\ Words(h[n]) = k[n]
  BY <1>6 DEF P
<1>8. Parsed(goals) = h[n]
  BY <1>1, <1>2, ParsedTakesTurns
<1>9. Words(goals.lines) = k[n]
  BY <1>1, <1>3, WordsTakeTurns
<1> QED
  BY <1>7, <1>8, <1>9

-----------------------------------------------------------------------------------
(* What a statement leaves.                                                *)

SupportType == "class_support_challenge"

Fields == {"tables", "cols", "fks", "keys", "types", "rows", "nulls", "support", "subjects", "goals",
           "copies"}
IsDatabase(d) == DOMAIN d = Fields /\ d = [f \in Fields |-> d[f]]

IsColumn(x) ==
    /\ x = [on |-> x.on, col |-> x.col, type |-> x.type, null |-> x.null]
    /\ x.null \in BOOLEAN
    /\ x.col = "support_challenge" => x.on = "class" /\ x.type = SupportType

\* What holds of every statement of the chain.
WellMade(s) ==
    /\ s.op \in {"create", "drop", "drop if exists", "add", "drop column", "drop column if exists",
                 "require", "relax", "link", "unlink", "unlink unnamed", "key", "drop key", "type",
                 "type if missing", "drop type", "drop type if exists", "rename", "add label",
                 "sync labels", "fill", "fill from", "parse goals", "join goals", "extract goals"}
    /\ s.op = "create" =>
         /\ \A x \in s.cols : IsColumn(x) /\ x.on = s.on /\ x.null = FALSE
         /\ \A x, y \in s.cols : x.col = y.col => x = y
         /\ \A f \in s.fks : f.on = s.on
    /\ s.op = "add" => IsColumn(s.row)
    /\ s.op = "rename" => s.type # SupportType

\* A null is in a column that is there and takes it, and a support label in use has its column.
SchemaOK(d) ==
    /\ IsDatabase(d)
    /\ \A f \in d.fks : {f.on, f.to} \subseteq d.tables
    /\ \A x \in d.cols : IsColumn(x) /\ x.on \in d.tables /\ x.type \in {Plain} \union DOMAIN d.types
    /\ \A x, y \in d.cols : x.on = y.on /\ x.col = y.col => x = y
    /\ \A v \in d.nulls : \E x \in d.cols : x.null = TRUE /\ v = <<x.on, x.col>>
    /\ d.rows \subseteq d.tables
    /\ d.support # {} => /\ \E x \in d.cols : x.col = "support_challenge"
                         /\ d.support \subseteq d.types[SupportType]
    /\ d.subjects \in 0..MaxSubjects

LEMMA TableGoes ==
    ASSUME NEW d, SchemaOK(d), NEW t
    PROVE  SchemaOK(WithoutTable(t, d))
<1> DEFINE e == WithoutTable(t, d)
<1>1. /\ IsDatabase(e)
      /\ e.tables = d.tables \ {t}
      /\ e.cols = {c \in d.cols : c.on # t}
      /\ e.fks = {f \in d.fks : f.on # t /\ f.to # t}
      /\ e.types = d.types
      /\ e.nulls = {n \in d.nulls : n[1] # t}
      /\ e.rows = d.rows \ {t}
      /\ e.support = IF t = "class" THEN {} ELSE d.support
      /\ e.subjects = IF t = "subjects" THEN 0 ELSE d.subjects
  BY DEF WithoutTable, SchemaOK, IsDatabase, Fields
<1> HIDE DEF e
<1>2. \A v \in e.nulls : \E x \in e.cols : x.null = TRUE /\ v = <<x.on, x.col>>
  BY <1>1 DEF SchemaOK
<1>3. e.support # {} => /\ \E x \in e.cols : x.col = "support_challenge"
                        /\ e.support \subseteq e.types[SupportType]
  BY <1>1 DEF SchemaOK, IsColumn
<1> QED
  BY <1>1, <1>2, <1>3, MaxSubjectsAssumption DEF SchemaOK, e

LEMMA ColumnGoes ==
    ASSUME NEW d, SchemaOK(d), NEW t, NEW c
    PROVE  SchemaOK(WithoutColumn(t, c, d))
<1> DEFINE e == WithoutColumn(t, c, d)
<1>1. /\ IsDatabase(e)
      /\ e.tables = d.tables /\ e.types = d.types /\ e.rows = d.rows /\ e.subjects = d.subjects
      /\ e.cols = {x \in d.cols : x.on # t \/ x.col # c}
      /\ e.fks = {f \in d.fks : f.on # t \/ f.col # c}
      /\ e.nulls = d.nulls \ {<<t, c>>}
      /\ e.support = IF c = "support_challenge" THEN {} ELSE d.support
  BY DEF WithoutColumn, SchemaOK, IsDatabase, Fields
<1> HIDE DEF e
<1>2. \A v \in e.nulls : \E x \in e.cols : x.null = TRUE /\ v = <<x.on, x.col>>
  BY <1>1 DEF SchemaOK
<1>3. e.support # {} => /\ \E x \in e.cols : x.col = "support_challenge"
                        /\ e.support \subseteq e.types[SupportType]
  BY <1>1 DEF SchemaOK
<1> QED
  BY <1>1, <1>2, <1>3 DEF SchemaOK, e

\* A type that goes is not in use.
LEMMA TypeGoes ==
    ASSUME NEW d, SchemaOK(d), NEW n, n \notin UsedTypes(d)
    PROVE  SchemaOK(WithoutType(n, d))
<1> DEFINE e == WithoutType(n, d)
<1>1. /\ IsDatabase(e)
      /\ e.tables = d.tables /\ e.cols = d.cols /\ e.fks = d.fks /\ e.nulls = d.nulls
      /\ e.rows = d.rows /\ e.support = d.support /\ e.subjects = d.subjects
      /\ DOMAIN e.types = DOMAIN d.types \ {n}
      /\ \A m \in DOMAIN d.types \ {n} : e.types[m] = d.types[m]
  BY DEF WithoutType, SchemaOK, IsDatabase, Fields
<1> HIDE DEF e
<1>2. \A x \in d.cols : x.type # n
  BY DEF UsedTypes
<1>3. \A x \in e.cols : x.type \in {Plain} \union DOMAIN e.types
  BY <1>1, <1>2 DEF SchemaOK
<1>4. d.support # {} => SupportType \in DOMAIN d.types \ {n}
  BY <1>2 DEF SchemaOK, IsColumn, SupportType, Plain
<1> QED
  BY <1>1, <1>3, <1>4 DEF SchemaOK, e

\* A type that comes or changes keeps the support labels in use.
LEMMA TypeComes ==
    ASSUME NEW d, SchemaOK(d), NEW n, NEW labels, n = SupportType => d.support \subseteq labels
    PROVE  SchemaOK(WithType(n, labels, d))
<1> DEFINE e == WithType(n, labels, d)
<1>1. /\ IsDatabase(e)
      /\ e.tables = d.tables /\ e.cols = d.cols /\ e.fks = d.fks /\ e.nulls = d.nulls
      /\ e.rows = d.rows /\ e.support = d.support /\ e.subjects = d.subjects
      /\ DOMAIN e.types = DOMAIN d.types \union {n} /\ e.types[n] = labels
      /\ \A m \in DOMAIN d.types \ {n} : e.types[m] = d.types[m]
  BY DEF WithType, SchemaOK, IsDatabase, Fields
<1> HIDE DEF e
<1>2. d.support # {} => SupportType \in DOMAIN d.types
  BY DEF SchemaOK, IsColumn, SupportType, Plain
<1>3. e.support # {} => e.support \subseteq e.types[SupportType]
  BY <1>1, <1>2 DEF SchemaOK
<1> QED
  BY <1>1, <1>3 DEF SchemaOK, e

LEMMA ColumnTakesNull ==
    ASSUME NEW d, SchemaOK(d), NEW t, NEW c, NEW null \in BOOLEAN, null \/ ~HasNulls(d, t, c)
    PROVE  SchemaOK(Nullable(t, c, null, d))
<1> DEFINE e == Nullable(t, c, null, d)
           new(x) == IF x.on = t /\ x.col = c THEN [x EXCEPT !.null = null] ELSE x
<1>1. /\ IsDatabase(e)
      /\ e.tables = d.tables /\ e.types = d.types /\ e.fks = d.fks /\ e.nulls = d.nulls
      /\ e.rows = d.rows /\ e.support = d.support /\ e.subjects = d.subjects
      /\ e.cols = {new(x) : x \in d.cols}
  BY DEF Nullable, SchemaOK, IsDatabase, Fields
<1>2. ASSUME NEW x \in d.cols
      PROVE  /\ IsColumn(new(x)) /\ new(x).on = x.on /\ new(x).col = x.col /\ new(x).type = x.type
             /\ new(x).null = IF x.on = t /\ x.col = c THEN null ELSE x.null
  <2>1. IsColumn(x)
    BY DEF SchemaOK
  <2> QED
    BY <2>1 DEF IsColumn
<1> HIDE DEF e, new
<1>3. \A x \in e.cols : IsColumn(x) /\ x.on \in e.tables /\ x.type \in {Plain} \union DOMAIN e.types
  BY <1>1, <1>2 DEF SchemaOK
<1>4. \A x, y \in e.cols : x.on = y.on /\ x.col = y.col => x = y
  BY <1>1, <1>2 DEF SchemaOK
<1>5. \A v \in e.nulls : \E x \in e.cols : x.null = TRUE /\ v = <<x.on, x.col>>
  <2> SUFFICES ASSUME NEW v \in d.nulls
               PROVE  \E x \in d.cols : new(x).null = TRUE /\ v = <<new(x).on, new(x).col>>
    BY <1>1
  <2>1. PICK x \in d.cols : x.null = TRUE /\ v = <<x.on, x.col>>
    BY DEF SchemaOK
  <2>2. x.on = t /\ x.col = c => null = TRUE
    BY <2>1 DEF HasNulls
  <2> QED
    BY <1>2, <2>1, <2>2
<1>6. e.support # {} => \E x \in e.cols : x.col = "support_challenge"
  BY <1>1, <1>2 DEF SchemaOK
<1> QED
  BY <1>1, <1>3, <1>4, <1>5, <1>6 DEF SchemaOK, e

LEMMA TableComes ==
    ASSUME NEW d, SchemaOK(d), NEW s, WellMade(s), s.op = "create", Possible(s, d)
    PROVE  SchemaOK(Effect(s, d))
<1> DEFINE e == Effect(s, d)
<1>1. e = [d EXCEPT !.tables = @ \union {s.on},
                    !.cols = @ \union s.cols, !.fks = @ \union s.fks]
  BY DEF Effect
<1>2. /\ IsDatabase(e)
      /\ e.types = d.types /\ e.nulls = d.nulls
      /\ e.rows = d.rows /\ e.support = d.support /\ e.subjects = d.subjects
      /\ e.tables = d.tables \union {s.on}
      /\ e.cols = d.cols \union s.cols
      /\ e.fks = d.fks \union s.fks
  BY <1>1 DEF SchemaOK, IsDatabase, Fields
<1>3. /\ s.on \notin d.tables
      /\ \A f \in s.fks : f.to \in d.tables \union {s.on}
      /\ \A c \in s.cols : c.type \in {Plain} \union DOMAIN d.types
  BY DEF Possible
<1>4. /\ \A x \in s.cols : IsColumn(x) /\ x.on = s.on
      /\ \A x, y \in s.cols : x.col = y.col => x = y
      /\ \A f \in s.fks : f.on = s.on
  BY DEF WellMade
<1> HIDE DEF e
<1>5. \A x, y \in e.cols : x.on = y.on /\ x.col = y.col => x = y
  BY <1>2, <1>3, <1>4 DEF SchemaOK
<1>6. \A v \in e.nulls : \E x \in e.cols : x.null = TRUE /\ v = <<x.on, x.col>>
  BY <1>2 DEF SchemaOK
<1>7. \A x \in e.cols : IsColumn(x) /\ x.on \in e.tables /\ x.type \in {Plain} \union DOMAIN e.types
  BY <1>2, <1>3, <1>4 DEF SchemaOK
<1>8. \A f \in e.fks : {f.on, f.to} \subseteq e.tables
  BY <1>2, <1>3, <1>4 DEF SchemaOK
<1>9. /\ e.support # {} => /\ \E x \in e.cols : x.col = "support_challenge"
                           /\ e.support \subseteq e.types[SupportType]
      /\ e.rows \subseteq e.tables /\ e.subjects \in 0..MaxSubjects
  BY <1>2 DEF SchemaOK
<1> QED
  BY <1>2, <1>5, <1>6, <1>7, <1>8, <1>9 DEF SchemaOK, e

LEMMA ColumnComes ==
    ASSUME NEW d, SchemaOK(d), NEW s, WellMade(s), s.op = "add", Possible(s, d)
    PROVE  SchemaOK(Effect(s, d))
<1> DEFINE e == Effect(s, d)
<1>1. e = [d EXCEPT !.cols = @ \union {s.row},
                    !.nulls = IF s.row.null /\ s.row.on \in d.rows
                              THEN @ \union {<<s.row.on, s.row.col>>} ELSE @]
  BY DEF Effect
<1>2. /\ IsDatabase(e)
      /\ e.types = d.types /\ e.tables = d.tables /\ e.fks = d.fks
      /\ e.rows = d.rows /\ e.support = d.support /\ e.subjects = d.subjects
      /\ e.cols = d.cols \union {s.row}
      /\ e.nulls = IF s.row.null /\ s.row.on \in d.rows
                   THEN d.nulls \union {<<s.row.on, s.row.col>>} ELSE d.nulls
  BY <1>1 DEF SchemaOK, IsDatabase, Fields
<1>3. /\ s.row.on \in d.tables
      /\ ~HasColumn(d, s.row.on, s.row.col)
      /\ s.row.type \in {Plain} \union DOMAIN d.types
  BY DEF Possible
<1>4. IsColumn(s.row) /\ s.row.null \in BOOLEAN
  BY DEF WellMade, IsColumn
<1> HIDE DEF e
<1>5. \A x, y \in e.cols : x.on = y.on /\ x.col = y.col => x = y
  BY <1>2, <1>3 DEF SchemaOK, HasColumn
<1>6. \A v \in e.nulls : \E x \in e.cols : x.null = TRUE /\ v = <<x.on, x.col>>
  <2> SUFFICES ASSUME NEW v \in e.nulls
               PROVE  \E x \in e.cols : x.null = TRUE /\ v = <<x.on, x.col>>
    OBVIOUS
  <2>1. CASE v \in d.nulls
    BY <1>2, <2>1 DEF SchemaOK
  <2>2. CASE v \notin d.nulls
    <3>1. s.row.null = TRUE /\ v = <<s.row.on, s.row.col>>
      BY <1>2, <1>4, <2>2
    <3> QED
      BY <1>2, <3>1
  <2> QED
    BY <2>1, <2>2
<1>7. \A x \in e.cols : IsColumn(x) /\ x.on \in e.tables /\ x.type \in {Plain} \union DOMAIN e.types
  BY <1>2, <1>3, <1>4 DEF SchemaOK
<1>8. e.support # {} => /\ \E x \in e.cols : x.col = "support_challenge"
                        /\ e.support \subseteq e.types[SupportType]
  BY <1>2 DEF SchemaOK
<1> QED
  BY <1>2, <1>5, <1>6, <1>7, <1>8 DEF SchemaOK, e

LEMMA KeyComes ==
    ASSUME NEW d, SchemaOK(d), NEW s, s.op = "link", Possible(s, d)
    PROVE  SchemaOK(Effect(s, d))
<1> DEFINE e == Effect(s, d)
<1>1. e = [d EXCEPT !.fks = @ \union {s.fk}]
  BY DEF Effect
<1>2. /\ IsDatabase(e) /\ e.fks = d.fks \union {s.fk}
      /\ e.tables = d.tables /\ e.cols = d.cols /\ e.types = d.types /\ e.nulls = d.nulls
      /\ e.rows = d.rows /\ e.support = d.support /\ e.subjects = d.subjects
  BY <1>1 DEF SchemaOK, IsDatabase, Fields
<1>3. {s.fk.on, s.fk.to} \subseteq d.tables
  BY DEF Possible
<1> HIDE DEF e
<1> QED
  BY <1>2, <1>3 DEF SchemaOK, e

\* Nothing comes: constraints or nulls may go, and goals change.
LEMMA RestStays ==
    ASSUME NEW d, SchemaOK(d), NEW e, IsDatabase(e),
           e.tables = d.tables, e.cols = d.cols, e.types = d.types, e.rows = d.rows,
           e.support = d.support, e.subjects = d.subjects,
           e.fks \subseteq d.fks, e.nulls \subseteq d.nulls
    PROVE  SchemaOK(e)
  BY DEF SchemaOK

\* Every statement that PostgreSQL accepts leaves a schema and rows that it can hold.
LEMMA EffectKeepsSchema ==
    ASSUME NEW d, SchemaOK(d), NEW s, WellMade(s), Possible(s, d)
    PROVE  SchemaOK(Effect(s, d))
<1>1. CASE s.op = "create"
  BY <1>1, TableComes
<1>2. CASE s.op \in {"drop", "drop if exists"}
  <2>1. Effect(s, d) = WithoutTable(s.on, d)
    BY <1>2 DEF Effect
  <2> QED
    BY <2>1, TableGoes
<1>3. CASE s.op = "add"
  BY <1>3, ColumnComes
<1>4. CASE s.op \in {"drop column", "drop column if exists"}
  <2>1. Effect(s, d) = WithoutColumn(s.on, s.col, d)
    BY <1>4 DEF Effect
  <2> QED
    BY <2>1, ColumnGoes
<1>5. CASE s.op = "require"
  <2>1. Effect(s, d) = Nullable(s.on, s.col, FALSE, d) /\ ~HasNulls(d, s.on, s.col)
    BY <1>5 DEF Effect, Possible
  <2> QED
    BY <2>1, ColumnTakesNull
<1>6. CASE s.op = "relax"
  <2>1. Effect(s, d) = Nullable(s.on, s.col, TRUE, d)
    BY <1>6 DEF Effect
  <2> QED
    BY <2>1, ColumnTakesNull
<1>7. CASE s.op = "link"
  BY <1>7, KeyComes
<1>8. CASE s.op \in {"type", "type if missing"}
  <2>1. \/ Effect(s, d) = d
        \/ Effect(s, d) = WithType(s.type, s.labels, d) /\ s.type \notin DOMAIN d.types
    BY <1>8 DEF Effect, Possible
  <2>2. s.type = SupportType /\ s.type \notin DOMAIN d.types => d.support = {}
    BY DEF SchemaOK, IsColumn, SupportType, Plain
  <2> QED
    BY <2>1, <2>2, TypeComes
<1>9. CASE s.op \in {"drop type", "drop type if exists"}
  <2>1. Effect(s, d) = WithoutType(s.type, d) /\ s.type \notin UsedTypes(d)
    BY <1>9 DEF Effect, Possible
  <2> QED
    BY <2>1, TypeGoes
<1>10. CASE s.op = "rename"
  <2>1. \/ Effect(s, d) = d
        \/ Effect(s, d) = WithType(s.type, (d.types[s.type] \ {s.from}) \union {s.to}, d)
    BY <1>10 DEF Effect
  <2>2. s.type # SupportType
    BY <1>10 DEF WellMade
  <2> QED
    BY <2>1, <2>2, TypeComes
<1>11. CASE s.op = "add label"
  <2>1. Effect(s, d) = WithType(s.type, d.types[s.type] \union {s.label}, d)
    BY <1>11 DEF Effect
  <2>2. s.type = SupportType => d.support \subseteq d.types[s.type] \union {s.label}
    BY DEF SchemaOK
  <2> QED
    BY <2>1, <2>2, TypeComes
<1>12. CASE s.op = "sync labels"
  <2>1. Effect(s, d) = WithType(s.type, s.labels, d) /\ d.support \subseteq s.labels
    BY <1>12 DEF Effect, Possible
  <2> QED
    BY <2>1, TypeComes
<1>13. CASE s.op \in {"unlink", "key", "drop key", "fill", "fill from", "parse goals", "join goals",
                      "extract goals"}
  <2>1. Effect(s, d) = d \/ \E fks, keys, nulls, goals, copies :
          /\ fks \subseteq d.fks /\ nulls \subseteq d.nulls
          /\ \/ Effect(s, d) = [d EXCEPT !.fks = fks]
             \/ Effect(s, d) = [d EXCEPT !.keys = keys]
             \/ Effect(s, d) = [d EXCEPT !.nulls = nulls]
             \/ Effect(s, d) = [d EXCEPT !.goals = goals]
             \/ Effect(s, d) = [d EXCEPT !.copies = copies]
    <3>1. CASE s.op = "unlink"
      <4>1. Effect(s, d) =
              [d EXCEPT !.fks = {f \in d.fks : <<f.on, f.col, f.name>> # <<s.on, s.col, s.name>>}]
        BY <3>1 DEF Effect
      <4> QED
        BY <4>1
    <3>2. CASE s.op = "key"
      <4>1. Effect(s, d) = [d EXCEPT !.keys = d.keys \union {s.key}]
        BY <3>2 DEF Effect
      <4> QED
        BY <4>1
    <3>3. CASE s.op = "drop key"
      <4>1. Effect(s, d) = [d EXCEPT !.keys = d.keys \ {s.key}]
        BY <3>3 DEF Effect
      <4> QED
        BY <4>1
    <3>4. CASE s.op = "fill"
      <4>1. Effect(s, d) = [d EXCEPT !.nulls = d.nulls \ {<<s.on, s.col>>}]
        BY <3>4 DEF Effect
      <4> QED
        BY <4>1
    <3>5. CASE s.op = "fill from"
      <4>1. Effect(s, d) =
              [d EXCEPT !.nulls = IF s.from \in d.rows THEN d.nulls \ {<<s.on, s.col>>} ELSE d.nulls]
        BY <3>5 DEF Effect
      <4> QED
        BY <4>1
    <3>6. CASE s.op = "parse goals"
      <4>1. Effect(s, d) = d \/ Effect(s, d) = [d EXCEPT !.goals = Goals("list", Parsed(d.goals))]
        BY <3>6 DEF Effect
      <4> QED
        BY <4>1
    <3>7. CASE s.op = "join goals"
      <4>1. Effect(s, d) = d \/ Effect(s, d) = [d EXCEPT !.goals = Goals("text", Parsed(d.goals))]
        BY <3>7 DEF Effect
      <4> QED
        BY <4>1
    <3>8. CASE s.op = "extract goals"
      <4>1. Effect(s, d) = d \/ Effect(s, d) = [d EXCEPT !.copies = d.goals.lines]
        BY <3>8 DEF Effect
      <4> QED
        BY <4>1
    <3> QED
      BY <1>13, <3>1, <3>2, <3>3, <3>4, <3>5, <3>6, <3>7, <3>8
  <2> DEFINE e == Effect(s, d)
  <2> HIDE DEF e
  <2>2. \/ e = d
        \/ /\ IsDatabase(e)
           /\ e.tables = d.tables /\ e.cols = d.cols /\ e.types = d.types /\ e.rows = d.rows
           /\ e.support = d.support /\ e.subjects = d.subjects
           /\ e.fks \subseteq d.fks /\ e.nulls \subseteq d.nulls
    BY <2>1 DEF e, SchemaOK, IsDatabase, Fields
  <2>3. SchemaOK(e)
    BY <2>2, RestStays
  <2> QED
    BY <2>3 DEF e
<1>14. s.op # "unlink unnamed"
  BY DEF Possible
<1> QED
  BY <1>1, <1>2, <1>3, <1>4, <1>5, <1>6, <1>7, <1>8, <1>9, <1>10, <1>11, <1>12, <1>13, <1>14
     DEF WellMade

\* The goals of a plan have their form, and the rows made of them say what they say.
GoalsOK(d) ==
    /\ d.goals # None => d.goals \in GoalRecords
    /\ d.goals # None /\ d.copies # None => Words(d.copies) = Words(d.goals.lines)

\* No goals come from nowhere, and those that stay keep their words.
GoalsKept(d, e) == e.goals # None => d.goals # None /\ Words(e.goals.lines) = Words(d.goals.lines)

LEMMA GoalsOfTheSame ==
    ASSUME NEW d, GoalsOK(d), NEW e, e.goals \in {d.goals, None}, e.copies \in {d.copies, None}
    PROVE  GoalsOK(e) /\ GoalsKept(d, e)
<1>1. CASE e.goals = None
  BY <1>1 DEF GoalsOK, GoalsKept
<1>2. CASE e.goals = d.goals
  BY <1>2 DEF GoalsOK, GoalsKept
<1> QED
  BY <1>1, <1>2

LEMMA EffectKeepsGoals ==
    ASSUME NEW d, IsDatabase(d), GoalsOK(d), NEW s, WellMade(s), Possible(s, d)
    PROVE  GoalsOK(Effect(s, d)) /\ GoalsKept(d, Effect(s, d))
<1> DEFINE e == Effect(s, d)
<1>1. CASE s.op \in {"drop", "drop if exists"}
  <2>1. e = WithoutTable(s.on, d)
    BY <1>1 DEF Effect
  <2> HIDE DEF e
  <2>2. e.goals \in {d.goals, None} /\ e.copies \in {d.copies, None}
    BY <2>1 DEF WithoutTable, IsDatabase, Fields
  <2>3. GoalsOK(e) /\ GoalsKept(d, e)
    BY <2>2, GoalsOfTheSame
  <2> QED
    BY <2>3 DEF e
<1>2. CASE s.op \in {"parse goals", "join goals"}
  <2>1. d.goals = None => e = d
    BY <1>2 DEF Effect
  <2>2. d.goals # None =>
          \E kind \in {"list", "text"} : e = [d EXCEPT !.goals = Goals(kind, Parsed(d.goals))]
    BY <1>2 DEF Effect
  <2> HIDE DEF e
  <2>3. CASE d.goals = None
    <3>1. GoalsOK(e) /\ GoalsKept(d, e)
      BY <2>1, <2>3, GoalsOfTheSame
    <3> QED
      BY <3>1 DEF e
  <2>4. CASE d.goals # None
    <3>1. PICK kind \in {"list", "text"} : e = [d EXCEPT !.goals = Goals(kind, Parsed(d.goals))]
      BY <2>2, <2>4
    <3>2. /\ e.goals.kind = kind /\ e.goals.lines = Parsed(d.goals) /\ e.copies = d.copies
          /\ e.goals = [kind |-> kind, lines |-> Parsed(d.goals)]
      BY <3>1 DEF Goals, IsDatabase, Fields
    <3>3. Parsed(d.goals) \in Lines /\ Words(Parsed(d.goals)) = Words(d.goals.lines)
      BY <2>4, ParsedSaysTheSame DEF GoalsOK
    <3>4. e.goals \in GoalRecords
      BY <3>2, <3>3 DEF GoalRecords
    <3>5. GoalsOK(e) /\ GoalsKept(d, e)
      BY <2>4, <3>2, <3>3, <3>4 DEF GoalsOK, GoalsKept
    <3> QED
      BY <3>5 DEF e
  <2> QED
    BY <2>3, <2>4
<1>3. CASE s.op = "extract goals"
  <2>1. e = IF d.goals = None THEN d ELSE [d EXCEPT !.copies = d.goals.lines]
    BY <1>3 DEF Effect
  <2> HIDE DEF e
  <2>2. e.goals = d.goals /\ (d.goals # None => e.copies = d.goals.lines)
    BY <2>1 DEF IsDatabase, Fields
  <2>3. GoalsOK(e) /\ GoalsKept(d, e)
    BY <2>2 DEF GoalsOK, GoalsKept
  <2> QED
    BY <2>3 DEF e
<1>4. CASE s.op \notin {"drop", "drop if exists", "parse goals", "join goals", "extract goals"}
  <2>1. e.goals = d.goals /\ e.copies = d.copies
    <3> USE DEF IsDatabase, Fields
    <3>1. CASE s.op = "create"
      BY <3>1 DEF Effect
    <3>2. CASE s.op = "add"
      BY <3>2 DEF Effect
    <3>3. CASE s.op \in {"drop column", "drop column if exists"}
      BY <3>3 DEF Effect, WithoutColumn
    <3>4. CASE s.op \in {"require", "relax"}
      BY <3>4 DEF Effect, Nullable
    <3>5. CASE s.op \in {"link", "unlink"}
      BY <3>5 DEF Effect
    <3>6. CASE s.op \in {"key", "drop key"}
      BY <3>6 DEF Effect
    <3>7. CASE s.op \in {"type", "type if missing"}
      BY <3>7 DEF Effect, WithType
    <3>8. CASE s.op \in {"drop type", "drop type if exists"}
      BY <3>8 DEF Effect, WithoutType
    <3>9. CASE s.op \in {"rename", "add label", "sync labels"}
      BY <3>9 DEF Effect, WithType
    <3>10. CASE s.op \in {"fill", "fill from"}
      BY <3>10 DEF Effect
    <3>11. s.op # "unlink unnamed"
      BY DEF Possible
    <3> QED
      BY <1>4, <3>1, <3>2, <3>3, <3>4, <3>5, <3>6, <3>7, <3>8, <3>9, <3>10, <3>11 DEF WellMade
  <2>2. GoalsOK(e) /\ GoalsKept(d, e)
    <3> HIDE DEF e
    <3> QED
      BY <2>1, GoalsOfTheSame
  <2> QED
    BY <2>2
<1> QED
  BY <1>1, <1>2, <1>3, <1>4

-----------------------------------------------------------------------------------
(* What a sequence of statements, and a command, leaves.                   *)

Program(statements) ==
    /\ Len(statements) \in Nat
    /\ statements = [i \in 1..Len(statements) |-> statements[i]]
    /\ \A i \in 1..Len(statements) : WellMade(statements[i])

Stands(d) == SchemaOK(d) /\ GoalsOK(d)

LEMMA RunStands ==
    ASSUME NEW statements, Program(statements), NEW d, Stands(d), Run(statements, d) # Broken
    PROVE  Stands(Run(statements, d)) /\ GoalsKept(d, Run(statements, d))
<1> DEFINE n == Len(statements)
<1>1. n \in Nat /\ DOMAIN statements = 1..n /\ \A i \in 1..n : WellMade(statements[i])
  BY DEF Program
<1>2. PICK h : Takes(<<"run">>, d, statements, h)
  BY <1>1, TurnsExist
<1>3. Run(statements, d) = h[n]
  BY <1>1, <1>2, RunTakesTurns
<1> DEFINE P == {i \in 0..n : h[i] # Broken => Stands(h[i]) /\ GoalsKept(d, h[i])}
<1>4. 0 \in P
  <2>1. h[0] = d
    BY <1>2 DEF Takes
  <2>2. GoalsKept(d, d)
    BY DEF GoalsKept
  <2> QED
    BY <1>1, <2>1, <2>2
<1>5. ASSUME NEW i \in 1..n, i - 1 \in P PROVE i \in P
  <2> SUFFICES ASSUME h[i] # Broken PROVE Stands(h[i]) /\ GoalsKept(d, h[i])
    BY <1>1
  <2> DEFINE a == h[i - 1]
             s == statements[i]
  <2>1. h[i] = IF a # Broken /\ Possible(s, a) THEN Effect(s, a) ELSE Broken
    <3>1. h[i] = Turn(<<"run">>, a, s)
      BY <1>2 DEF Takes
    <3> QED
      BY <3>1 DEF Turn
  <2>2. Stands(a) /\ GoalsKept(d, a)
    BY <1>5, <2>1
  <2>3. WellMade(s)
    BY <1>1
  <2> HIDE DEF a, s
  <2>4. h[i] = Effect(s, a) /\ Possible(s, a)
    BY <2>1
  <2>5. SchemaOK(h[i])
    BY <2>2, <2>3, <2>4, EffectKeepsSchema DEF Stands
  <2>6. GoalsOK(h[i]) /\ GoalsKept(a, h[i])
    BY <2>2, <2>3, <2>4, EffectKeepsGoals DEF Stands, SchemaOK
  <2> QED
    BY <2>2, <2>5, <2>6 DEF Stands, GoalsKept
<1> HIDE DEF P
<1>6. n \in P
  <2>1. 0..n \subseteq P
    BY <1>1, <1>4, <1>5, UpTo
  <2> QED
    BY <1>1, <2>1
<1> QED
  BY <1>3, <1>6 DEF P

Programs == \A number \in 1..Newest, direction \in {"up", "down"} : Program(Chain[number][direction])

LEMMA CommandStands ==
    ASSUME NEW direction \in {"up", "down"}, NEW numbers, Programs,
           Len(numbers) \in Nat, DOMAIN numbers = 1..Len(numbers),
           \A i \in 1..Len(numbers) : numbers[i] \in 1..Newest,
           NEW d, Stands(d)
    PROVE  LET run == Command(direction, numbers, d)
           IN  /\ run.db # Broken => Stands(run.db) /\ GoalsKept(d, run.db)
               /\ run.failed = None \/ run.failed \in {"up", "down"} \X (1..Newest)
<1> DEFINE n == Len(numbers)
           Good(run) ==
             /\ run.db # Broken => Stands(run.db) /\ GoalsKept(d, run.db)
             /\ run.failed = None \/ run.failed \in {"up", "down"} \X (1..Newest)
           fold == <<"command", direction>>
<1>1. PICK h : Takes(fold, Started(d), numbers, h)
  BY TurnsExist
<1>2. Command(direction, numbers, d) = h[n]
  BY <1>1, CommandTakesTurns
<1> DEFINE P == {i \in 0..n : Good(h[i])}
<1>3. 0 \in P
  <2>1. h[0] = Started(d)
    BY <1>1 DEF Takes
  <2>2. GoalsKept(d, d)
    BY DEF GoalsKept
  <2> QED
    BY <2>1, <2>2 DEF Started
<1>4. ASSUME NEW i \in 1..n, i - 1 \in P PROVE i \in P
  <2> DEFINE run == h[i - 1]
             number == numbers[i]
             after == Run(Chain[number][direction], run.db)
  <2>1. h[i] = IF run.db = Broken THEN run
               ELSE [db |-> after, failed |-> IF after = Broken THEN <<direction, number>> ELSE None]
    <3>1. h[i] = Turn(fold, run, number)
      BY <1>1 DEF Takes
    <3>2. fold[1] = "command" /\ fold[2] = direction
      OBVIOUS
    <3> HIDE DEF fold
    <3>3. h[i] = StepOf(direction, number, run)
      BY <3>1, <3>2 DEF Turn
    <3> QED
      BY <3>3 DEF StepOf
  <2>2. Good(run)
    BY <1>4
  <2>3. number \in 1..Newest /\ Program(Chain[number][direction])
    BY DEF Programs
  <2>4. run.db # Broken /\ after # Broken => Stands(after) /\ GoalsKept(run.db, after)
    BY <2>2, <2>3, RunStands
  <2> HIDE DEF run, number, after
  <2>5. CASE run.db = Broken
    BY <2>1, <2>2, <2>5
  <2>6. CASE run.db # Broken
    <3>1. h[i].db = after /\ h[i].failed = IF after = Broken THEN <<direction, number>> ELSE None
      BY <2>1, <2>6
    <3>2. after # Broken => Stands(after) /\ GoalsKept(d, after)
      BY <2>2, <2>4, <2>6 DEF GoalsKept
    <3>3. <<direction, number>> \in {"up", "down"} \X (1..Newest)
      BY <2>3
    <3> QED
      BY <3>1, <3>2, <3>3
  <2> QED
    BY <2>5, <2>6
<1> HIDE DEF P
<1>5. n \in P
  <2>1. 0..n \subseteq P
    BY <1>3, <1>4, UpTo
  <2> QED
    BY <2>1
<1>6. Good(h[n])
  BY <1>5 DEF P
<1> QED
  BY <1>2, <1>6

-----------------------------------------------------------------------------------
(* The statements of the chain are well made.                              *)

\* The pairs and triples that a table is created with.
Cells(cs) == \A c \in cs : c = <<c[1], c[2]>> /\ c[1] # "support_challenge"
Once(cs) == \A c1, c2 \in cs : c1[1] = c2[1] => c1 = c2

LEMMA CreateIsWellMade ==
    ASSUME NEW t, NEW cs, NEW fs, Cells(cs), Once(cs)
    PROVE  WellMade(Create(t, cs, fs))
<1> DEFINE s == Create(t, cs, fs)
<1>1. /\ s.op = "create" /\ s.on = t
      /\ s.cols = {[on |-> t, col |-> c[1], type |-> c[2], null |-> FALSE] : c \in cs}
      /\ s.fks = {[on |-> t, col |-> f[1], to |-> f[2], act |-> f[3], name |-> Standard] : f \in fs}
  BY DEF Create
<1> HIDE DEF s
<1> DEFINE column(c) == [on |-> t, col |-> c[1], type |-> c[2], null |-> FALSE]
<1>2. \A c \in cs : /\ IsColumn(column(c)) /\ column(c).on = t /\ column(c).null = FALSE
                    /\ column(c).col = c[1]
  BY DEF IsColumn, Cells
<1>3. s.cols = {column(c) : c \in cs}
  BY <1>1
<1> HIDE DEF column
<1>5. \A x \in s.cols : IsColumn(x) /\ x.on = s.on /\ x.null = FALSE
  BY <1>1, <1>2, <1>3
<1>6. \A x, y \in s.cols : x.col = y.col => x = y
  BY <1>2, <1>3 DEF Once
<1>4. \A f \in s.fks : f.on = s.on
  BY <1>1
<1>7. WellMade(s)
  BY <1>1, <1>4, <1>5, <1>6 DEF WellMade
<1> QED
  BY <1>7 DEF s

LEMMA ColumnIsWellMade ==
    /\ \A t, c, n, l :
         c # "support_challenge" =>
           /\ WellMade(Optional(t, c)) /\ WellMade(Filled(t, c)) /\ WellMade(WithDefault(t, c, n, l))
           /\ \A null \in BOOLEAN : WellMade(Column(t, c, n, null))
    /\ WellMade(Column("class", "support_challenge", SupportType, TRUE))
<1>1. ASSUME NEW t, NEW c, NEW n, NEW null \in BOOLEAN,
             c = "support_challenge" => t = "class" /\ n = SupportType
      PROVE  IsColumn([on |-> t, col |-> c, type |-> n, null |-> null])
  BY <1>1 DEF IsColumn
<1>2. \A s : s.op = "add" /\ IsColumn(s.row) => WellMade(s)
  BY DEF WellMade
<1>3. ASSUME NEW t, NEW c, NEW n, NEW null \in BOOLEAN,
             c = "support_challenge" => t = "class" /\ n = SupportType
      PROVE  WellMade(Column(t, c, n, null))
  <2> DEFINE s == Column(t, c, n, null)
  <2>1. s.op = "add" /\ s.row = [on |-> t, col |-> c, type |-> n, null |-> null]
    BY DEF Column
  <2> HIDE DEF s
  <2>2. WellMade(s)
    BY <1>1, <1>2, <1>3, <2>1
  <2> QED
    BY <2>2 DEF s
<1>4. ASSUME NEW t, NEW c, NEW n, NEW l, c # "support_challenge"
      PROVE  WellMade(WithDefault(t, c, n, l))
  <2> DEFINE s == WithDefault(t, c, n, l)
  <2>1. s.op = "add" /\ s.row = [on |-> t, col |-> c, type |-> n, null |-> FALSE]
    BY DEF WithDefault
  <2> HIDE DEF s
  <2>2. WellMade(s)
    BY <1>1, <1>2, <1>4, <2>1
  <2> QED
    BY <2>2 DEF s
<1> QED
  BY <1>3, <1>4 DEF Optional, Filled

LEMMA OthersAreWellMade ==
    /\ \A t, c, u, k :
         /\ WellMade(Drop(t)) /\ WellMade(DropIfExists(t))
         /\ WellMade(DropColumn(t, c)) /\ WellMade(DropColumnIfExists(t, c))
         /\ WellMade(Require(t, c)) /\ WellMade(Relax(t, c))
         /\ WellMade(Fill(t, c)) /\ WellMade(FillFrom(t, c, u))
         /\ WellMade(Unlink(t, c, k)) /\ WellMade(Key(t, c, k)) /\ WellMade(DropKey(t, c, k))
    /\ \A t, c, u, a, k : WellMade(Link(t, c, u, a, k))
    /\ \A n, l, m :
         /\ WellMade(NewType(n, l)) /\ WellMade(EnsureType(n, l))
         /\ WellMade(DropType(n)) /\ WellMade(DropTypeIfExists(n))
         /\ n # SupportType => WellMade(Rename(n, l, m))
         /\ WellMade(AddLabel(n, l)) /\ WellMade(SyncLabels(n, l))
    /\ WellMade(ParseGoals) /\ WellMade(JoinGoals) /\ WellMade(ExtractGoals) /\ WellMade(UnlinkUnnamed)
<1>2. \A s : s.op = "rename" /\ s.type # SupportType => WellMade(s)
  BY DEF WellMade
<1>3. \A t, c, u, k :
        /\ WellMade(Drop(t)) /\ WellMade(DropIfExists(t))
        /\ WellMade(DropColumn(t, c)) /\ WellMade(DropColumnIfExists(t, c))
        /\ WellMade(Require(t, c)) /\ WellMade(Relax(t, c))
        /\ WellMade(Fill(t, c)) /\ WellMade(FillFrom(t, c, u))
        /\ WellMade(Unlink(t, c, k)) /\ WellMade(Key(t, c, k)) /\ WellMade(DropKey(t, c, k))
  BY DEF WellMade, Drop, DropIfExists, DropColumn, DropColumnIfExists, Require, Relax, Fill, FillFrom,
     Unlink, Key, DropKey
<1>4. \A t, c, u, a, k : WellMade(Link(t, c, u, a, k))
  BY DEF WellMade, Link
<1>5. \A n, l :
        /\ WellMade(NewType(n, l)) /\ WellMade(EnsureType(n, l))
        /\ WellMade(DropType(n)) /\ WellMade(DropTypeIfExists(n))
        /\ WellMade(AddLabel(n, l)) /\ WellMade(SyncLabels(n, l))
  BY DEF WellMade, NewType, EnsureType, DropType, DropTypeIfExists, AddLabel, SyncLabels
<1>6. ASSUME NEW n, NEW l, NEW m, n # SupportType PROVE WellMade(Rename(n, l, m))
  <2>1. Rename(n, l, m).op = "rename" /\ Rename(n, l, m).type # SupportType
    BY <1>6 DEF Rename
  <2> QED
    BY <1>2, <2>1
<1>7. WellMade(ParseGoals) /\ WellMade(JoinGoals) /\ WellMade(ExtractGoals) /\ WellMade(UnlinkUnnamed)
  BY DEF WellMade, ParseGoals, JoinGoals, ExtractGoals, UnlinkUnnamed
<1> QED
  BY <1>3, <1>4, <1>5, <1>6, <1>7

LEMMA TableIsProgram ==
    ASSUME NEW n \in Nat, NEW s, s = [i \in 1..n |-> s[i]], \A i \in 1..n : WellMade(s[i])
    PROVE  Program(s)
<1>1. Len(s) = n
  OBVIOUS
<1> QED
  BY <1>1 DEF Program

LEMMA JoinedIsProgram ==
    ASSUME NEW p, NEW q, Program(p), Program(q)
    PROVE  Program(p \o q)
<1> DEFINE S == {p[i] : i \in 1..Len(p)} \union {q[i] : i \in 1..Len(q)}
           s == p \o q
<1>1. p \in Seq(S) /\ q \in Seq(S) /\ \A x \in S : WellMade(x)
  BY DEF Program
<1> HIDE DEF S
<1>2. s \in Seq(S)
  BY <1>1
<1> HIDE DEF s
<1>3. Len(s) \in Nat /\ s = [i \in 1..Len(s) |-> s[i]] /\ \A i \in 1..Len(s) : s[i] \in S
  BY <1>2
<1>4. Program(s)
  BY <1>1, <1>3 DEF Program
<1> QED
  BY <1>4 DEF s

LEMMA TupleIsProgram ==
    /\ \A a :
         WellMade(a) => Program(<<a>>)
    /\ \A a, b :
         WellMade(a) /\ WellMade(b) => Program(<<a, b>>)
    /\ \A a, b, c :
         WellMade(a) /\ WellMade(b) /\ WellMade(c) => Program(<<a, b, c>>)
    /\ \A a, b, c, d :
         WellMade(a) /\ WellMade(b) /\ WellMade(c) /\ WellMade(d) => Program(<<a, b, c, d>>)
    /\ \A a, b, c, d, e :
         WellMade(a) /\ WellMade(b) /\ WellMade(c) /\ WellMade(d) /\ WellMade(e) => Program(<<a, b, c, d, e>>)
    /\ \A a, b, c, d, e, f :
         WellMade(a) /\ WellMade(b) /\ WellMade(c) /\ WellMade(d) /\ WellMade(e) /\ WellMade(f) => Program(<<a, b, c, d, e, f>>)
    /\ \A a, b, c, d, e, f, g :
         WellMade(a) /\ WellMade(b) /\ WellMade(c) /\ WellMade(d) /\ WellMade(e) /\ WellMade(f) /\ WellMade(g) => Program(<<a, b, c, d, e, f, g>>)
    /\ \A a, b, c, d, e, f, g, h :
         WellMade(a) /\ WellMade(b) /\ WellMade(c) /\ WellMade(d) /\ WellMade(e) /\ WellMade(f) /\ WellMade(g) /\ WellMade(h) => Program(<<a, b, c, d, e, f, g, h>>)
    /\ \A a, b, c, d, e, f, g, h, i :
         WellMade(a) /\ WellMade(b) /\ WellMade(c) /\ WellMade(d) /\ WellMade(e) /\ WellMade(f) /\ WellMade(g) /\ WellMade(h) /\ WellMade(i) => Program(<<a, b, c, d, e, f, g, h, i>>)
<1>1. ASSUME NEW a, WellMade(a)
      PROVE  Program(<<a>>)
  BY <1>1 DEF Program
<1>2. ASSUME NEW a, NEW b, WellMade(a), WellMade(b)
      PROVE  Program(<<a, b>>)
  BY <1>2 DEF Program
<1>3. ASSUME NEW a, NEW b, NEW c, WellMade(a), WellMade(b), WellMade(c)
      PROVE  Program(<<a, b, c>>)
  BY <1>3 DEF Program
<1>4. ASSUME NEW a, NEW b, NEW c, NEW d, WellMade(a), WellMade(b), WellMade(c), WellMade(d)
      PROVE  Program(<<a, b, c, d>>)
  BY <1>4 DEF Program
<1>5. ASSUME NEW a, NEW b, NEW c, NEW d, NEW e, WellMade(a), WellMade(b), WellMade(c), WellMade(d), WellMade(e)
      PROVE  Program(<<a, b, c, d, e>>)
  BY <1>5 DEF Program
<1>6. ASSUME NEW a, NEW b, NEW c, NEW d, NEW e, NEW f, WellMade(a), WellMade(b), WellMade(c), WellMade(d), WellMade(e), WellMade(f)
      PROVE  Program(<<a, b, c, d, e, f>>)
  BY <1>6 DEF Program
<1>7. ASSUME NEW a, NEW b, NEW c, NEW d, NEW e, NEW f, NEW g, WellMade(a), WellMade(b), WellMade(c), WellMade(d), WellMade(e), WellMade(f), WellMade(g)
      PROVE  Program(<<a, b, c, d, e, f, g>>)
  BY <1>7 DEF Program
<1>8. ASSUME NEW a, NEW b, NEW c, NEW d, NEW e, NEW f, NEW g, NEW h, WellMade(a), WellMade(b), WellMade(c), WellMade(d), WellMade(e), WellMade(f), WellMade(g), WellMade(h)
      PROVE  Program(<<a, b, c, d, e, f, g, h>>)
  BY <1>8 DEF Program
<1>9. ASSUME NEW a, NEW b, NEW c, NEW d, NEW e, NEW f, NEW g, NEW h, NEW i, WellMade(a), WellMade(b), WellMade(c), WellMade(d), WellMade(e), WellMade(f), WellMade(g), WellMade(h), WellMade(i)
      PROVE  Program(<<a, b, c, d, e, f, g, h, i>>)
  BY <1>9 DEF Program
<1> QED
  BY <1>1, <1>2, <1>3, <1>4, <1>5, <1>6, <1>7, <1>8, <1>9

LEMMA CreatesAreWellMade ==
    /\ \A t, fs : WellMade(Create(t, {}, fs))
    /\ \A t, fs, a, x : a # "support_challenge" => WellMade(Create(t, {<<a, x>>}, fs))
    /\ \A t, fs, a, x, b, y :
         a # "support_challenge" /\ b # "support_challenge" /\ a # b =>
           WellMade(Create(t, {<<a, x>>, <<b, y>>}, fs))
<1>1. Cells({}) /\ Once({})
  BY DEF Cells, Once
<1>2. \A a, x : a # "support_challenge" => Cells({<<a, x>>}) /\ Once({<<a, x>>})
  BY DEF Cells, Once
<1>3. \A a, x, b, y :
        a # "support_challenge" /\ b # "support_challenge" /\ a # b =>
          Cells({<<a, x>>, <<b, y>>}) /\ Once({<<a, x>>, <<b, y>>})
  BY DEF Cells, Once
<1> QED
  BY <1>1, <1>2, <1>3, CreateIsWellMade

LEMMA FirstRevisions ==
    /\ Program(R1.up) /\ Program(R1.down) /\ Program(R2.up) /\ Program(R2.down)
    /\ Program(R3.up) /\ Program(R3.down) /\ Program(R4.up) /\ Program(R4.down)
    /\ Program(R5.up) /\ Program(R5.down) /\ Program(R6.up) /\ Program(R6.down)
    /\ Program(R7.up) /\ Program(R7.down)
<1> USE TupleIsProgram, OthersAreWellMade, ColumnIsWellMade, CreatesAreWellMade
<1>1. Program(R1.up) /\ Program(R1.down)
  BY DEF R1
<1>2. Program(R2.up) /\ Program(R2.down)
  BY DEF R2
<1>3. Program(R3.up) /\ Program(R3.down)
  <2> DEFINE cs == {<<"subject", "subject">>, <<"level", "level">>,
                    <<"school_year", "school_year">>, <<"difficulty", "class_difficulty">>}
  <2>1. Cells(cs) /\ Once(cs)
    BY DEF Cells, Once
  <2>2. \A t, fs : WellMade(Create(t, cs, fs))
    BY <2>1, CreateIsWellMade
  <2> HIDE DEF cs
  <2>3. Program(R3.up)
    BY <2>2 DEF R3, cs
  <2> QED
    BY <2>3 DEF R3
<1>4. Program(R4.up) /\ Program(R4.down)
  BY DEF R4
<1>5. Program(R5.up) /\ Program(R5.down)
  BY DEF R5
<1>6. Program(R6.up) /\ Program(R6.down)
  BY DEF R6
<1>7. Program(R7.up) /\ Program(R7.down)
  <2> DEFINE cs == OldOverview \X {Plain}
  <2>1. Cells(cs) /\ Once(cs)
    BY DEF Cells, Once, OldOverview
  <2> HIDE DEF cs
  <2>2. \A t, fs : WellMade(Create(t, cs, fs))
    BY <2>1, CreateIsWellMade
  <2>3. Program(R7.up)
    BY <2>2 DEF R7, cs
  <2> QED
    BY <2>3 DEF R7
<1> QED
  BY <1>1, <1>2, <1>3, <1>4, <1>5, <1>6, <1>7

LEMMA RenamedIsProgram ==
    ASSUME NEW type, type # SupportType, NEW from, NEW to, Len(from) \in Nat, DOMAIN from = 1..Len(from)
    PROVE  Program(Renamed(type, from, to))
<1> DEFINE s == [i \in 1..Len(from) |-> Rename(type, from[i], to[i])]
<1>1. \A i \in 1..Len(from) : WellMade(s[i])
  BY OthersAreWellMade
<1>2. s = [i \in 1..Len(from) |-> s[i]] /\ Renamed(type, from, to) = s
  BY DEF Renamed
<1> HIDE DEF s
<1> QED
  BY <1>1, <1>2, TableIsProgram

LEMMA RelinkedIsProgram ==
    ASSUME NEW rules, Len(rules) \in Nat
    PROVE  Program(Relinked(rules))
<1> DEFINE n == 2 * Len(rules)
           s == Relinked(rules)
<1>1. s = [i \in 1..n |-> s[i]] /\ n \in Nat
  BY DEF Relinked
<1>2. ASSUME NEW i \in 1..n PROVE WellMade(s[i])
  <2> DEFINE r == rules[(i + 1) \div 2]
  <2>1. s[i] = IF i % 2 = 1 THEN Unlink(r[1], r[2], r[5]) ELSE Link(r[1], r[2], r[3], r[4], r[5])
    BY DEF Relinked
  <2> HIDE DEF r
  <2> QED
    BY <2>1, OthersAreWellMade
<1> HIDE DEF s
<1>3. Program(s)
  BY <1>1, <1>2, TableIsProgram
<1> QED
  BY <1>3 DEF s

LEMMA NoActionIsAsLong ==
    ASSUME NEW rules, Len(rules) \in Nat
    PROVE  Len(NoAction(rules)) \in Nat
<1> DEFINE s == [i \in 1..Len(rules) |-> [rules[i] EXCEPT ![4] = "none"]]
<1>1. Len(s) = Len(rules)
  OBVIOUS
<1> QED
  BY <1>1 DEF NoAction

LEMMA EachIsProgram ==
    ASSUME NEW t, NEW cs, Len(cs) \in Nat, \A i \in 1..Len(cs) : cs[i] # "support_challenge"
    PROVE  /\ Program(ForEach(cs, LAMBDA c : Optional(t, c)))
           /\ Program(ForEach(cs, LAMBDA c : Fill(t, c)))
           /\ Program(ForEach(cs, LAMBDA c : Require(t, c)))
           /\ Program(ForEach(cs, LAMBDA c : DropColumn(t, c)))
<1> DEFINE n == Len(cs)
           optional == [i \in 1..n |-> Optional(t, cs[i])]
           fill == [i \in 1..n |-> Fill(t, cs[i])]
           require == [i \in 1..n |-> Require(t, cs[i])]
           drop == [i \in 1..n |-> DropColumn(t, cs[i])]
<1>1. \A i \in 1..n : WellMade(optional[i]) /\ WellMade(fill[i]) /\ WellMade(require[i]) /\ WellMade(drop[i])
  BY OthersAreWellMade, ColumnIsWellMade
<1>2. /\ optional = [i \in 1..n |-> optional[i]] /\ fill = [i \in 1..n |-> fill[i]]
      /\ require = [i \in 1..n |-> require[i]] /\ drop = [i \in 1..n |-> drop[i]]
  OBVIOUS
<1> HIDE DEF optional, fill, require, drop
<1>3. Program(optional) /\ Program(fill) /\ Program(require) /\ Program(drop)
  BY <1>1, <1>2, TableIsProgram
<1> QED
  BY <1>3 DEF ForEach, optional, fill, require, drop

LEMMA OnEachIsProgram ==
    ASSUME NEW ts, Len(ts) \in Nat, NEW c, c # "support_challenge"
    PROVE  /\ Program(ForEach(ts, LAMBDA t : Optional(t, c)))
           /\ Program(ForEach(ts, LAMBDA t : DropColumn(t, c)))
           /\ Program(ForEach(ts, LAMBDA t : DropColumnIfExists(t, c)))
           /\ \A to, act, name :
                /\ Program(ForEach(ts, LAMBDA t : Link(t, c, to, act, name)))
                /\ Program(ForEach(ts, LAMBDA t : Unlink(t, c, name)))
<1> DEFINE n == Len(ts)
           optional == [i \in 1..n |-> Optional(ts[i], c)]
           drop == [i \in 1..n |-> DropColumn(ts[i], c)]
           dropIf == [i \in 1..n |-> DropColumnIfExists(ts[i], c)]
<1>1. \A i \in 1..n : WellMade(optional[i]) /\ WellMade(drop[i]) /\ WellMade(dropIf[i])
  BY OthersAreWellMade, ColumnIsWellMade
<1>2. /\ optional = [i \in 1..n |-> optional[i]] /\ drop = [i \in 1..n |-> drop[i]]
      /\ dropIf = [i \in 1..n |-> dropIf[i]]
  OBVIOUS
<1> HIDE DEF optional, drop, dropIf
<1>3. Program(optional) /\ Program(drop) /\ Program(dropIf)
  BY <1>1, <1>2, TableIsProgram
<1>4. ASSUME NEW to, NEW act, NEW name
      PROVE  /\ Program(ForEach(ts, LAMBDA t : Link(t, c, to, act, name)))
             /\ Program(ForEach(ts, LAMBDA t : Unlink(t, c, name)))
  <2> DEFINE link == [i \in 1..n |-> Link(ts[i], c, to, act, name)]
             unlink == [i \in 1..n |-> Unlink(ts[i], c, name)]
  <2>1. \A i \in 1..n : WellMade(link[i]) /\ WellMade(unlink[i])
    BY OthersAreWellMade
  <2>2. link = [i \in 1..n |-> link[i]] /\ unlink = [i \in 1..n |-> unlink[i]]
    OBVIOUS
  <2> HIDE DEF link, unlink
  <2>3. Program(link) /\ Program(unlink)
    BY <2>1, <2>2, TableIsProgram
  <2> QED
    BY <2>3 DEF ForEach, link, unlink
<1> QED
  BY <1>3, <1>4 DEF ForEach, optional, drop, dropIf

LEMMA ReplacedIsProgram ==
    ASSUME NEW old, NEW new, Len(old) \in Nat, Len(new) \in Nat,
           \A i \in 1..Len(old) : old[i] # "support_challenge",
           \A i \in 1..Len(new) : new[i] # "support_challenge"
    PROVE  Program(Replaced(old, new))
<1> DEFINE T == "lesplan_overview"
<1>1. /\ Program(ForEach(new, LAMBDA c : Optional(T, c))) /\ Program(ForEach(new, LAMBDA c : Fill(T, c)))
      /\ Program(ForEach(new, LAMBDA c : Require(T, c)))
      /\ Program(ForEach(old, LAMBDA c : DropColumn(T, c)))
  BY EachIsProgram DEF ForEach
<1> QED
  BY <1>1, JoinedIsProgram DEF Replaced

LEMMA RevisionsUntilCascades ==
    /\ Program(R8.up) /\ Program(R8.down) /\ Program(R9.up) /\ Program(R9.down)
    /\ Program(R10.up) /\ Program(R10.down) /\ Program(R11.up) /\ Program(R11.down)
    /\ Program(R12.up) /\ Program(R12.down) /\ Program(R13.up) /\ Program(R13.down)
<1>1. Program(R8.up) /\ Program(R8.down)
  <2>1. /\ Len(StatusLabels) \in Nat /\ DOMAIN StatusLabels = 1..Len(StatusLabels)
        /\ Len(LowerLabels) \in Nat /\ DOMAIN LowerLabels = 1..Len(LowerLabels)
    BY DEF StatusLabels, LowerLabels
  <2> QED
    BY <2>1, RenamedIsProgram DEF R8, SupportType
<1>2. Program(R9.up) /\ Program(R9.down)
  <2>1. /\ Len(OldColumns) \in Nat /\ \A i \in 1..Len(OldColumns) : OldColumns[i] # "support_challenge"
        /\ Len(NewColumns) \in Nat /\ \A i \in 1..Len(NewColumns) : NewColumns[i] # "support_challenge"
    BY DEF OldColumns, NewColumns
  <2> QED
    BY <2>1, ReplacedIsProgram DEF R9
<1> USE TupleIsProgram, OthersAreWellMade, ColumnIsWellMade, CreatesAreWellMade
<1>3. Program(R10.up) /\ Program(R10.down)
  BY DEF R10
<1>4. Program(R11.up) /\ Program(R11.down)
  BY DEF R11
<1>5. Program(R12.up) /\ Program(R12.down)
  BY DEF R12
<1>6. Program(R13.up) /\ Program(R13.down)
  BY DEF R13
<1> QED
  BY <1>1, <1>2, <1>3, <1>4, <1>5, <1>6

LEMMA RevisionsUntilFiles ==
    /\ Program(R14.up) /\ Program(R14.down) /\ Program(R15.up) /\ Program(R15.down)
    /\ Program(R16.up) /\ Program(R16.down) /\ Program(R17.up) /\ Program(R17.down)
    /\ Program(R18.up) /\ Program(R18.down) /\ Program(R19.up) /\ Program(R19.down)
    /\ Program(R20.up) /\ Program(R20.down) /\ Program(R21.up) /\ Program(R21.down)
    /\ Program(R22.up) /\ Program(R22.down)
<1>1. Program(R14.up) /\ Program(R14.down)
  <2>1. Len(CascadeRules) \in Nat
    BY DEF CascadeRules
  <2> DEFINE n == Len(CascadeRules)
             back == [i \in 1..n |-> CascadeRules[(n - i) + 1]]
  <2>2. Len(back) = n /\ Reverse(CascadeRules) = back
    BY <2>1 DEF Reverse
  <2>3. Len(NoAction(Reverse(CascadeRules))) \in Nat
    <3> HIDE DEF back
    <3> QED
      BY <2>1, <2>2, NoActionIsAsLong
  <2> QED
    BY <2>1, <2>3, RelinkedIsProgram DEF R14
<1>2. Program(R16.up) /\ Program(R16.down)
  <2>1. /\ Program(Renamed("lesson_preparation_status", <<"pending", "done">>, <<"PENDING", "DONE">>))
        /\ Program(Renamed("lesson_preparation_status", <<"PENDING", "DONE">>, <<"pending", "done">>))
    <3>1. /\ Len(<<"pending", "done">>) = 2 /\ DOMAIN <<"pending", "done">> = 1..2
          /\ Len(<<"PENDING", "DONE">>) = 2 /\ DOMAIN <<"PENDING", "DONE">> = 1..2
          /\ "lesson_preparation_status" # SupportType
      BY DEF SupportType
    <3> QED
      BY <3>1, RenamedIsProgram
  <2> QED
    BY <2>1 DEF R16
<1>3. Program(R15.down)
  <2> DEFINE cs == <<"approval_readiness", "knowledge_coverage", "goal_coverage", "series_themes",
                     "series_summary">>
  <2>1. Len(cs) \in Nat /\ \A i \in 1..Len(cs) : cs[i] # "support_challenge"
    OBVIOUS
  <2> HIDE DEF cs
  <2>2. Program(ForEach(cs, LAMBDA c : DropColumn("lesplan_overview", c)))
    BY <2>1, EachIsProgram DEF ForEach
  <2> QED
    BY <2>2 DEF R15, cs
<1> USE TupleIsProgram, OthersAreWellMade, ColumnIsWellMade, CreatesAreWellMade
<1>4. Program(R15.up)
  BY DEF R15
<1>5. Program(R17.up) /\ Program(R17.down)
  BY DEF R17, SupportType
<1>6. Program(R18.up) /\ Program(R18.down)
  BY DEF R18
<1>7. Program(R19.up) /\ Program(R19.down)
  BY DEF R19
<1>8. Program(R20.up) /\ Program(R20.down)
  BY DEF R20
<1>9. Program(R21.up) /\ Program(R21.down)
  BY DEF R21
<1>10. Program(R22.up) /\ Program(R22.down)
  BY DEF R22
<1> QED
  BY <1>1, <1>2, <1>3, <1>4, <1>5, <1>6, <1>7, <1>8, <1>9, <1>10

LEMMA RevisionsUntilDrift ==
    /\ Program(R23.up) /\ Program(R23.down) /\ Program(R24.up) /\ Program(R24.down)
    /\ Program(R25.up) /\ Program(R25.down) /\ Program(R26.up) /\ Program(R26.down)
<1> USE TupleIsProgram, OthersAreWellMade, ColumnIsWellMade, CreatesAreWellMade
<1>1. Program(R23.up) /\ Program(R23.down)
  BY DEF R23
<1>2. Program(R24.up) /\ Program(R24.down)
  BY DEF R24
<1>3. Program(R25.up) /\ Program(R25.down)
  BY DEF R25, AddFileStatus
<1>4. Program(R26.up) /\ Program(R26.down)
  BY DEF R26, AddFileStatus
<1> QED
  BY <1>1, <1>2, <1>3, <1>4

LEMMA RevisionsOfKeys ==
    /\ Program(R27.up) /\ Program(R27.down) /\ Program(R28.up) /\ Program(R28.down)
    /\ Program(R29.up) /\ Program(R29.down) /\ Program(R30.up) /\ Program(R30.down)
<1>1. Len(DriftRules) \in Nat
  <2>1. Len(CascadeRules) = 7
    BY DEF CascadeRules
  <2> DEFINE s == [i \in 1..(7 - 1) |-> IF i < 6 THEN CascadeRules[i] ELSE CascadeRules[i + 1]]
  <2>2. Len(s) = 6
    OBVIOUS
  <2>3. DriftRules = s
    BY <2>1 DEF DriftRules, RemoveAt
  <2> QED
    BY <2>2, <2>3
<1> USE TupleIsProgram, OthersAreWellMade, ColumnIsWellMade, CreatesAreWellMade
<1>2. Program(R27.up)
  <2>1. Program(Relinked(NoAction(DriftRules)))
    BY <1>1, NoActionIsAsLong, RelinkedIsProgram
  <2>2. /\ Program(<<Drop("lesplan_feedback_message"), Unlink("book", "subject_id", Named),
                     Link("book", "subject_id", "subjects", "none", Standard),
                     DropColumn("book_chapter", "toets_url")>>)
        /\ Program(<<DropKey("lesplan_overview", "request_id", Named),
                     DropKey("subjects", "slug", Standard),
                     SyncLabels("class_support_challenge", NewSupport)>>)
    OBVIOUS
  <2> QED
    BY ONLY <2>1, <2>2, JoinedIsProgram DEF R27
<1>3. Program(R27.down)
  BY DEF R27
<1>4. Program(R28.up) /\ Program(R28.down)
  <2>1. Len(RestoreRules) \in Nat
    <3> DEFINE p == DriftRules
               q == <<<<"book", "subject_id", "subjects", "set null", Standard>>>>
    <3>1. p = [i \in 1..Len(p) |-> p[i]]
      BY DEF DriftRules, RemoveAt
    <3> QED
      BY <1>1, <3>1 DEF RestoreRules
  <2> QED
    BY ONLY <2>1, NoActionIsAsLong, RelinkedIsProgram DEF R28
<1>5. Program(R29.up) /\ Program(R29.down)
  <2>1. Len(RemainingRules) \in Nat
    BY DEF RemainingRules
  <2> QED
    BY ONLY <2>1, NoActionIsAsLong, RelinkedIsProgram DEF R29
<1>6. Program(R30.up) /\ Program(R30.down)
  BY DEF R30
<1> QED
  BY <1>2, <1>3, <1>4, <1>5, <1>6

LEMMA LastRevisions ==
    /\ Program(R31.up) /\ Program(R31.down) /\ Program(R32.up) /\ Program(R32.down)
    /\ Program(R33.up) /\ Program(R33.down) /\ Program(R34.up) /\ Program(R34.down)
    /\ Program(R35.up) /\ Program(R35.down) /\ Program(R36.up) /\ Program(R36.down)
    /\ Program(R37.up) /\ Program(R37.down)
<1>1. Len(Resources) \in Nat
  BY DEF Resources
<1>2. /\ Program(ForEach(Resources, LAMBDA t : Optional(t, "organization_id")))
      /\ Program(ForEach(Resources, LAMBDA t : DropColumn(t, "organization_id")))
      /\ Program(ForEach(Resources, LAMBDA t : DropColumnIfExists(t, "organization_id")))
      /\ Program(ForEach(Resources,
                         LAMBDA t : Link(t, "organization_id", "organization", "set null", Standard)))
      /\ Program(ForEach(Resources, LAMBDA t : Unlink(t, "organization_id", Standard)))
  BY <1>1, OnEachIsProgram DEF ForEach
<1> USE TupleIsProgram, OthersAreWellMade, ColumnIsWellMade, CreatesAreWellMade
<1>3. Program(R31.up)
  <2>1. Program(<<DropIfExists("organization_invite"), DropIfExists("organization_membership"),
                  DropIfExists("organization"), DropTypeIfExists("invite_status"),
                  DropTypeIfExists("organization_role"), DropTypeIfExists("user_role"),
                  DropColumnIfExists("user", "user_role")>>)
    OBVIOUS
  <2>2. Program(<<EnsureType("user_role", {}), EnsureType("organization_role", {}),
                  EnsureType("invite_status", {}), Column("user", "user_role", "user_role", FALSE),
                  Create("organization", {}, {}),
                  Create("organization_membership", {<<"role", "organization_role">>},
                         {<<"user_id", "user", "cascade">>, <<"organization_id", "organization", "cascade">>}),
                  Create("organization_invite",
                         {<<"role", "organization_role">>, <<"status", "invite_status">>},
                         {<<"organization_id", "organization", "cascade">>,
                          <<"invited_by_user_id", "user", "cascade">>})>>)
    OBVIOUS
  <2> QED
    BY ONLY <1>2, <2>1, <2>2, JoinedIsProgram DEF R31
<1>4. Program(R31.down)
  <2>1. Program(<<Drop("organization_invite"), Drop("organization_membership"), Drop("organization"),
                  DropColumn("user", "user_role"), DropTypeIfExists("invite_status"),
                  DropTypeIfExists("organization_role"), DropTypeIfExists("user_role")>>)
    OBVIOUS
  <2> QED
    BY ONLY <1>2, <2>1, JoinedIsProgram DEF R31
<1>5. Program(R32.up) /\ Program(R32.down)
  BY DEF R32
<1>6. Program(R33.up) /\ Program(R33.down)
  BY DEF R33
<1>7. Program(R34.up) /\ Program(R34.down)
  BY DEF R34, SupportType
<1>8. Program(R35.up) /\ Program(R35.down)
  BY DEF R35
<1>9. Program(R36.up) /\ Program(R36.down)
  BY DEF R36
<1>10. Program(R37.up) /\ Program(R37.down)
  BY DEF R37
<1> QED
  BY <1>3, <1>4, <1>5, <1>6, <1>7, <1>8, <1>9, <1>10

LEMMA NewestIsNumber == Newest = 37
  BY DEF Newest, Chain

LEMMA ChainIsWellMade == Programs
<1> SUFFICES ASSUME NEW number \in 1..37
             PROVE  Program(Chain[number].up) /\ Program(Chain[number].down)
  BY NewestIsNumber DEF Programs
<1>1. CASE number \in 1..9
  BY <1>1, FirstRevisions, RevisionsUntilCascades DEF Chain
<1>2. CASE number \in 10..19
  BY <1>2, RevisionsUntilCascades, RevisionsUntilFiles DEF Chain
<1>3. CASE number \in 20..29
  BY <1>3, RevisionsUntilFiles, RevisionsUntilDrift, RevisionsOfKeys DEF Chain
<1>4. CASE number \in 30..37
  BY <1>4, RevisionsOfKeys, LastRevisions DEF Chain
<1> QED
  BY <1>1, <1>2, <1>3, <1>4

-----------------------------------------------------------------------------------
(* The inductive invariant.                                                *)

MigrationInv ==
    /\ rev \in 0..Newest
    /\ failed = None \/ failed \in {"up", "down"} \X (1..Newest)
    /\ Stands(db)

\* What GoalsKeepWords asks of a step.
WordsStay ==
    db.goals # None /\ db'.goals # None =>
        /\ Words(db'.goals.lines) = Words(db.goals.lines)
        /\ db'.copies # None => Words(db'.copies) = Words(db.goals.lines)

LEMMA KeptWordsStay == Stands(db)' /\ GoalsKept(db, db') => WordsStay
  BY DEF Stands, GoalsOK, GoalsKept, WordsStay

LEMMA InitIsSound == Init => MigrationInv
<1> SUFFICES ASSUME Init PROVE MigrationInv
  OBVIOUS
<1>1. IsDatabase(db)
  BY DEF Init, Empty, IsDatabase, Fields
<1>2. SchemaOK(db)
  BY <1>1, MaxSubjectsAssumption DEF Init, Empty, SchemaOK
<1>3. GoalsOK(db)
  BY DEF Init, Empty, GoalsOK
<1> QED
  BY <1>2, <1>3, NewestIsNumber DEF Init, MigrationInv, Stands

LEMMA TransactionIsSound ==
    ASSUME MigrationInv, NEW direction \in {"up", "down"}, NEW numbers, NEW to \in 0..Newest,
           Len(numbers) \in Nat, DOMAIN numbers = 1..Len(numbers),
           \A i \in 1..Len(numbers) : numbers[i] \in 1..Newest,
           Transaction(direction, numbers, to)
    PROVE  MigrationInv' /\ WordsStay
<1> DEFINE run == Command(direction, numbers, db)
<1>1. /\ run.db # Broken => Stands(run.db) /\ GoalsKept(db, run.db)
      /\ run.failed = None \/ run.failed \in {"up", "down"} \X (1..Newest)
  BY ChainIsWellMade, CommandStands DEF MigrationInv
<1>2. /\ failed' = run.failed
      /\ IF run.db = Broken THEN UNCHANGED <<rev, db>> ELSE rev' = to /\ db' = run.db
  BY DEF Transaction
<1> HIDE DEF run
<1>3. rev' \in 0..Newest /\ Stands(db') /\ GoalsKept(db, db')
  <2>1. CASE run.db = Broken
    BY <1>2, <2>1 DEF MigrationInv, GoalsKept
  <2>2. CASE run.db # Broken
    BY <1>1, <1>2, <2>2
  <2> QED
    BY <2>1, <2>2
<1> QED
  BY <1>1, <1>2, <1>3, KeptWordsStay DEF MigrationInv

LEMMA UpgradeIsSound ==
    ASSUME MigrationInv, NEW to \in 1..Newest, Upgrade(to)
    PROVE  MigrationInv' /\ WordsStay
<1> DEFINE numbers == [i \in 1..(to - rev) |-> rev + i]
<1>1. rev \in 0..Newest /\ rev < to /\ Newest \in Nat
  BY NewestIsNumber DEF MigrationInv, Upgrade
<1>2. /\ Len(numbers) = to - rev /\ to - rev \in Nat /\ DOMAIN numbers = 1..(to - rev)
      /\ \A i \in 1..(to - rev) : numbers[i] \in 1..Newest
  BY <1>1
<1>3. Transaction("up", numbers, to)
  BY DEF Upgrade
<1> HIDE DEF numbers
<1> QED
  BY <1>1, <1>2, <1>3, TransactionIsSound

LEMMA DowngradeIsSound ==
    ASSUME MigrationInv, Downgrade
    PROVE  MigrationInv' /\ WordsStay
<1> DEFINE numbers == <<rev>>
<1>1. rev \in 1..Newest /\ rev - 1 \in 0..Newest
  BY NewestIsNumber DEF MigrationInv, Downgrade
<1>2. Len(numbers) = 1 /\ DOMAIN numbers = 1..1 /\ numbers[1] = rev
  OBVIOUS
<1>3. Transaction("down", numbers, rev - 1)
  BY DEF Downgrade
<1> HIDE DEF numbers
<1> QED
  BY <1>1, <1>2, <1>3, TransactionIsSound

\* A row that comes leaves the rest of the database.
LEMMA RowComes ==
    ASSUME NEW d, Stands(d), NEW t \in d.tables
    PROVE  LET e == [d EXCEPT !.rows = @ \union {t}] IN Stands(e) /\ GoalsKept(d, e)
<1> DEFINE e == [d EXCEPT !.rows = @ \union {t}]
<1>1. /\ IsDatabase(e) /\ e.rows = d.rows \union {t}
      /\ e.tables = d.tables /\ e.cols = d.cols /\ e.types = d.types /\ e.nulls = d.nulls
      /\ e.fks = d.fks /\ e.support = d.support /\ e.subjects = d.subjects
      /\ e.goals = d.goals /\ e.copies = d.copies
  BY DEF Stands, SchemaOK, IsDatabase, Fields
<1> HIDE DEF e
<1>2. SchemaOK(e)
  BY <1>1 DEF Stands, SchemaOK
<1>3. GoalsOK(e) /\ GoalsKept(d, e)
  BY <1>1, GoalsOfTheSame DEF Stands
<1> QED
  BY <1>2, <1>3 DEF Stands, e

LEMMA ClassIsSound ==
    ASSUME MigrationInv, NEW withDifficulty \in BOOLEAN, NEW labels, AddClass(withDifficulty, labels)
    PROVE  Stands(db') /\ GoalsKept(db, db')
<1>1. /\ "class" \in db.tables
      /\ withDifficulty \/ \E x \in db.cols : x.on = "class" /\ x.col = "difficulty" /\ x.null
      /\ labels # {} => HasColumn(db, "class", "support_challenge")
                          /\ labels \subseteq db.types["class_support_challenge"]
      /\ db' = [db EXCEPT !.rows = @ \union {"class"}, !.support = labels,
                          !.nulls = IF withDifficulty THEN @ ELSE @ \union {<<"class", "difficulty">>}]
  BY DEF AddClass, Wrote
<1>2. Stands(db) /\ SchemaOK(db) /\ GoalsOK(db)
  BY DEF MigrationInv, Stands
<1> DEFINE d == db
           e == db'
<1>3. /\ IsDatabase(e) /\ e.rows = d.rows \union {"class"} /\ e.support = labels
      /\ e.nulls = IF withDifficulty THEN d.nulls ELSE d.nulls \union {<<"class", "difficulty">>}
      /\ e.tables = d.tables /\ e.cols = d.cols /\ e.types = d.types
      /\ e.fks = d.fks /\ e.subjects = d.subjects
      /\ e.goals = d.goals /\ e.copies = d.copies
  BY <1>1, <1>2 DEF SchemaOK, IsDatabase, Fields
<1> HIDE DEF d, e
<1>4. \A v \in e.nulls : \E x \in e.cols : x.null = TRUE /\ v = <<x.on, x.col>>
  <2>1. ~withDifficulty =>
          \E x \in d.cols : x.null = TRUE /\ <<"class", "difficulty">> = <<x.on, x.col>>
    <3> SUFFICES ASSUME ~withDifficulty
                 PROVE  \E x \in d.cols : x.null = TRUE /\ <<"class", "difficulty">> = <<x.on, x.col>>
      OBVIOUS
    <3>1. PICK x \in db.cols : x.on = "class" /\ x.col = "difficulty" /\ x.null
      BY <1>1
    <3>2. x.null \in BOOLEAN
      BY <1>2 DEF SchemaOK, IsColumn
    <3> QED
      BY <3>1, <3>2 DEF d
  <2>2. \A v \in d.nulls : \E x \in d.cols : x.null = TRUE /\ v = <<x.on, x.col>>
    BY <1>2 DEF SchemaOK, d
  <2> QED
    BY <1>3, <2>1, <2>2
<1>5. e.support # {} => /\ \E x \in e.cols : x.col = "support_challenge"
                        /\ e.support \subseteq e.types[SupportType]
  BY <1>1, <1>3 DEF HasColumn, SupportType, d
<1>6. SchemaOK(e)
  BY <1>1, <1>2, <1>3, <1>4, <1>5 DEF SchemaOK, d
<1>7. GoalsOK(e) /\ GoalsKept(d, e)
  BY <1>2, <1>3, GoalsOfTheSame DEF d
<1> QED
  BY <1>6, <1>7 DEF Stands, d, e

LEMMA SubjectIsSound ==
    ASSUME MigrationInv, AddSubject
    PROVE  Stands(db') /\ GoalsKept(db, db')
<1> DEFINE d == db
           e == db'
<1>1. e = [d EXCEPT !.subjects = @ + 1] /\ d.subjects < MaxSubjects
  BY DEF AddSubject, Wrote
<1>2. SchemaOK(d) /\ GoalsOK(d)
  BY DEF MigrationInv, Stands
<1> HIDE DEF d, e
<1>3. /\ IsDatabase(e) /\ e.rows = d.rows /\ e.support = d.support /\ e.nulls = d.nulls
      /\ e.tables = d.tables /\ e.cols = d.cols /\ e.types = d.types
      /\ e.fks = d.fks /\ e.subjects = d.subjects + 1
      /\ e.goals = d.goals /\ e.copies = d.copies
  BY <1>1, <1>2 DEF SchemaOK, IsDatabase, Fields
<1>4. e.subjects \in 0..MaxSubjects
  BY <1>1, <1>2, <1>3, MaxSubjectsAssumption DEF SchemaOK
<1>5. SchemaOK(e)
  BY <1>2, <1>3, <1>4 DEF SchemaOK
<1>6. GoalsOK(e) /\ GoalsKept(d, e)
  BY <1>2, <1>3, GoalsOfTheSame
<1> QED
  BY <1>5, <1>6 DEF Stands, d, e

LEMMA PlanIsSound ==
    ASSUME MigrationInv, NEW goals \in Texts, AddPlan(goals)
    PROVE  Stands(db') /\ WordsStay
<1> DEFINE d == db
           e == db'
<1>1. /\ e = [d EXCEPT !.rows = @ \union {"lesplan_overview"}, !.goals = goals,
                       !.copies = IF "learning_goal" \in db.tables THEN goals.lines ELSE None]
      /\ "lesplan_overview" \in d.tables /\ d.goals = None
  BY DEF AddPlan, Wrote
<1>2. SchemaOK(d) /\ GoalsOK(d)
  BY DEF MigrationInv, Stands
<1>3. goals \in GoalRecords
  BY TextsAssumption DEF GoalRecords, Lines, Line
<1>4. WordsStay
  BY <1>1 DEF WordsStay
<1> HIDE DEF d, e
<1>5. /\ IsDatabase(e) /\ e.rows = d.rows \union {"lesplan_overview"}
      /\ e.support = d.support /\ e.nulls = d.nulls
      /\ e.tables = d.tables /\ e.cols = d.cols /\ e.types = d.types
      /\ e.fks = d.fks /\ e.subjects = d.subjects
      /\ e.goals = goals /\ e.copies \in {goals.lines, None}
  BY <1>1, <1>2 DEF SchemaOK, IsDatabase, Fields
<1>6. SchemaOK(e)
  BY <1>1, <1>2, <1>5 DEF SchemaOK
<1>7. GoalsOK(e)
  BY <1>3, <1>5 DEF GoalsOK
<1> QED
  BY <1>4, <1>6, <1>7 DEF Stands, e

LEMMA RepairIsSound ==
    ASSUME MigrationInv, RepairByHand
    PROVE  Stands(db') /\ GoalsKept(db, db')
<1> DEFINE statements == <<DropColumn("file", "status"), DropType("file_status")>>
<1>1. Run(statements, db) # Broken /\ db' = Run(statements, db)
  BY DEF RepairByHand, Wrote
<1>2. Program(statements)
  BY TupleIsProgram, OthersAreWellMade
<1> HIDE DEF statements
<1> QED
  BY <1>1, <1>2, RunStands DEF MigrationInv

LEMMA StepIsSound ==
    ASSUME MigrationInv, [Next]_vars
    PROVE  MigrationInv' /\ WordsStay
<1>1. ASSUME NEW to \in 1..Newest, Upgrade(to) PROVE MigrationInv' /\ WordsStay
  BY <1>1, UpgradeIsSound
<1>2. CASE Downgrade
  BY <1>2, DowngradeIsSound
<1>3. ASSUME NEW d, Wrote(d), Stands(db') PROVE MigrationInv'
  BY <1>3 DEF Wrote, MigrationInv
<1>4. CASE AddUser
  <2>1. Stands(db') /\ GoalsKept(db, db')
    BY <1>4, RowComes DEF AddUser, Wrote, MigrationInv
  <2> QED
    BY <1>3, <1>4, <2>1, KeptWordsStay DEF AddUser
<1>5. CASE AddEvent
  <2>1. Stands(db') /\ GoalsKept(db, db')
    BY <1>5, RowComes DEF AddEvent, Wrote, MigrationInv
  <2> QED
    BY <1>3, <1>5, <2>1, KeptWordsStay DEF AddEvent
<1>6. ASSUME NEW withDifficulty \in BOOLEAN, NEW labels, AddClass(withDifficulty, labels)
      PROVE  MigrationInv' /\ WordsStay
  <2>1. Stands(db') /\ GoalsKept(db, db')
    BY <1>6, ClassIsSound
  <2> QED
    BY <1>3, <1>6, <2>1, KeptWordsStay DEF AddClass
<1>7. CASE AddSubject
  <2>1. Stands(db') /\ GoalsKept(db, db')
    BY <1>7, SubjectIsSound
  <2> QED
    BY <1>3, <1>7, <2>1, KeptWordsStay DEF AddSubject
<1>8. ASSUME NEW goals \in Texts, AddPlan(goals) PROVE MigrationInv' /\ WordsStay
  <2>1. Stands(db') /\ WordsStay
    BY <1>8, PlanIsSound
  <2> QED
    BY <1>3, <1>8, <2>1 DEF AddPlan
<1>9. CASE RepairByHand
  <2>1. Stands(db') /\ GoalsKept(db, db')
    BY <1>9, RepairIsSound
  <2> QED
    BY <1>3, <1>9, <2>1, KeptWordsStay DEF RepairByHand
<1>10. CASE UNCHANGED vars
  <2>1. rev' = rev /\ db' = db /\ failed' = failed
    BY <1>10 DEF vars
  <2>2. Stands(db') /\ GoalsKept(db, db')
    BY <2>1 DEF MigrationInv, GoalsKept
  <2> QED
    BY <2>1, <2>2, KeptWordsStay DEF MigrationInv
<1> QED
  BY <1>1, <1>2, <1>4, <1>5, <1>6, <1>7, <1>8, <1>9, <1>10 DEF Next

LEMMA MigrationInvHolds == Spec => []MigrationInv
<1>1. MigrationInv /\ [Next]_vars => MigrationInv'
  BY StepIsSound
<1> QED
  BY InitIsSound, <1>1, PTL DEF Spec

\* Whatever commands run, succeed or are refused, and whatever rows are written between
\* them, the schema and the rows are ones that PostgreSQL can hold (every revision of
\* src/alembic/versions).
THEOREM SchemasHold == Spec => []TypeOK
<1>1. MigrationInv => TypeOK
  <2> SUFFICES ASSUME MigrationInv PROVE TypeOK
    OBVIOUS
  <2>1. SchemaOK(db)
    BY DEF MigrationInv, Stands
  <2>2. \A x \in db.cols : ~x.null => ~HasNulls(db, x.on, x.col)
    <3> SUFFICES ASSUME NEW x \in db.cols, <<x.on, x.col>> \in db.nulls PROVE x.null
      BY DEF HasNulls
    <3>1. PICK y \in db.cols : y.null = TRUE /\ <<x.on, x.col>> = <<y.on, y.col>>
      BY <2>1 DEF SchemaOK
    <3>2. x = y
      BY <2>1, <3>1 DEF SchemaOK
    <3> QED
      BY <3>1, <3>2
  <2> QED
    BY <2>1, <2>2 DEF TypeOK, MigrationInv, SchemaOK, SupportType
<1> QED
  BY <1>1, MigrationInvHolds, PTL

\* A plan's goals keep their words in their order through every command that keeps the
\* plan, and the rows that 0037 makes of them say the same (0009:31-40, 0011:33-151,
\* 0037:89-102): for goals of any number of lines, of any length.
THEOREM GoalsAlwaysKeepWords == Spec => GoalsKeepWords
<1>1. MigrationInv /\ [Next]_vars => [WordsStay]_vars
  BY StepIsSound
<1> QED
  BY <1>1, MigrationInvHolds, PTL DEF Spec, GoalsKeepWords, WordsStay

====================================================================================
