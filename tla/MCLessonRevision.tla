----------------------------- MODULE MCLessonRevision -----------------------------
(***************************************************************************)
(* TLC instances of LessonRevision.  Nothing tells one todo or call from   *)
(* another.                                                                *)
(***************************************************************************)
EXTENDS LessonRevision, TLC

NoChange == [objectives |-> None, materials |-> None, sections |-> None, wording |-> None]

\* Each field made unreadable or odd, the wording alone, and an answer that repairs everything.
SomeAnswers ==
    {[NoChange EXCEPT !.wording = w] : w \in Wordings}
        \union {[NoChange EXCEPT !.objectives = o, !.materials = "fine", !.sections = "fine"] :
                    o \in Objectives}
        \union {[NoChange EXCEPT !.objectives = NotIterable],
                [NoChange EXCEPT !.sections = "broken"],
                [NoChange EXCEPT !.materials = "odd", !.objectives = NotAList]}

Symmetric == Permutations(Todos) \union Permutations(Calls) \union Permutations(Wordings)
===================================================================================
