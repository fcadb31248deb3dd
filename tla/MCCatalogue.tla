---------------------------- MODULE MCCatalogue ----------------------------
(* Three groups, two of which have the same last part in their URL, on pages *)
(* of one chapter or, for g3, of one or two; one paragraph a chapter.         *)
EXTENDS Catalogue
CONSTANTS g1, g2, g3, s1, s2

MCGroups == {g1, g2, g3}
MCSlugOf == [g \in MCGroups |-> IF g = g3 THEN s2 ELSE s1]
Short == [c \in {1} |-> {1}]
Long == [c \in {1, 2} |-> {1}]
MCPages == [g \in MCGroups |-> CASE g = g1 -> {Short} [] g = g2 -> {Short} [] g = g3 -> {Short, Long}]
=============================================================================
