---------------------------------- MODULE Library ----------------------------------
(***************************************************************************)
(* What the folders of a user promise, with nothing of the queries that    *)
(* bring it about: creating and moving a folder, filing a file and         *)
(* deleting a folder are single steps.  A folder is moved only to where it *)
(* is not under itself, and what was in a deleted folder is in its parent. *)
(* FolderTree implements this (its ImplementsLibrary).                     *)
(*                                                                         *)
(* The promise is conditional.  raced says that a call has written on what *)
(* it read before another call wrote (FolderTree's overlap).  From then on *)
(* folders may lie under themselves and contents may be in the wrong       *)
(* place, but none is lost: all is filed in the root or a folder that      *)
(* exists, and a deleted folder is not found again.                        *)
(***************************************************************************)
CONSTANTS Folders, Files, Root, Unborn, Gone

VARIABLES
    parent,     \* where each folder is: a folder, Root, Unborn or Gone
    place,      \* where each file is
    raced       \* whether calls have overlapped

------------------------------------------------------------------------------------
Locations == Folders \union {Root}

Exists(f) == parent[f] \in Locations

Valid(loc) == loc = Root \/ (loc \in Folders /\ Exists(loc))

\* Folder t does not lie under f: some folders, f not among them, lead from t to the root.
Clear(f, t) ==
    \E path \in SUBSET (Folders \ {f}) :
        t \in path /\ \A g \in path : parent[g] \in path \union {Root}

Init ==
    /\ parent = [f \in Folders |-> Unborn]
    /\ place = [x \in Files |-> Root]
    /\ raced = FALSE

Create(f, loc) ==
    /\ parent[f] = Unborn /\ Valid(loc)
    /\ parent' = [parent EXCEPT ![f] = loc]
    /\ UNCHANGED place

File(x, loc) ==
    /\ Valid(loc)
    /\ place' = [place EXCEPT ![x] = loc]
    /\ UNCHANGED parent

Move(f, t) ==
    /\ Exists(f) /\ Exists(t) /\ Clear(f, t)
    /\ parent' = [parent EXCEPT ![f] = t]
    /\ UNCHANGED place

Delete(f) ==
    /\ Exists(f)
    /\ LET outOf(loc) == IF loc = f THEN parent[f] ELSE loc
       IN  /\ parent' = [g \in Folders |-> IF g = f THEN Gone ELSE outOf(parent[g])]
           /\ place' = [x \in Files |-> outOf(place[x])]

Serial ==
    /\ ~raced /\ ~raced'
    /\ \/ \E f \in Folders : \/ Delete(f)
                             \/ \E loc \in Locations : Create(f, loc)
                             \/ \E t \in Folders : Move(f, t)
       \/ \E x \in Files, loc \in Locations : File(x, loc)

\* What holds however calls overlap.
Race ==
    /\ raced'
    /\ parent' \in [Folders -> Locations \union {Unborn, Gone}]
    /\ place' \in [Files -> Locations]
    /\ \A f \in Folders : /\ Exists(f)' => Valid(parent[f])'
                          /\ parent[f] = Gone => parent'[f] = Gone
                          /\ parent'[f] = Unborn => parent[f] = Unborn
    /\ \A x \in Files : Valid(place[x])'

Next == Serial \/ Race

Spec == Init /\ [][Next]_<<parent, place, raced>>
====================================================================================
