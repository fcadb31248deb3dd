------------------------------ MODULE MCFolderTree ------------------------------
(***************************************************************************)
(* TLC instances of FolderTree.  Besides what two calls do, the run has a  *)
(* first step to every arrangement of the folders that contains a cycle:   *)
(* earlier moves that overlapped can have left the library there, and a    *)
(* later call must still be answered.                                      *)
(***************************************************************************)
EXTENDS FolderTree

\* What calls may have done before: all but one have been answered and left a cycle.
OverlappedBefore ==
    /\ Init
    /\ parent' \in [Folders -> Locations]
    /\ ~NoCircularReference'
    /\ \E last \in Calls : pc' = [c \in Calls |-> IF c = last THEN "idle" ELSE "done"]
    /\ overlap' = TRUE
    /\ UNCHANGED <<place, folder, target, was, walkVars, listVars, stale>>

MCSpec ==
    /\ Init
    /\ [][Next \/ OverlappedBefore]_vars
    /\ \A c \in Calls : WF_vars(CallStep(c))
==================================================================================
