------------------------------- MODULE FolderTree -------------------------------
(***************************************************************************)
(* The folders of one user and the files filed in them.  Moving a folder   *)
(* walks up from the new parent to see that the folder is not above it;    *)
(* deleting one hands its contents to its parent.  Both read the tree in   *)
(* several queries and lock nothing they have read: by the time they write *)
(* it may have changed.  What they have written the database locks until   *)
(* their commit, and a delete writes its subfolders before it lists its    *)
(* files (the session flushes before every query).                         *)
(***************************************************************************)
EXTENDS FiniteSets

CONSTANTS
    Folders,   \* the ids folders may get; none is used twice
    Files,     \* the files of the user
    Calls,     \* the calls that move or delete a folder
    Root,      \* "no folder": the parent of a root folder (NULL)
    Unborn,    \* the parent of an id that is not used yet
    Gone       \* the parent of an id whose folder has been deleted

ASSUME Sentinels ==
    /\ Root \notin Folders /\ Unborn \notin Folders /\ Gone \notin Folders
    /\ Root # Unborn /\ Root # Gone /\ Unborn # Gone

VARIABLES
    parent,     \* folder.parent_id, or Unborn or Gone
    place,      \* file.folder_id
    pc,         \* where each call stands
    folder,     \* the folder it is about
    target,     \* the parent_id of a move
    was,        \* the folder's parent when the call read the folder
    cur,        \* current_id in the walk of a move
    visited,    \* the ids the walk has passed
    children,   \* the subfolders a delete has listed
    contents,   \* the files it has listed
    stale,      \* the tree changed since the call began (observer)
    overlap     \* a stale call has committed (observer)

walkVars == <<cur, visited>>
listVars == <<children, contents>>
vars == <<parent, place, pc, folder, target, was, walkVars, listVars, stale, overlap>>

Locations == Folders \union {Root}

Exists(f) == parent[f] \in Locations

\* What a foreign key to folder.id admits.
Valid(loc) == loc = Root \/ (loc \in Folders /\ Exists(loc))

PcStates == {"idle", "target", "walk", "checked", "list", "listed", "ready",
             "done", "refused", "failed"}

Init ==
    /\ parent = [f \in Folders |-> Unborn]
    /\ place = [x \in Files |-> Root]
    /\ pc = [c \in Calls |-> "idle"]
    /\ folder = [c \in Calls |-> Root] /\ target = [c \in Calls |-> Root]
    /\ was = [c \in Calls |-> Root]
    /\ cur = [c \in Calls |-> Root] /\ visited = [c \in Calls |-> {}]
    /\ children = [c \in Calls |-> {}] /\ contents = [c \in Calls |-> {}]
    /\ stale = [c \in Calls |-> FALSE]
    /\ overlap = FALSE

-----------------------------------------------------------------------------
\* The calls that read and write at once, as far as anyone can see: a new folder, or a
\* file filed elsewhere, is refused by a check or by the foreign key if its folder is gone.

Active(c) == pc[c] \in {"target", "walk", "checked", "list", "listed", "ready"}

\* Everyone who is still at work has read an older tree.
Outdate(done) == stale' = [c \in Calls |-> IF c \in done THEN stale[c] ELSE stale[c] \/ Active(c)]

callVars == <<pc, folder, target, was, walkVars, listVars>>

CreateFolder(f, loc) ==
    /\ parent[f] = Unborn
    /\ Valid(loc)
    /\ parent' = [parent EXCEPT ![f] = loc]
    /\ Outdate({})
    /\ UNCHANGED <<place, callVars, overlap>>

MoveFile(x, loc) ==
    /\ Valid(loc)
    /\ place[x] # loc
    /\ place' = [place EXCEPT ![x] = loc]
    /\ Outdate({})
    /\ UNCHANGED <<parent, callVars, overlap>>

-----------------------------------------------------------------------------
\* Row locks.

\* The subfolders a delete writes: the mapper leaves out a column that does not change.
Moved(c) == IF was[c] = folder[c] THEN {} ELSE children[c]

\* The rows a delete has written and not committed.
Locked(c) == IF pc[c] = "ready" THEN Moved(c) ELSE {}

Free(f, c) == \A d \in Calls \ {c} : f \notin Locked(d)

-----------------------------------------------------------------------------
\* update_folder with a parent_id.

\* The folder is loaded; a folder cannot be its own parent.
BeginMove(c, f, t) ==
    /\ pc[c] = "idle"
    /\ folder' = [folder EXCEPT ![c] = f]
    /\ target' = [target EXCEPT ![c] = t]
    /\ was' = [was EXCEPT ![c] = IF Exists(f) THEN parent[f] ELSE Root]
    /\ pc' = [pc EXCEPT ![c] = IF Exists(f) /\ t # f THEN "target" ELSE "refused"]
    /\ UNCHANGED <<parent, place, walkVars, listVars, stale, overlap>>

\* The new parent must be a folder of the user.
LoadTarget(c) ==
    /\ pc[c] = "target"
    /\ IF Exists(target[c])
         THEN /\ pc' = [pc EXCEPT ![c] = "walk"]
              /\ cur' = [cur EXCEPT ![c] = target[c]]
         ELSE /\ pc' = [pc EXCEPT ![c] = "refused"]
              /\ cur' = cur
    /\ UNCHANGED <<parent, place, folder, target, was, visited, listVars, stale, overlap>>

\* Mutant: the walk does not remember where it has been.
WalkForgets(c) ==
    /\ pc[c] = "walk"
    /\ LET above == parent[cur[c]]
       IN  IF ~Exists(cur[c]) \/ above = folder[c]
             THEN pc' = [pc EXCEPT ![c] = "refused"] /\ UNCHANGED walkVars
             ELSE /\ cur' = [cur EXCEPT ![c] = above]
                  /\ visited' = visited
                  /\ pc' = [pc EXCEPT ![c] = IF above = Root THEN "checked" ELSE @]
    /\ UNCHANGED <<parent, place, folder, target, was, listVars, stale, overlap>>

\* Mutant: the walk looks one folder up and no further.
WalkOnce(c) ==
    /\ pc[c] = "walk"
    /\ IF ~Exists(cur[c]) \/ parent[cur[c]] = folder[c]
         THEN pc' = [pc EXCEPT ![c] = "refused"]
         ELSE pc' = [pc EXCEPT ![c] = "checked"]
    /\ UNCHANGED <<parent, place, folder, target, was, walkVars, listVars, stale, overlap>>

Walk(c) ==
    /\ pc[c] = "walk"
    /\ LET above == parent[cur[c]]
           seen  == visited[c] \union {cur[c]}
       IN  IF ~Exists(cur[c]) \/ above = folder[c]
             THEN pc' = [pc EXCEPT ![c] = "refused"] /\ UNCHANGED walkVars
             ELSE /\ cur' = [cur EXCEPT ![c] = above]
                  /\ visited' = [visited EXCEPT ![c] = seen]
                  /\ pc' = [pc EXCEPT ![c] = IF above \in seen \union {Root} THEN "checked" ELSE @]
    /\ UNCHANGED <<parent, place, folder, target, was, listVars, stale, overlap>>

\* Mutant: a folder that is gone is inserted again, where it was to move.
CommitMoveRestores(c) ==
    /\ pc[c] = "checked"
    /\ Free(folder[c], c)
    /\ pc' = [pc EXCEPT ![c] = IF Valid(target[c]) THEN "done" ELSE "failed"]
    /\ parent' = [parent EXCEPT ![folder[c]] = IF Valid(target[c]) THEN target[c] ELSE @]
    /\ Outdate({c})
    /\ overlap' = (overlap \/ stale[c])
    /\ UNCHANGED <<place, folder, target, was, walkVars, listVars>>

CommitMove(c) ==
    /\ pc[c] = "checked"
    /\ Free(folder[c], c)
    /\ IF ~Exists(folder[c]) \/ (target[c] # was[c] /\ ~Valid(target[c]))
         THEN /\ pc' = [pc EXCEPT ![c] = "failed"]
              /\ UNCHANGED <<parent, stale, overlap>>
         ELSE /\ pc' = [pc EXCEPT ![c] = "done"]
              /\ IF target[c] = was[c]
                   THEN UNCHANGED <<parent, stale, overlap>>
                   ELSE /\ parent' = [parent EXCEPT ![folder[c]] = target[c]]
                        /\ Outdate({c})
                        /\ overlap' = (overlap \/ stale[c])
    /\ UNCHANGED <<place, folder, target, was, walkVars, listVars>>

-----------------------------------------------------------------------------
\* delete_folder.

BeginDelete(c, f) ==
    /\ pc[c] = "idle"
    /\ folder' = [folder EXCEPT ![c] = f]
    /\ was' = [was EXCEPT ![c] = IF Exists(f) THEN parent[f] ELSE Root]
    /\ pc' = [pc EXCEPT ![c] = IF Exists(f) THEN "list" ELSE "refused"]
    /\ UNCHANGED <<parent, place, target, walkVars, listVars, stale, overlap>>

ListChildren(c) ==
    /\ pc[c] = "list"
    /\ children' = [children EXCEPT ![c] = {g \in Folders : parent[g] = folder[c]}]
    /\ pc' = [pc EXCEPT ![c] = "listed"]
    /\ UNCHANGED <<parent, place, folder, target, was, walkVars, contents, stale, overlap>>

\* The query for the files flushes the subfolders' new parent first.  It waits for a
\* subfolder that another delete has written; one that is gone, or a parent that is gone,
\* fails the call.
ListFiles(c) ==
    /\ pc[c] = "listed"
    /\ \A g \in Moved(c) : Free(g, c)
    /\ IF \E g \in Moved(c) : ~Exists(g) \/ ~Valid(was[c])
         THEN /\ pc' = [pc EXCEPT ![c] = "failed"]
              /\ contents' = contents
         ELSE /\ pc' = [pc EXCEPT ![c] = "ready"]
              /\ contents' = [contents EXCEPT ![c] = {x \in Files : place[x] = folder[c]}]
    /\ UNCHANGED <<parent, place, folder, target, was, walkVars, children, stale, overlap>>

\* The row c deletes is a subfolder d has moved, or the parent d has moved subfolders to; or
\* d has written a row that points to it.
Waits(c, d) ==
    /\ c # d /\ pc[c] = "ready"
    /\ \E g \in Locked(d) : folder[c] \in {g, was[d], parent[g]}

\* The database ends a deadlock by failing one of those who wait for each other.
Deadlock(c) ==
    /\ \E ring \in SUBSET Calls :
          /\ c \in ring
          /\ \A a \in ring : (\E b \in ring : Waits(a, b)) /\ (\E b \in ring : Waits(b, a))
    /\ pc' = [pc EXCEPT ![c] = "failed"]
    /\ UNCHANGED <<parent, place, folder, target, was, walkVars, listVars, stale, overlap>>

\* The commit: what was listed goes to the parent that was read, wherever it is by now;
\* the row goes, and the database clears what still points to it (ON DELETE SET NULL).
\* Files to move to a parent that is gone fail the whole transaction.  A folder that is
\* gone already is no error.
CommitDelete(c) ==
    LET f == folder[c]
        files == IF was[c] = f THEN {} ELSE contents[c]
        moved(old, written) == IF written THEN was[c] ELSE IF old = f THEN Root ELSE old
    IN  /\ pc[c] = "ready"
        /\ \A d \in Calls : ~Waits(c, d)
        /\ IF files # {} /\ ~Valid(was[c])
             THEN /\ pc' = [pc EXCEPT ![c] = "failed"]
                  /\ UNCHANGED <<parent, place, stale, overlap>>
             ELSE /\ pc' = [pc EXCEPT ![c] = "done"]
                  /\ parent' = [g \in Folders |-> IF g = f THEN Gone ELSE moved(parent[g], g \in Moved(c))]
                  /\ place' = [x \in Files |-> moved(place[x], x \in files)]
                  /\ Outdate({c})
                  /\ overlap' = (overlap \/ stale[c])
        /\ UNCHANGED <<folder, target, was, walkVars, listVars>>

-----------------------------------------------------------------------------
\* Every call has been answered and every id is used: the only place to stop.
Quiescent ==
    /\ \A c \in Calls : pc[c] \in {"done", "refused", "failed"}
    /\ UNCHANGED vars

CallStep(c) ==
    \/ LoadTarget(c) \/ Walk(c) \/ CommitMove(c)
    \/ ListChildren(c) \/ ListFiles(c) \/ CommitDelete(c) \/ Deadlock(c)

Next ==
    \/ \E f \in Folders, loc \in Locations : CreateFolder(f, loc)
    \/ \E x \in Files, loc \in Locations : MoveFile(x, loc)
    \/ \E c \in Calls : \/ \E f, t \in Folders : BeginMove(c, f, t)
                        \/ \E f \in Folders : BeginDelete(c, f)
                        \/ CallStep(c)
    \/ Quiescent

Spec == Init /\ [][Next]_vars

\* A call that has been taken on is worked off.
FairSpec == Spec /\ \A c \in Calls : WF_vars(CallStep(c))

-----------------------------------------------------------------------------
\* Properties.

TypeOK ==
    /\ parent \in [Folders -> Locations \union {Unborn, Gone}]
    /\ place \in [Files -> Locations]
    /\ pc \in [Calls -> PcStates]
    /\ folder \in [Calls -> Locations] /\ target \in [Calls -> Locations]
    /\ was \in [Calls -> Locations] /\ cur \in [Calls -> Locations]
    /\ visited \in [Calls -> SUBSET Folders]
    /\ children \in [Calls -> SUBSET Folders] /\ contents \in [Calls -> SUBSET Files]
    /\ stale \in [Calls -> BOOLEAN] /\ overlap \in BOOLEAN

\* No folder lies under itself: every group of folders has a way out.
NoCircularReference ==
    \A group \in SUBSET {f \in Folders : Exists(f)} :
        group # {} => \E f \in group : parent[f] \notin group

\* Unless a call committed on what it read before another call's commit, every folder can be
\* reached from the root listing.  (folders/route.py:113-125, 141-164, 230-243)
TreeUnlessOverlap == ~overlap => NoCircularReference

\* In every interleaving a folder or a file is filed in the root or in a folder that exists.
\* (folders/route.py:117-119, 148-164; files/route.py:231-242)
NothingDangles ==
    /\ \A f \in Folders : Exists(f) => Valid(parent[f])
    /\ \A x \in Files : Valid(place[x])

\* What a listing and the path of a folder rest on, in one: everything is filed somewhere,
\* and from the root one comes everywhere unless calls have overlapped.
LibraryStands == NothingDangles /\ TreeUnlessOverlap

\* Unless calls overlap, a step that deletes f leaves its contents in its parent and moves
\* nothing else.
Rehomes(f) ==
    Exists(f) /\ parent'[f] = Gone /\ ~overlap' =>
        /\ \A g \in Folders \ {f} : parent'[g] = IF parent[g] = f THEN parent[f] ELSE parent[g]
        /\ \A x \in Files : place'[x] = IF place[x] = f THEN parent[f] ELSE place[x]

\* "Moves contained files and subfolders to the parent (or root)" (folders/route.py:140):
\* unless calls overlap, whatever was in a deleted folder is in its parent afterwards.
DeleteKeepsContents == [][\A f \in Folders : Rehomes(f)]_vars

Lib == INSTANCE Library WITH raced <- overlap

\* Unless calls overlap, to their users the calls are single steps: a folder moves only to a
\* folder that is not under it, and a delete puts the contents into the parent.  Nothing gets
\* lost even when they overlap.  (folders/route.py:104-164, 230-243; files/route.py:217-246)
ImplementsLibrary == Lib!Spec

\* Every call is answered, also when the folders above it have been moved into a cycle.
\* (folders/route.py:236-243)
CallsAreAnswered == \A c \in Calls : pc[c] # "idle" ~> pc[c] \in {"done", "refused", "failed"}
==================================================================================
