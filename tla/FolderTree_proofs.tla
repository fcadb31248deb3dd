---------------------------- MODULE FolderTree_proofs ----------------------------
(***************************************************************************)
(* Proofs about FolderTree, for any folders, files and calls.              *)
(***************************************************************************)
EXTENDS FolderTree, TLAPS

\* What a call has set by the time it stands where it stands.
CallOK(c) ==
    /\ Active(c) => folder[c] \in Folders
    /\ pc[c] \in {"target", "walk", "checked"} => target[c] \in Folders /\ target[c] # folder[c]
    /\ pc[c] = "walk" => cur[c] \in Folders

\* What a delete has written, and where to, stays there until it commits.
LocksHold == \A c \in Calls : \A g \in Locked(c) : Exists(g) /\ Valid(was[c])

\* The inductive invariant behind types and foreign keys.
LibraryInv == TypeOK /\ NothingDangles /\ LocksHold /\ \A c \in Calls : CallOK(c)

\* What a call that is not stale knows about the tree.  The walk has passed a set of folders
\* that contains the new parent, not the folder to move, and every parent but where it is.
Current(c) ==
    /\ Active(c) => Exists(folder[c]) /\ was[c] = parent[folder[c]]
    /\ pc[c] \in {"walk", "checked"} =>
         /\ folder[c] \notin visited[c]
         /\ target[c] \in visited[c] \union {cur[c]}
         /\ \A g \in visited[c] : parent[g] \in visited[c] \union {cur[c], Root}
    /\ pc[c] = "walk" => cur[c] # folder[c]
    /\ pc[c] = "checked" => cur[c] \in visited[c] \union {Root}
    /\ pc[c] \in {"listed", "ready"} => children[c] = {g \in Folders : parent[g] = folder[c]}
    /\ pc[c] = "ready" => contents[c] = {x \in Files : place[x] = folder[c]}

TreeInv ==
    /\ TreeUnlessOverlap
    /\ \A c \in Calls : ~stale[c] => Current(c)
    /\ \A c \in Calls : pc[c] \in {"idle", "target"} => visited[c] = {}

-----------------------------------------------------------------------------
LEMMA LibraryInvInit == Init => LibraryInv
<1> SUFFICES ASSUME Init PROVE LibraryInv
  OBVIOUS
<1>1. TypeOK
  BY DEF Init, TypeOK, Locations, PcStates
<1>2. NothingDangles
  BY Sentinels DEF Init, NothingDangles, Exists, Valid, Locations
<1>3. \A c \in Calls : CallOK(c)
  BY DEF Init, CallOK, Active
<1>4. LocksHold
  BY DEF Init, LocksHold, Locked
<1> QED BY <1>1, <1>2, <1>3, <1>4 DEF LibraryInv

\* The observers stay truth values.
LEMMA ObserverTypes ==
  ASSUME TypeOK, NEW c \in Calls, NEW done \in SUBSET Calls
  PROVE  /\ Outdate(done) => stale' \in [Calls -> BOOLEAN]
         /\ (overlap \/ stale[c]) \in BOOLEAN
<1>1. ASSUME NEW d \in Calls
      PROVE  (IF d \in done THEN stale[d] ELSE stale[d] \/ Active(d)) \in BOOLEAN
  BY DEF TypeOK
<1>2. Outdate(done) => stale' \in [Calls -> BOOLEAN]
  BY <1>1 DEF Outdate
<1>3. (overlap \/ stale[c]) \in BOOLEAN
  OBVIOUS
<1> QED BY <1>2, <1>3

\* The steps that write neither a folder nor a file.
Reads(c) ==
    \/ \E f, t \in Folders : BeginMove(c, f, t)
    \/ \E f \in Folders : BeginDelete(c, f)
    \/ LoadTarget(c) \/ Walk(c) \/ ListChildren(c) \/ ListFiles(c) \/ Deadlock(c)

LEMMA ReadsKeepLibraryInv ==
  ASSUME LibraryInv, NEW c \in Calls, Reads(c)
  PROVE  LibraryInv'
<1> USE DEF LibraryInv, TypeOK, walkVars, listVars
<1>1. UNCHANGED <<parent, place, stale, overlap>>
  BY DEF Reads, BeginMove, BeginDelete, LoadTarget, Walk, ListChildren, ListFiles, Deadlock
<1>2. TypeOK' /\ \A d \in Calls : CallOK(d)'
  <2> USE Sentinels DEF CallOK, Exists, Active, Locations, PcStates, Reads
  <2>1. ASSUME NEW f \in Folders, NEW t \in Folders, BeginMove(c, f, t)
        PROVE  TypeOK' /\ \A d \in Calls : CallOK(d)'
    BY <2>1 DEF BeginMove
  <2>2. ASSUME NEW f \in Folders, BeginDelete(c, f) PROVE TypeOK' /\ \A d \in Calls : CallOK(d)'
    BY <2>2 DEF BeginDelete
  <2>3. CASE LoadTarget(c)
    BY <2>3 DEF LoadTarget
  <2>4. CASE Walk(c)
    BY <2>4 DEF Walk
  <2>5. CASE ListChildren(c) \/ Deadlock(c)
    BY <2>5 DEF ListChildren, Deadlock
  <2>6. CASE ListFiles(c)
    BY <2>6 DEF ListFiles
  <2> QED BY <2>1, <2>2, <2>3, <2>4, <2>5, <2>6
<1>3. NothingDangles'
  BY <1>1 DEF NothingDangles, Valid, Exists
<1>4. LocksHold'
  <2>1. \A d \in Calls \ {c} : Locked(d)' = Locked(d) /\ was'[d] = was[d]
    BY DEF Reads, BeginMove, BeginDelete, LoadTarget, Walk, ListChildren, ListFiles, Deadlock,
           Locked, Moved
  <2>2. \A g \in Locked(c)' : Exists(g) /\ Valid(was'[c])
    <3>1. CASE ListFiles(c)
      BY <3>1 DEF ListFiles, Locked, Moved
    <3>2. CASE ~ListFiles(c)
      <4>1. pc'[c] # "ready"
        BY <3>2 DEF Reads, BeginMove, BeginDelete, LoadTarget, Walk, ListChildren, Deadlock
      <4> QED BY <4>1 DEF Locked
    <3> QED BY <3>1, <3>2
  <2> QED BY <1>1, <2>1, <2>2 DEF LocksHold, Valid, Exists
<1> QED BY <1>2, <1>3, <1>4

LEMMA LibraryInvNext == LibraryInv /\ [Next]_vars => LibraryInv'
<1> SUFFICES ASSUME LibraryInv, [Next]_vars PROVE LibraryInv'
  OBVIOUS
<1> USE Sentinels DEF LibraryInv, TypeOK, NothingDangles, CallOK, LocksHold, Locked, Moved, Exists,
        Valid, Active, Locations, PcStates, Outdate, walkVars, listVars, callVars
<1>1. ASSUME NEW f \in Folders, NEW loc \in Locations, CreateFolder(f, loc) PROVE LibraryInv'
  <2>1. \A l \in Locations : Valid(l) => Valid(l)'
    BY <1>1 DEF CreateFolder
  <2>2. TypeOK' /\ (\A d \in Calls : CallOK(d)') /\ LocksHold'
    BY <1>1, <2>1 DEF CreateFolder
  <2>3. NothingDangles'
    BY <1>1, <2>1 DEF CreateFolder
  <2> QED BY <2>2, <2>3
<1>2. ASSUME NEW x \in Files, NEW loc \in Locations, MoveFile(x, loc) PROVE LibraryInv'
  BY <1>2 DEF MoveFile
<1>3. ASSUME NEW c \in Calls, CommitMove(c) PROVE LibraryInv'
  <2>1. CASE ~Exists(folder[c]) \/ (target[c] # was[c] /\ ~Valid(target[c])) \/ target[c] = was[c]
    BY <1>3, <2>1 DEF CommitMove
  <2>2. CASE Exists(folder[c]) /\ Valid(target[c]) /\ target[c] # was[c]
    <3>1. /\ pc[c] = "checked" /\ pc' = [pc EXCEPT ![c] = "done"]
          /\ parent' = [parent EXCEPT ![folder[c]] = target[c]]
          /\ Outdate({c}) /\ overlap' = (overlap \/ stale[c])
          /\ UNCHANGED <<place, folder, target, was, walkVars, listVars>>
      BY <1>3, <2>2 DEF CommitMove
    <3>2. stale' \in [Calls -> BOOLEAN] /\ overlap' \in BOOLEAN
      BY <3>1, ObserverTypes
    <3>3. TypeOK'
      BY <2>2, <3>1, <3>2
    <3>4. \A l \in Locations : Valid(l) => Valid(l)'
      BY <2>2, <3>1
    <3>5. NothingDangles'
      BY <2>2, <3>1, <3>4
    <3>6. (\A d \in Calls : CallOK(d)') /\ LocksHold'
      BY <2>2, <3>1, <3>4
    <3> QED BY <3>3, <3>5, <3>6
  <2> QED BY <2>1, <2>2
<1>4. ASSUME NEW c \in Calls, CommitDelete(c) PROVE LibraryInv'
  <2> DEFINE f == folder[c]
             files == IF was[c] = f THEN {} ELSE contents[c]
             moved(old, written) == IF written THEN was[c] ELSE IF old = f THEN Root ELSE old
  <2>1. CASE files # {} /\ ~Valid(was[c])
    BY <1>4, <2>1 DEF CommitDelete
  <2>2. CASE files = {} \/ Valid(was[c])
    <3>1. /\ pc[c] = "ready" /\ pc' = [pc EXCEPT ![c] = "done"]
          /\ \A d \in Calls : ~Waits(c, d)
          /\ parent' = [g \in Folders |-> IF g = f THEN Gone ELSE moved(parent[g], g \in Moved(c))]
          /\ place' = [x \in Files |-> moved(place[x], x \in files)]
          /\ Outdate({c}) /\ overlap' = (overlap \/ stale[c])
          /\ UNCHANGED <<folder, target, was, walkVars, listVars>>
      BY <1>4, <2>2 DEF CommitDelete
    <3>2. stale' \in [Calls -> BOOLEAN] /\ overlap' \in BOOLEAN
      BY <3>1, ObserverTypes
    <3>3. children[c] \subseteq Folders /\ contents[c] \subseteq Files /\ f \in Folders
      BY <3>1
    <3>4. TypeOK'
      BY <2>2, <3>1, <3>2
    <3>5. \A g \in Moved(c) : Exists(g) /\ Valid(was[c]) /\ was[c] # f
      BY <3>1
    <3>6. \A g \in Folders : Exists(g) /\ g # f => Exists(g)'
      BY <3>1, <3>4, <3>5
    <3>7. \A loc : Valid(loc) /\ loc # f => Valid(loc)'
      BY <3>6
    <3>8. NothingDangles'
      <4>1. ASSUME NEW g \in Folders, Exists(g)' PROVE Valid(parent[g])'
        <5>1. g # f /\ parent'[g] = moved(parent[g], g \in Moved(c))
          BY <3>1, <4>1
        <5>2. Exists(g)
          BY <3>5, <4>1, <5>1
        <5> QED BY <3>3, <3>5, <3>7, <5>1, <5>2
      <4>2. ASSUME NEW x \in Files PROVE Valid(place[x])'
        <5>1. place'[x] = moved(place[x], x \in files)
          BY <3>1
        <5>2. x \in files => Valid(was[c]) /\ was[c] # f
          BY <2>2
        <5> QED BY <3>3, <3>7, <5>1, <5>2
      <4> QED BY <4>1, <4>2
    <3>9. \A d \in Calls : CallOK(d)'
      BY <3>1
    <3>10. LocksHold'
      <4> SUFFICES ASSUME NEW d \in Calls, NEW g \in Locked(d)' PROVE Exists(g)' /\ Valid(was[d])'
        OBVIOUS
      <4>1. d # c /\ g \in Locked(d) /\ was'[d] = was[d]
        BY <3>1
      <4>2. f # g /\ f # was[d]
        BY <3>1, <4>1 DEF Waits
      <4> QED BY <3>6, <3>7, <4>1, <4>2
    <3> QED BY <3>4, <3>8, <3>9, <3>10
  <2> QED BY <2>1, <2>2
<1>5. CASE UNCHANGED vars
  BY <1>5 DEF vars
<1>6. ASSUME NEW c \in Calls, Reads(c) PROVE LibraryInv'
  BY ONLY LibraryInv, <1>6, ReadsKeepLibraryInv
<1> QED BY <1>1, <1>2, <1>3, <1>4, <1>5, <1>6 DEF Next, CallStep, Quiescent, Reads

\* Types and foreign keys hold in every interleaving.
THEOREM LibraryTypes == Spec => []TypeOK
<1>1. Spec => []LibraryInv
  BY LibraryInvInit, LibraryInvNext, PTL DEF Spec
<1>2. LibraryInv => TypeOK
  BY DEF LibraryInv
<1> QED BY <1>1, <1>2, PTL

\* However moves and deletes overlap, nothing is filed in a folder that is gone.
THEOREM LibraryNothingDangles == Spec => []NothingDangles
<1>1. Spec => []LibraryInv
  BY LibraryInvInit, LibraryInvNext, PTL DEF Spec
<1>2. LibraryInv => NothingDangles
  BY DEF LibraryInv
<1> QED BY <1>1, <1>2, PTL

-----------------------------------------------------------------------------
\* The three ways the tree changes, on a tree without cycles.

\* A new folder has nothing under it.
LEMMA CreateKeepsTree ==
  ASSUME LibraryInv, NoCircularReference, NEW f \in Folders, NEW loc \in Locations,
         parent[f] = Unborn, Valid(loc), parent' = [parent EXCEPT ![f] = loc]
  PROVE  NoCircularReference'
<1> USE Sentinels DEF LibraryInv, TypeOK, Locations
<1> SUFFICES ASSUME NEW group \in SUBSET {g \in Folders : Exists(g)'}, group # {},
                    \A g \in group : parent'[g] \in group
             PROVE  FALSE
  BY DEF NoCircularReference
<1>1. group \subseteq Folders /\ \A g \in group \ {f} : parent'[g] = parent[g] /\ Exists(g)
  BY DEF Exists
<1>2. \A g \in group \ {f} : parent[g] \in group \ {f}
  BY <1>1 DEF NothingDangles, Valid, Exists
<1> DEFINE rest == group \ {f}
<1>3. rest # {}
  BY DEF Valid, Exists
<1>4. rest \in SUBSET {g \in Folders : Exists(g)}
  BY <1>1
<1> QED BY <1>2, <1>3, <1>4 DEF NoCircularReference

\* A folder moves under the members of a set that is closed under parents and does not
\* contain it.
LEMMA MoveKeepsTree ==
  ASSUME TypeOK, NoCircularReference, NEW f \in Folders, NEW passed \in SUBSET Folders,
         f \notin passed, \A g \in passed : parent[g] \in passed \union {Root},
         Exists(f), NEW t \in passed, parent' = [parent EXCEPT ![f] = t]
  PROVE  NoCircularReference'
<1> USE Sentinels DEF TypeOK, Locations
<1> SUFFICES ASSUME NEW group \in SUBSET {g \in Folders : Exists(g)'}, group # {},
                    \A g \in group : parent'[g] \in group
             PROVE  FALSE
  BY DEF NoCircularReference
<1>1. \A g \in group : g \in Folders /\ Exists(g)
  BY DEF Exists
<1>2. CASE f \notin group
  BY <1>1, <1>2 DEF NoCircularReference
<1>3. CASE f \in group
  <2>1. t \in group \intersect passed
    BY <1>3
  <2>2. \A g \in group \intersect passed : parent[g] \in group \intersect passed
    BY <1>1
  <2> QED BY <1>1, <2>1, <2>2 DEF NoCircularReference
<1> QED BY <1>2, <1>3

\* What was under a deleted folder is under its parent.
LEMMA DeleteKeepsTree ==
  ASSUME LibraryInv, NoCircularReference, NEW f \in Folders, Exists(f),
         parent' = [g \in Folders |-> IF g = f THEN Gone
                                     ELSE IF parent[g] = f THEN parent[f] ELSE parent[g]]
  PROVE  NoCircularReference'
<1> USE Sentinels DEF LibraryInv, TypeOK, Locations
<1> SUFFICES ASSUME NEW group \in SUBSET {g \in Folders : Exists(g)'}, group # {},
                    \A g \in group : parent'[g] \in group
             PROVE  FALSE
  BY DEF NoCircularReference
<1>1. f \notin group /\ \A g \in group : g \in Folders /\ Exists(g)
  BY DEF Exists
<1>2. CASE \A g \in group : parent[g] # f
  BY <1>1, <1>2 DEF NoCircularReference
<1>3. CASE \E g \in group : parent[g] = f
  <2>1. parent[f] \in group
    BY <1>1, <1>3
  <2> DEFINE wider == group \union {f}
  <2>2. \A g \in wider : parent[g] \in wider
    BY <1>1, <2>1
  <2>3. wider \in SUBSET {g \in Folders : Exists(g)} /\ wider # {}
    BY <1>1
  <2> QED BY <2>2, <2>3 DEF NoCircularReference
<1> QED BY <1>2, <1>3

-----------------------------------------------------------------------------
\* Who is not at work knows nothing, and who is not touched knows what it knew.
LEMMA CurrentIdle ==
  ASSUME NEW d \in Calls, ~Active(d)'
  PROVE  Current(d)'
BY DEF Current, Active

LEMMA CurrentFrame ==
  ASSUME NEW d \in Calls, Current(d), UNCHANGED <<parent, place>>,
         pc'[d] = pc[d], folder'[d] = folder[d], target'[d] = target[d], was'[d] = was[d],
         cur'[d] = cur[d], visited'[d] = visited[d],
         children'[d] = children[d], contents'[d] = contents[d]
  PROVE  Current(d)'
BY DEF Current, Active, Exists

\* After a commit everyone still at work is stale.
LEMMA CurrentAfterCommit ==
  ASSUME NEW done \in SUBSET Calls, Outdate(done), \A d \in done : ~Active(d)',
         \A d \in Calls \ done : pc'[d] = pc[d]
  PROVE  \A d \in Calls : ~stale'[d] => Current(d)'
<1> SUFFICES ASSUME NEW d \in Calls, ~stale'[d] PROVE Current(d)'
  OBVIOUS
<1>1. ~Active(d)'
  BY DEF Outdate, Active
<1> QED BY <1>1, CurrentIdle

LEMMA TreeInvReads ==
  ASSUME LibraryInv, TreeInv, NEW c \in Calls, Reads(c)
  PROVE  TreeInv'
<1> USE DEF LibraryInv, TypeOK, walkVars, listVars, Reads
<1>1. UNCHANGED <<parent, place, stale, overlap>>
  BY DEF BeginMove, BeginDelete, LoadTarget, Walk, ListChildren, ListFiles, Deadlock
<1>2. TreeUnlessOverlap'
  BY <1>1 DEF TreeInv, TreeUnlessOverlap, NoCircularReference, Exists
<1>3. \A d \in Calls \ {c} :
          /\ pc'[d] = pc[d] /\ folder'[d] = folder[d] /\ target'[d] = target[d]
          /\ was'[d] = was[d] /\ cur'[d] = cur[d] /\ visited'[d] = visited[d]
          /\ children'[d] = children[d] /\ contents'[d] = contents[d]
  BY DEF BeginMove, BeginDelete, LoadTarget, Walk, ListChildren, ListFiles, Deadlock
<1>4. ASSUME NEW d \in Calls, d # c, ~stale'[d] PROVE Current(d)'
  BY <1>1, <1>3, <1>4, CurrentFrame DEF TreeInv
<1>5. ASSUME ~stale'[c] PROVE Current(c)'
  <2>0. Current(c) /\ CallOK(c) /\ (pc[c] = "target" => visited[c] = {})
    BY <1>1, <1>5 DEF TreeInv
  <2>1. ASSUME NEW f \in Folders, NEW t \in Folders, BeginMove(c, f, t) PROVE Current(c)'
    BY <2>1 DEF BeginMove, Current, Active, Exists
  <2>2. ASSUME NEW f \in Folders, BeginDelete(c, f) PROVE Current(c)'
    BY <2>2 DEF BeginDelete, Current, Active, Exists
  <2>3. CASE LoadTarget(c)
    BY <2>0, <2>3 DEF LoadTarget, Current, CallOK, Active, Exists
  <2>4. CASE Walk(c)
    <3> DEFINE above == parent[cur[c]]
    <3>1. CASE ~Exists(cur[c]) \/ above = folder[c]
      <4>1. pc' = [pc EXCEPT ![c] = "refused"]
        BY <2>4, <3>1 DEF Walk
      <4> QED BY <4>1, CurrentIdle DEF Active
    <3>2. CASE Exists(cur[c]) /\ above # folder[c]
      <4>1. /\ pc[c] = "walk" /\ cur[c] \in Folders /\ cur[c] # folder[c]
            /\ visited'[c] = visited[c] \union {cur[c]}
            /\ cur'[c] = above
            /\ pc'[c] \in {"walk", "checked"}
            /\ pc'[c] = "checked" => above \in visited'[c] \union {Root}
            /\ folder'[c] = folder[c] /\ target'[c] = target[c] /\ was'[c] = was[c]
        BY <2>0, <2>4, <3>2 DEF Walk, Current, CallOK
      <4>2. \A g \in visited'[c] : parent[g] \in visited'[c] \union {cur'[c], Root}
        BY <2>0, <4>1 DEF Current
      <4>3. folder[c] \notin visited'[c] /\ target[c] \in visited'[c] \union {cur'[c]}
        BY <2>0, <4>1 DEF Current
      <4>4. Exists(folder[c]) /\ was[c] = parent[folder[c]]
        BY <2>0, <4>1 DEF Current, Active
      <4> QED BY <1>1, <3>2, <4>1, <4>2, <4>3, <4>4 DEF Current, Exists
    <3> QED BY <3>1, <3>2
  <2>5. CASE ListChildren(c)
    BY <2>0, <2>5 DEF ListChildren, Current, Active, Exists
  <2>6. CASE ListFiles(c)
    BY <2>0, <2>6 DEF ListFiles, Current, Active, Exists
  <2>7. CASE Deadlock(c)
    <3>1. ~Active(c)'
      BY <2>7 DEF Deadlock, Active
    <3> QED BY <3>1, CurrentIdle
  <2> QED BY <2>1, <2>2, <2>3, <2>4, <2>5, <2>6, <2>7
<1>6. \A d \in Calls : pc'[d] \in {"idle", "target"} => visited'[d] = {}
  <2>1. pc'[c] \in {"idle", "target"} => visited'[c] = {}
    BY DEF BeginMove, BeginDelete, LoadTarget, Walk, ListChildren, ListFiles, Deadlock, TreeInv
  <2> QED BY <1>3, <2>1 DEF TreeInv
<1> QED BY <1>2, <1>4, <1>5, <1>6 DEF TreeInv

\* A commit of a call that is not stale leaves a tree; that of a stale call is recorded.
LEMMA TreeInvCommits ==
  ASSUME LibraryInv, TreeInv, NEW c \in Calls, CommitMove(c) \/ CommitDelete(c)
  PROVE  TreeInv'
<1> USE DEF LibraryInv, TypeOK, walkVars, listVars
<1>1. \A d \in Calls \ {c} : pc'[d] = pc[d]
  BY DEF CommitMove, CommitDelete
<1>2. pc[c] \in {"checked", "ready"} /\ pc'[c] \in {"done", "failed"} /\ UNCHANGED visited
  BY DEF CommitMove, CommitDelete
<1>3. \A d \in Calls : pc'[d] \in {"idle", "target"} => visited'[d] = {}
  BY <1>1, <1>2 DEF TreeInv
<1>4. CASE UNCHANGED <<parent, place, stale, overlap>>
  <2>1. TreeUnlessOverlap'
    BY <1>4 DEF TreeInv, TreeUnlessOverlap, NoCircularReference, Exists
  <2>2. ASSUME NEW d \in Calls, ~stale'[d] PROVE Current(d)'
    <3>1. CASE d = c
      BY <1>2, <3>1, CurrentIdle DEF Active
    <3>2. CASE d # c
      <4>1. UNCHANGED <<folder, target, was, cur, visited, children, contents>>
        BY DEF CommitMove, CommitDelete
      <4> QED BY <1>1, <1>4, <2>2, <3>2, <4>1, CurrentFrame DEF TreeInv
    <3> QED BY <3>1, <3>2
  <2> QED BY <1>3, <2>1, <2>2 DEF TreeInv
<1>5. CASE Outdate({c}) /\ overlap' = (overlap \/ stale[c]) /\ ~UNCHANGED <<parent, place, stale, overlap>>
  <2>1. \A d \in Calls : ~stale'[d] => Current(d)'
    BY <1>1, <1>2, <1>5, CurrentAfterCommit DEF Active
  <2>2. ASSUME ~overlap' PROVE NoCircularReference'
    <3>1. NoCircularReference /\ Current(c) /\ CallOK(c)
      BY <1>5, <2>2 DEF TreeInv, TreeUnlessOverlap
    <3>2. CASE CommitMove(c)
      <4>1. /\ pc[c] = "checked" /\ Exists(folder[c])
            /\ parent' = [parent EXCEPT ![folder[c]] = target[c]]
        BY <1>5, <3>2 DEF CommitMove
      <4>2. /\ folder[c] \in Folders /\ target[c] \in visited[c] /\ folder[c] \notin visited[c]
            /\ \A g \in visited[c] : parent[g] \in visited[c] \union {Root}
        BY <3>1, <4>1, Sentinels DEF Current, CallOK, Active
      <4> QED BY <3>1, <4>1, <4>2, MoveKeepsTree
    <3>3. CASE CommitDelete(c)
      <4> DEFINE f == folder[c]
      <4>1. /\ f \in Folders /\ Exists(f) /\ was[c] = parent[f]
            /\ children[c] = {g \in Folders : parent[g] = f}
        BY <3>1, <3>3 DEF CommitDelete, Current, CallOK, Active
      <4>2. was[c] # f
        <5>1. {f} \in SUBSET {g \in Folders : Exists(g)} /\ {f} # {}
          BY <4>1
        <5>2. \E g \in {f} : parent[g] \notin {f}
          BY ONLY <3>1, <5>1 DEF NoCircularReference
        <5> QED BY ONLY <4>1, <5>2
      <4>3. parent' = [g \in Folders |-> IF g = f THEN Gone
                                        ELSE IF parent[g] = f THEN parent[f] ELSE parent[g]]
        BY <1>5, <3>3, <4>1, <4>2 DEF CommitDelete, Moved
      <4> QED BY <3>1, <4>1, <4>3, DeleteKeepsTree
    <3> QED BY <3>2, <3>3
  <2> QED BY <1>3, <2>1, <2>2 DEF TreeInv, TreeUnlessOverlap
<1> QED BY <1>4, <1>5 DEF CommitMove, CommitDelete

LEMMA TreeInvNext == LibraryInv /\ TreeInv /\ [Next]_vars => TreeInv'
<1> SUFFICES ASSUME LibraryInv, TreeInv, [Next]_vars PROVE TreeInv'
  OBVIOUS
<1>1. ASSUME NEW f \in Folders, NEW loc \in Locations, CreateFolder(f, loc) PROVE TreeInv'
  <2>1. \A d \in Calls : ~stale'[d] => Current(d)'
    BY <1>1, CurrentAfterCommit DEF CreateFolder, callVars
  <2>2. NoCircularReference => NoCircularReference'
    BY <1>1, CreateKeepsTree DEF CreateFolder
  <2> QED BY <1>1, <2>1, <2>2 DEF TreeInv, TreeUnlessOverlap, CreateFolder, callVars, walkVars
<1>2. ASSUME NEW x \in Files, NEW loc \in Locations, MoveFile(x, loc) PROVE TreeInv'
  <2>1. \A d \in Calls : ~stale'[d] => Current(d)'
    BY <1>2, CurrentAfterCommit DEF MoveFile, callVars
  <2>2. NoCircularReference => NoCircularReference'
    BY <1>2 DEF MoveFile, NoCircularReference, Exists
  <2> QED BY <1>2, <2>1, <2>2 DEF TreeInv, TreeUnlessOverlap, MoveFile, callVars, walkVars
<1>3. CASE UNCHANGED vars
  <2>1. \A d \in Calls : Current(d) => Current(d)'
    BY <1>3, CurrentFrame DEF vars, walkVars, listVars
  <2>2. NoCircularReference => NoCircularReference'
    BY <1>3 DEF vars, NoCircularReference, Exists
  <2> QED BY <1>3, <2>1, <2>2 DEF TreeInv, TreeUnlessOverlap, vars, walkVars
<1> QED BY <1>1, <1>2, <1>3, TreeInvReads, TreeInvCommits DEF Next, CallStep, Quiescent, Reads

LEMMA TreeInvInit == Init => TreeInv
<1>1. ASSUME Init, NEW group \in SUBSET {f \in Folders : Exists(f)}, group # {} PROVE FALSE
  BY <1>1, Sentinels DEF Init, Exists, Locations
<1>2. Init => NoCircularReference
  BY <1>1 DEF NoCircularReference
<1> QED BY <1>2 DEF Init, TreeInv, TreeUnlessOverlap, Current, Active

\* Unless calls overlap, the folders form a tree.
THEOREM FoldersFormATree == Spec => []TreeUnlessOverlap
<1>1. Init => TreeInv
  BY TreeInvInit
<1>2. LibraryInv /\ TreeInv /\ [Next]_vars => LibraryInv' /\ TreeInv'
  BY LibraryInvNext, TreeInvNext
<1>3. TreeInv => TreeUnlessOverlap
  BY DEF TreeInv
<1> QED BY LibraryInvInit, <1>1, <1>2, <1>3, PTL DEF Spec

\* What the run checks in one.
THEOREM LibraryAlwaysStands == Spec => []LibraryStands
BY LibraryNothingDangles, FoldersFormATree, PTL DEF LibraryStands

\* Only a delete makes a folder go, and a delete that is not stale has listed all there is.
LEMMA DeletesRehome ==
  ASSUME LibraryInv, TreeInv, [Next]_vars, NEW f \in Folders PROVE Rehomes(f)
<1> USE Sentinels DEF LibraryInv, TypeOK, Locations, Exists
<1> SUFFICES ASSUME Exists(f), parent'[f] = Gone, ~overlap'
             PROVE  /\ \A g \in Folders \ {f} :
                           parent'[g] = IF parent[g] = f THEN parent[f] ELSE parent[g]
                    /\ \A x \in Files : place'[x] = IF place[x] = f THEN parent[f] ELSE place[x]
  BY DEF Rehomes
<1>1. \E c \in Calls : CommitMove(c) \/ CommitDelete(c)
  BY DEF Next, CallStep, Quiescent, vars, CreateFolder, MoveFile, BeginMove, LoadTarget, Walk,
         BeginDelete, ListChildren, ListFiles, Deadlock, Valid
<1>2. PICK c \in Calls : CommitMove(c) \/ CommitDelete(c)
  BY <1>1
<1>3. ~CommitMove(c)
  <2> SUFFICES ASSUME CommitMove(c) PROVE FALSE
    OBVIOUS
  <2>1. pc[c] = "checked" /\ target[c] \in Folders
    BY DEF CommitMove, CallOK
  <2> QED BY <2>1 DEF CommitMove
<1>4. CommitDelete(c) /\ folder[c] = f /\ overlap' = (overlap \/ stale[c])
  BY <1>2, <1>3 DEF CommitDelete, CallOK, Active
<1>5. Current(c) /\ pc[c] = "ready"
  BY <1>4 DEF TreeInv, CommitDelete
<1>6. /\ was[c] = parent[f]
      /\ children[c] = {g \in Folders : parent[g] = f}
      /\ contents[c] = {x \in Files : place[x] = f}
  BY <1>4, <1>5 DEF Current, Active
<1>7. parent[f] # f
  <2>1. {f} \in SUBSET {g \in Folders : Exists(g)} /\ {f} # {}
    OBVIOUS
  <2>2. NoCircularReference
    BY <1>4 DEF TreeInv, TreeUnlessOverlap
  <2>3. \E g \in {f} : parent[g] \notin {f}
    BY ONLY <2>1, <2>2 DEF NoCircularReference
  <2> QED BY ONLY <2>3
<1> QED BY <1>4, <1>6, <1>7 DEF CommitDelete, Moved

\* Unless calls overlap, deleting a folder loses nothing that was in it.
THEOREM DeletesKeepContents == Spec => DeleteKeepsContents
<1>1. Init => TreeInv
  BY TreeInvInit
<1>2. LibraryInv /\ TreeInv /\ [Next]_vars => LibraryInv' /\ TreeInv'
  BY LibraryInvNext, TreeInvNext
<1>3. LibraryInv /\ TreeInv /\ [Next]_vars => [\A f \in Folders : Rehomes(f)]_vars
  BY DeletesRehome
<1> QED BY LibraryInvInit, <1>1, <1>2, <1>3, PTL DEF Spec, DeleteKeepsContents

-----------------------------------------------------------------------------
\* The refinement of Library.

\* However calls overlap, a deleted folder is not found again and no id is given back: the
\* rows a delete has written still exist.
LEMMA DeletedStaysDeleted ==
  ASSUME LibraryInv, [Next]_vars, NEW f \in Folders
  PROVE  /\ parent[f] = Gone => parent'[f] = Gone
         /\ parent'[f] = Unborn => parent[f] = Unborn
         /\ overlap => overlap'
<1> USE Sentinels DEF LibraryInv, TypeOK, Locations, Exists
<1>1. ASSUME NEW g \in Folders, NEW loc \in Locations, CreateFolder(g, loc)
      PROVE  /\ parent[f] = Gone => parent'[f] = Gone
             /\ parent'[f] = Unborn => parent[f] = Unborn
             /\ overlap => overlap'
  BY <1>1 DEF CreateFolder
<1>2. ASSUME NEW c \in Calls, CommitMove(c)
      PROVE  /\ parent[f] = Gone => parent'[f] = Gone
             /\ parent'[f] = Unborn => parent[f] = Unborn
             /\ overlap => overlap'
  <2>1. target[c] \in Folders
    BY <1>2 DEF CommitMove, CallOK
  <2> QED BY <1>2, <2>1 DEF CommitMove
<1>3. ASSUME NEW c \in Calls, CommitDelete(c)
      PROVE  /\ parent[f] = Gone => parent'[f] = Gone
             /\ parent'[f] = Unborn => parent[f] = Unborn
             /\ overlap => overlap'
  <2>1. f \in Moved(c) => Exists(f)
    BY <1>3 DEF CommitDelete, LocksHold, Locked
  <2> QED BY <1>3, <2>1 DEF CommitDelete
<1>4. CASE UNCHANGED <<parent, overlap>>
  BY <1>4
<1> QED BY <1>1, <1>2, <1>3, <1>4
        DEF Next, CallStep, Quiescent, vars, MoveFile, BeginMove, LoadTarget, Walk,
            BeginDelete, ListChildren, ListFiles, Deadlock

\* What a move that is not stale has walked shows that the new parent is not under the folder.
LEMMA MoveIsClear ==
  ASSUME LibraryInv, TreeInv, NEW c \in Calls, CommitMove(c), ~stale[c],
         ~UNCHANGED <<parent, place, overlap>>
  PROVE  Lib!Move(folder[c], target[c])
<1> USE Sentinels DEF LibraryInv, TypeOK, Locations
<1>1. /\ pc[c] = "checked" /\ Exists(folder[c]) /\ Valid(target[c])
      /\ parent' = [parent EXCEPT ![folder[c]] = target[c]]
      /\ UNCHANGED place
  BY DEF CommitMove
<1>2. /\ folder[c] \in Folders /\ target[c] \in visited[c] /\ folder[c] \notin visited[c]
      /\ \A g \in visited[c] : parent[g] \in visited[c] \union {Root}
  BY <1>1 DEF TreeInv, Current, CallOK, Active
<1>3. visited[c] \in SUBSET (Folders \ {folder[c]})
  BY <1>2
<1>4. Lib!Clear(folder[c], target[c])
  BY <1>2, <1>3 DEF Lib!Clear
<1>5. Exists(target[c])
  BY <1>1, <1>2, <1>3 DEF Valid
<1> QED BY <1>1, <1>4, <1>5 DEF Lib!Move, Lib!Exists, Lib!Locations, Exists

\* Each step is one of Library's, or leaves the library alone.
LEMMA LibraryStep ==
  ASSUME LibraryInv, TreeInv, [Next]_vars, LibraryInv'
  PROVE  [Lib!Next]_<<parent, place, overlap>>
<1> SUFFICES ASSUME ~UNCHANGED <<parent, place, overlap>> PROVE Lib!Next
  OBVIOUS
<1>1. CASE overlap'
  <2>1. parent' \in [Folders -> Locations \union {Unborn, Gone}] /\ place' \in [Files -> Locations]
    BY DEF LibraryInv, TypeOK
  <2>2. \A f \in Folders : Lib!Exists(f)' => Lib!Valid(parent[f])'
    BY DEF LibraryInv, NothingDangles, Exists, Valid, Locations,
           Lib!Exists, Lib!Valid, Lib!Locations
  <2>3. \A x \in Files : Lib!Valid(place[x])'
    BY DEF LibraryInv, NothingDangles, Exists, Valid, Locations,
           Lib!Exists, Lib!Valid, Lib!Locations
  <2> QED BY <1>1, <2>1, <2>2, <2>3, DeletedStaysDeleted
          DEF Lib!Next, Lib!Race, Lib!Locations, Locations
<1>2. CASE ~overlap'
  <2> USE DEF Lib!Next, Lib!Serial
  <2>1. overlap = FALSE /\ overlap' = FALSE
    BY <1>2 DEF Next, CallStep, Quiescent, vars, CreateFolder, MoveFile, BeginMove, LoadTarget,
                Walk, CommitMove, BeginDelete, ListChildren, ListFiles, CommitDelete, Deadlock,
                LibraryInv, TypeOK
  <2>2. ASSUME NEW f \in Folders, NEW loc \in Locations, CreateFolder(f, loc) PROVE Lib!Next
    <3>1. Lib!Create(f, loc)
      BY <2>2 DEF CreateFolder, Lib!Create, Valid, Exists, Lib!Valid, Lib!Exists, Lib!Locations,
                  Locations
    <3> QED BY <2>1, <3>1 DEF Locations, Lib!Locations
  <2>3. ASSUME NEW x \in Files, NEW loc \in Locations, MoveFile(x, loc) PROVE Lib!Next
    <3>1. Lib!File(x, loc)
      BY <2>3 DEF MoveFile, Lib!File, Valid, Exists, Lib!Valid, Lib!Exists, Lib!Locations,
                  Locations
    <3> QED BY <2>1, <3>1 DEF Locations, Lib!Locations
  <2>4. ASSUME NEW c \in Calls, CommitMove(c) PROVE Lib!Next
    <3>1. ~stale[c]
      BY <2>1, <2>4 DEF CommitMove
    <3>2. folder[c] \in Folders /\ target[c] \in Folders
      BY <2>4 DEF CommitMove, LibraryInv, CallOK, Active
    <3> QED BY <2>1, <2>4, <3>1, <3>2, MoveIsClear
  <2>5. ASSUME NEW c \in Calls, CommitDelete(c) PROVE Lib!Next
    <3> DEFINE f == folder[c]
    <3>1. f \in Folders /\ Exists(f) /\ parent'[f] = Gone
      <4>1. overlap' = (overlap \/ stale[c]) /\ parent'[f] = Gone /\ f \in Folders
        BY <2>5 DEF CommitDelete, LibraryInv, TypeOK, CallOK, Active
      <4> QED BY <2>1, <2>5, <4>1 DEF CommitDelete, TreeInv, Current, Active
    <3>2. /\ \A g \in Folders \ {f} : parent'[g] = IF parent[g] = f THEN parent[f] ELSE parent[g]
          /\ \A x \in Files : place'[x] = IF place[x] = f THEN parent[f] ELSE place[x]
      BY <2>1, <3>1, DeletesRehome DEF Rehomes
    <3>3. /\ parent' = [g \in Folders |-> IF g = f THEN Gone
                                         ELSE IF parent[g] = f THEN parent[f] ELSE parent[g]]
          /\ place' = [x \in Files |-> IF place[x] = f THEN parent[f] ELSE place[x]]
      BY <3>1, <3>2 DEF LibraryInv, TypeOK
    <3>4. Lib!Delete(f)
      BY <3>1, <3>3 DEF Lib!Delete, Lib!Exists, Exists, Lib!Locations, Locations
    <3> QED BY <2>1, <3>1, <3>4
  <2> QED BY <2>2, <2>3, <2>4, <2>5
          DEF Next, CallStep, Quiescent, vars, BeginMove, LoadTarget, Walk,
              BeginDelete, ListChildren, ListFiles, Deadlock
<1> QED BY <1>1, <1>2 DEF LibraryInv, TypeOK

\* To their users the calls are Library's single steps, for any folders, files and calls.
THEOREM LibraryImplemented == Spec => ImplementsLibrary
<1>1. Init => Lib!Init
  BY DEF Init, Lib!Init
<1>2. LibraryInv /\ TreeInv /\ [Next]_vars => LibraryInv' /\ TreeInv'
  BY LibraryInvNext, TreeInvNext
<1>3. LibraryInv /\ TreeInv /\ [Next]_vars /\ LibraryInv' => [Lib!Next]_<<parent, place, overlap>>
  BY LibraryStep
<1> QED BY LibraryInvInit, TreeInvInit, <1>1, <1>2, <1>3, PTL
        DEF Spec, ImplementsLibrary, Lib!Spec

==================================================================================
