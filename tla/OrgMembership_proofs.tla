--------------------------- MODULE OrgMembership_proofs --------------------------
(***************************************************************************)
(* Proofs about OrgMembership, for any organizations, users, ids and       *)
(* calls.                                                                  *)
(***************************************************************************)
EXTENDS OrgMembership, TLAPS

PcStates == {"idle", "invites", "members", "invite", "member", "ready"}

\* What a call has been asked by the time it stands where it stands.  An invite that is being
\* accepted is still the one that was read, but for its status.
ReqOK(c) ==
    LET r == req[c]
    IN  /\ pc[c] = "invites" => r.op = "invite"
        /\ pc[c] = "members" => r.op \in {"invite", "accept"}
        /\ pc[c] = "invite" => r.op = "revoke"
        /\ pc[c] = "member" => r.op \in {"role", "remove"}
        /\ pc[c] # "idle" /\ r.op \in {"invite", "accept", "add", "role"} => r.user \in Users /\ r.role \in Roles
        /\ pc[c] # "idle" /\ r.op = "add" => r.actor = Platform
        /\ pc[c] # "idle" /\ r.op = "accept" =>
              /\ r.row \in used
              /\ \A i \in invites : i.id = r.row => i.user = r.user /\ i.org = r.org /\ i.role = r.role

\* An id is used once, of an organization as of a row.
IdsUsedOnce ==
    /\ live \intersect dead = {}
    /\ \A i \in invites : i.id \in used
    /\ \A m \in members : m.id \in used
    /\ \A i, j \in invites : i.id = j.id => i = j
    /\ \A m, n \in members : m.id = n.id => m = n

\* The inductive invariant behind the constraints of the tables.
TablesInv ==
    /\ TypeOK
    /\ OneMembershipPerUser
    /\ NoOrphans
    /\ IdsUsedOnce
    /\ \A c \in Calls : ReqOK(c)

LEMMA IdleIsRequest == Idle \in Requests
BY DEF Idle, Requests, Ops

LEMMA TablesInvInit == Init => TablesInv
<1> SUFFICES ASSUME Init PROVE TablesInv
  OBVIOUS
<1>1. TypeOK
  BY IdleIsRequest DEF Init, TypeOK
<1>2. OneMembershipPerUser /\ NoOrphans /\ IdsUsedOnce
  BY DEF Init, OneMembershipPerUser, NoOrphans, IdsUsedOnce
<1>3. \A c \in Calls : ReqOK(c)
  BY DEF Init, ReqOK
<1> QED BY <1>1, <1>2, <1>3 DEF TablesInv

-----------------------------------------------------------------------------
\* A step that leaves the tables alone.
LEMMA QuietStep ==
  ASSUME TablesInv, NEW c \in Calls, NEW next \in PcStates, NEW r \in Requests,
         pc' = [pc EXCEPT ![c] = next], req' = [req EXCEPT ![c] = r],
         stale' \in [Calls -> BOOLEAN], UNCHANGED <<tables, overlap>>, ReqOK(c)'
  PROVE  TablesInv'
<1> USE DEF TablesInv, tables
<1>1. TypeOK'
  BY DEF TypeOK, PcStates
<1>2. OneMembershipPerUser' /\ NoOrphans' /\ IdsUsedOnce'
  BY DEF OneMembershipPerUser, NoOrphans, IdsUsedOnce
<1>3. ASSUME NEW d \in Calls, d # c PROVE ReqOK(d)'
  BY <1>3 DEF ReqOK, TypeOK
<1> QED BY <1>1, <1>2, <1>3

LEMMA ProceedStep ==
  ASSUME TablesInv, NEW c \in Calls, NEW allowed \in BOOLEAN, NEW next \in PcStates, NEW r \in Requests,
         Proceed(c, allowed, next, r),
         allowed => ReqOK(c)'
  PROVE  TablesInv'
<1>1. stale' \in [Calls -> BOOLEAN] /\ UNCHANGED <<tables, overlap>>
  BY DEF TablesInv, TypeOK, Proceed
<1>2. CASE allowed
  <2>1. pc' = [pc EXCEPT ![c] = next] /\ req' = [req EXCEPT ![c] = r]
    BY <1>2 DEF Proceed
  <2> QED BY <1>1, <1>2, <2>1, QuietStep
<1>3. CASE ~allowed
  <2>1. pc' = [pc EXCEPT ![c] = "idle"] /\ req' = [req EXCEPT ![c] = Idle]
    BY <1>3 DEF Proceed
  <2>2. ReqOK(c)'
    BY <2>1 DEF ReqOK, TablesInv, TypeOK
  <2> QED BY <1>1, <2>1, <2>2, IdleIsRequest, QuietStep DEF PcStates
<1> QED BY <1>2, <1>3

LEMMA RollBackStep ==
  ASSUME TablesInv, NEW c \in Calls, RollBack(c)
  PROVE  TablesInv'
BY IdleIsRequest, ProceedStep DEF RollBack, PcStates

\* The first query of a call settles what it is asked, and starts it.
LEMMA BeginsAsRequest ==
  ASSUME TablesInv, NEW c \in Calls, BeginStep(c)
  PROVE  \E next \in PcStates \ {"idle"}, r \in Requests : Begin(c, next, r) /\ ReqOK(c)'
<1> USE DEF Asked, Idle
<1> USE Distinct DEF Begin, ReqOK, Requests, Ops, PcStates, TablesInv, TypeOK, IdsUsedOnce, Membership,
        Invite, tables
<1>1. ASSUME NEW o \in Orgs, NEW a \in Users \union {Platform}, NEW u \in Users, NEW r \in Roles,
             BeginInvite(c, a, o, u, r)
      PROVE  \E next \in PcStates \ {"idle"}, q \in Requests : Begin(c, next, q) /\ ReqOK(c)'
  <2> DEFINE q == [Asked("invite", a) EXCEPT !.org = o, !.user = u, !.role = r]
  <2>1. q \in Requests /\ Begin(c, "invites", q) /\ ReqOK(c)'
    BY <1>1 DEF BeginInvite
  <2> QED BY <2>1
<1>2. ASSUME NEW o \in Orgs, NEW a \in Users \union {Platform}, NEW i \in invites,
             BeginRevoke(c, a, o, i.id)
      PROVE  \E next \in PcStates \ {"idle"}, q \in Requests : Begin(c, next, q) /\ ReqOK(c)'
  <2> DEFINE q == [Asked("revoke", a) EXCEPT !.org = o, !.row = i.id]
  <2>1. q \in Requests /\ Begin(c, "invite", q) /\ ReqOK(c)'
    BY <1>2 DEF BeginRevoke
  <2> QED BY <2>1
<1>3. ASSUME NEW o \in Orgs, NEW a \in Users \union {Platform}, NEW m \in members,
             BeginRemove(c, a, o, m.user)
      PROVE  \E next \in PcStates \ {"idle"}, q \in Requests : Begin(c, next, q) /\ ReqOK(c)'
  <2> DEFINE q == [Asked("remove", a) EXCEPT !.org = o, !.user = m.user]
  <2>1. q \in Requests /\ Begin(c, "member", q) /\ ReqOK(c)'
    BY <1>3 DEF BeginRemove
  <2> QED BY <2>1
<1>4. ASSUME NEW o \in Orgs, NEW a \in Users \union {Platform}, NEW m \in members, NEW r \in Roles,
             BeginRole(c, a, o, m.user, r)
      PROVE  \E next \in PcStates \ {"idle"}, q \in Requests : Begin(c, next, q) /\ ReqOK(c)'
  <2> DEFINE q == [Asked("role", a) EXCEPT !.org = o, !.user = m.user, !.role = r]
  <2>1. q \in Requests /\ Begin(c, "member", q) /\ ReqOK(c)'
    BY <1>4 DEF BeginRole
  <2> QED BY <2>1
<1>5. ASSUME NEW o \in Orgs, NEW u \in Users, NEW r \in Roles, BeginAdd(c, o, u, r)
      PROVE  \E next \in PcStates \ {"idle"}, q \in Requests : Begin(c, next, q) /\ ReqOK(c)'
  <2> DEFINE q == [Asked("add", Platform) EXCEPT !.org = o, !.user = u, !.role = r]
  <2>1. q \in Requests /\ Begin(c, "ready", q) /\ ReqOK(c)'
    BY <1>5 DEF BeginAdd
  <2> QED BY <2>1
<1>6. ASSUME NEW u \in Users, NEW i \in invites, IsMine(i, u),
             Begin(c, "ready", [Asked("decline", u) EXCEPT !.user = u, !.row = i.id])
      PROVE  \E next \in PcStates \ {"idle"}, q \in Requests : Begin(c, next, q) /\ ReqOK(c)'
  <2> DEFINE q == [Asked("decline", u) EXCEPT !.user = u, !.row = i.id]
  <2>1. q \in Requests /\ Begin(c, "ready", q) /\ ReqOK(c)'
    BY <1>6
  <2> QED BY <2>1
<1>7. ASSUME NEW u \in Users, NEW m \in members, m.user = u,
             Begin(c, "ready", [Asked("remove", u) EXCEPT !.org = m.org, !.user = u, !.row = m.id])
      PROVE  \E next \in PcStates \ {"idle"}, q \in Requests : Begin(c, next, q) /\ ReqOK(c)'
  <2> DEFINE q == [Asked("remove", u) EXCEPT !.org = m.org, !.user = u, !.row = m.id]
  <2>1. q \in Requests /\ Begin(c, "ready", q) /\ ReqOK(c)'
    BY <1>7
  <2> QED BY <2>1
<1>8. ASSUME NEW u \in Users, NEW i \in invites, IsMine(i, u),
             Begin(c, "members", [Asked("accept", u) EXCEPT !.org = i.org, !.user = u, !.role = i.role,
                                                          !.row = i.id])
      PROVE  \E next \in PcStates \ {"idle"}, q \in Requests : Begin(c, next, q) /\ ReqOK(c)'
  <2> DEFINE q == [Asked("accept", u) EXCEPT !.org = i.org, !.user = u, !.role = i.role, !.row = i.id]
  <2>1. q \in Requests /\ Begin(c, "members", q)
    BY <1>8
  <2>2. ReqOK(c)'
    BY <1>8 DEF IsMine
  <2> QED BY <2>1, <2>2
<1> HIDE DEF Begin, ReqOK, Requests, Ops, PcStates, TablesInv, TypeOK, IdsUsedOnce, Membership,
        Invite, tables
<1> QED BY <1>1, <1>2, <1>3, <1>4, <1>5, <1>6, <1>7, <1>8
        DEF BeginStep, BeginAccept, BeginDecline, BeginLeave

LEMMA BeginStepOK ==
  ASSUME TablesInv, NEW c \in Calls, BeginStep(c)
  PROVE  TablesInv'
<1>1. PICK next \in PcStates \ {"idle"}, r \in Requests : Begin(c, next, r) /\ ReqOK(c)'
  BY BeginsAsRequest
<1> QED BY <1>1, QuietStep DEF Begin, TablesInv, TypeOK

LEMMA CheckStepOK ==
  ASSUME TablesInv, NEW c \in Calls, Check(c)
  PROVE  TablesInv'
<1> DEFINE r == req[c]
<1>1. r \in Requests /\ ReqOK(c)
  BY DEF TablesInv, TypeOK
<1>2. CASE CheckInvites(c)
  <2> DEFINE allowed == ~\E i \in invites : i.org = r.org /\ i.user = r.user /\ i.status = "PENDING"
  <2>1. allowed \in BOOLEAN /\ Proceed(c, allowed, "members", r)
    BY <1>2 DEF CheckInvites
  <2>2. allowed => ReqOK(c)'
    BY <1>1, <1>2, <2>1 DEF CheckInvites, Proceed, ReqOK, TablesInv, TypeOK, tables
  <2> QED BY ONLY TablesInv, c \in Calls, <1>1, <2>1, <2>2, ProceedStep DEF PcStates
<1>3. CASE CheckMember(c)
  <2> DEFINE allowed == ~IsMember(r.user)
  <2>1. allowed \in BOOLEAN /\ Proceed(c, allowed, "ready", r)
    BY <1>3 DEF CheckMember, IsMember
  <2>2. allowed => ReqOK(c)'
    BY <1>1, <1>3, <2>1 DEF CheckMember, Proceed, ReqOK, TablesInv, TypeOK, tables
  <2> QED BY ONLY TablesInv, c \in Calls, <1>1, <2>1, <2>2, ProceedStep DEF PcStates
<1>4. CASE LoadInvite(c)
  <2> DEFINE allowed == \E i \in invites : i.id = r.row /\ i.org = r.org /\ i.status = "PENDING"
  <2>1. allowed \in BOOLEAN /\ Proceed(c, allowed, "ready", r)
    BY <1>4 DEF LoadInvite
  <2>2. allowed => ReqOK(c)'
    BY <1>1, <1>4, <2>1 DEF LoadInvite, Proceed, ReqOK, TablesInv, TypeOK, tables
  <2> QED BY ONLY TablesInv, c \in Calls, <1>1, <2>1, <2>2, ProceedStep DEF PcStates
<1>5. ASSUME LoadMember(c), NEW m \in members, Proceed(c, TRUE, "ready", [r EXCEPT !.row = m.id])
      PROVE  TablesInv'
  <2>1. [r EXCEPT !.row = m.id] \in Requests
    BY <1>1 DEF Requests, TablesInv, TypeOK, Membership
  <2>2. ReqOK(c)'
    BY <1>1, <1>5 DEF LoadMember, Proceed, ReqOK, TablesInv, TypeOK, tables, Requests
  <2> QED BY <1>5, <2>1, <2>2, ProceedStep DEF PcStates
<1> QED BY <1>2, <1>3, <1>4, <1>5, RollBackStep DEF Check, LoadMember
-----------------------------------------------------------------------------
\* The commits.

\* A commit answers its own call and leaves the others where they stood.  Their requests go
\* on to name rows as they were read, if invites change nothing but their status.
LEMMA FinishStep ==
  ASSUME TablesInv, NEW c \in Calls, Finish(c),
         live' \subseteq Orgs, dead' \subseteq Orgs, used \subseteq used', used' \subseteq Ids,
         members' \subseteq Membership, invites' \subseteq Invite,
         OneMembershipPerUser', NoOrphans', IdsUsedOnce',
         \A j \in invites' : \/ j.id \notin used
                             \/ \E i \in invites : i.id = j.id /\ i.user = j.user /\ i.org = j.org /\ i.role = j.role
  PROVE  TablesInv'
<1>1. stale' \in [Calls -> BOOLEAN] /\ overlap' \in BOOLEAN
  <2>1. (overlap \/ stale[c]) \in BOOLEAN
    OBVIOUS
  <2>2. \A d \in Calls : (~overlap' /\ d \notin {c} /\ (stale[d] \/ pc[d] # "idle")) \in BOOLEAN
    OBVIOUS
  <2> QED BY <2>1, <2>2 DEF Finish, Outdate
<1>2. TypeOK'
  BY <1>1, IdleIsRequest DEF Finish, TablesInv, TypeOK
<1>3. ASSUME NEW d \in Calls PROVE ReqOK(d)'
  <2>1. CASE d = c
    BY <2>1 DEF Finish, ReqOK, TablesInv, TypeOK
  <2>2. CASE d # c
    <3>1. pc'[d] = pc[d] /\ req'[d] = req[d] /\ ReqOK(d)
      BY <2>2 DEF Finish, TablesInv, TypeOK
    <3> QED BY <3>1 DEF ReqOK
  <2> QED BY <2>1, <2>2
<1> QED BY <1>2, <1>3 DEF TablesInv

\* A new membership that the table takes.
LEMMA EnterOK ==
  ASSUME TablesInv, NEW c \in Calls, pc[c] = "ready", req[c].op \in {"accept", "add"},
         Admissible(c), NEW via \in Ids \union {None}, Enter(c, via)
  PROVE  /\ members' \subseteq Membership /\ used \subseteq used' /\ used' \subseteq Ids
         /\ OneMembershipPerUser'
         /\ \A m \in members' : m.id \in used' /\ m.org \in live
         /\ \A m, n \in members' : m.id = n.id => m = n
<1> DEFINE r == req[c]
<1>1. r.user \in Users /\ r.role \in Roles /\ r.org \in live /\ live \subseteq Orgs
  BY DEF TablesInv, TypeOK, ReqOK, Admissible
<1>2. PICK id \in Ids \ used :
         /\ members' = members \union {[id |-> id, user |-> r.user, org |-> r.org, role |-> r.role, via |-> via]}
         /\ used' = used \union {id}
  BY DEF Enter
<1>3. members' \subseteq Membership /\ used \subseteq used' /\ used' \subseteq Ids
  BY <1>1, <1>2 DEF Membership, TablesInv, TypeOK
<1>4. OneMembershipPerUser'
  BY <1>2 DEF OneMembershipPerUser, TablesInv, Admissible, IsMember
<1>5. /\ \A m \in members' : m.id \in used' /\ m.org \in live
      /\ \A m, n \in members' : m.id = n.id => m = n
  BY <1>1, <1>2 DEF TablesInv, IdsUsedOnce, NoOrphans
<1> QED BY <1>3, <1>4, <1>5

\* An answer changes nothing but the status of one invite.
LEMMA AnswerOK ==
  ASSUME TablesInv, NEW c \in Calls, NEW s \in Statuses, Answer(c, s)
  PROVE  /\ invites' \subseteq Invite
         /\ \A j \in invites' : \E i \in invites :
                /\ i.id = j.id /\ i.user = j.user /\ i.org = j.org /\ i.role = j.role
                /\ j.status = IF i.id = req[c].row THEN s ELSE i.status
         /\ \A i \in invites : \E j \in invites' :
                /\ i.id = j.id /\ i.user = j.user /\ i.org = j.org /\ i.role = j.role
                /\ j.status = IF i.id = req[c].row THEN s ELSE i.status
         /\ \A i, j \in invites' : i.id = j.id => i = j
<1> DEFINE answered(i) == IF i.id = req[c].row THEN [i EXCEPT !.status = s] ELSE i
<1>1. \A i \in invites : /\ answered(i) \in Invite
                         /\ answered(i).id = i.id /\ answered(i).user = i.user
                         /\ answered(i).org = i.org /\ answered(i).role = i.role
                         /\ answered(i).status = IF i.id = req[c].row THEN s ELSE i.status
  BY DEF Invite, TablesInv, TypeOK
<1>2. invites' = {answered(i) : i \in invites}
  BY DEF Answer
<1>3. \A j \in invites' : \E i \in invites : j = answered(i)
  BY <1>2
<1>4. \A i \in invites : answered(i) \in invites'
  BY <1>2
<1> HIDE DEF answered
<1>5. ASSUME NEW i \in invites', NEW j \in invites', i.id = j.id PROVE i = j
  <2>1. PICK p \in invites : i = answered(p)
    BY <1>3
  <2>2. PICK q \in invites : j = answered(q)
    BY <1>3
  <2>3. p.id = q.id
    BY <1>1, <1>5, <2>1, <2>2
  <2>4. p = q
    BY <2>3 DEF TablesInv, IdsUsedOnce
  <2> QED BY <2>1, <2>2, <2>4
<1> QED BY <1>1, <1>3, <1>4, <1>5

LEMMA CommitStepOK ==
  ASSUME TablesInv, NEW c \in Calls, CommitStep(c), ~RollBack(c)
  PROVE  TablesInv'
<1> USE DEF TablesInv
<1>1. CASE CommitInvite(c)
  <2>1. PICK id \in Ids \ used :
           /\ invites' = invites \union {[id |-> id, user |-> req[c].user, org |-> req[c].org,
                                          role |-> req[c].role, status |-> "PENDING"]}
           /\ used' = used \union {id}
    BY <1>1 DEF CommitInvite
  <2>2. req[c].org \in live /\ Finish(c) /\ UNCHANGED <<live, dead, members>>
    BY <1>1 DEF CommitInvite
  <2>3. req[c].user \in Users /\ req[c].role \in Roles
    BY <1>1 DEF CommitInvite, Ready, ReqOK
  <2>4. invites' \subseteq Invite /\ used' \subseteq Ids
    BY <2>1, <2>2, <2>3 DEF TypeOK, Invite, Statuses
  <2>5. NoOrphans' /\ IdsUsedOnce' /\ OneMembershipPerUser'
    BY <2>1, <2>2 DEF NoOrphans, IdsUsedOnce, OneMembershipPerUser
  <2>6. \A j \in invites' : j.id \notin used \/ j \in invites
    BY <2>1
  <2>7. live' \subseteq Orgs /\ dead' \subseteq Orgs /\ members' \subseteq Membership /\ used \subseteq used'
    BY <2>1, <2>2 DEF TypeOK
  <2> QED BY <2>2, <2>4, <2>5, <2>6, <2>7, FinishStep
<1>2. CASE CommitRevoke(c)
  <2>1. Finish(c) /\ UNCHANGED <<live, dead, members, used>> /\ invites' \subseteq invites
    BY <1>2 DEF CommitRevoke
  <2>2. OneMembershipPerUser' /\ NoOrphans' /\ IdsUsedOnce'
    BY <2>1 DEF OneMembershipPerUser, NoOrphans, IdsUsedOnce
  <2>3. \A j \in invites' : j \in invites
    BY <2>1
  <2>4. live' \subseteq Orgs /\ dead' \subseteq Orgs /\ members' \subseteq Membership
        /\ invites' \subseteq Invite /\ used' \subseteq Ids /\ used \subseteq used'
    BY <2>1 DEF TypeOK
  <2> QED BY <2>1, <2>2, <2>3, <2>4, FinishStep
<1>3. CASE CommitAccept(c)
  <2>1. /\ pc[c] = "ready" /\ req[c].op = "accept" /\ Admissible(c) /\ Enter(c, req[c].row)
        /\ Answer(c, "ACCEPTED") /\ Finish(c) /\ UNCHANGED <<live, dead>>
    BY <1>3 DEF CommitAccept, Ready
  <2>2. req[c].row \in Ids
    BY <2>1 DEF ReqOK, TypeOK
  <2>3. /\ members' \subseteq Membership /\ used \subseteq used' /\ used' \subseteq Ids
        /\ OneMembershipPerUser'
        /\ \A m \in members' : m.id \in used' /\ m.org \in live'
        /\ \A m, n \in members' : m.id = n.id => m = n
    BY <2>1, <2>2, EnterOK
  <2>4. /\ invites' \subseteq Invite
        /\ \A j \in invites' : \E i \in invites :
               i.id = j.id /\ i.user = j.user /\ i.org = j.org /\ i.role = j.role
        /\ \A i, j \in invites' : i.id = j.id => i = j
    BY <2>1, AnswerOK DEF Statuses
  <2>5. NoOrphans' /\ IdsUsedOnce'
    BY <2>1, <2>3, <2>4 DEF NoOrphans, IdsUsedOnce
  <2>6. live' \subseteq Orgs /\ dead' \subseteq Orgs
    BY <2>1 DEF TypeOK
  <2> QED BY <2>1, <2>3, <2>4, <2>5, <2>6, FinishStep
<1>4. CASE CommitDecline(c)
  <2>1. Answer(c, "DECLINED") /\ Finish(c) /\ UNCHANGED <<live, dead, members, used>>
    BY <1>4 DEF CommitDecline
  <2>2. /\ invites' \subseteq Invite
        /\ \A j \in invites' : \E i \in invites :
               i.id = j.id /\ i.user = j.user /\ i.org = j.org /\ i.role = j.role
        /\ \A i, j \in invites' : i.id = j.id => i = j
    BY <2>1, AnswerOK DEF Statuses
  <2>3. OneMembershipPerUser' /\ NoOrphans' /\ IdsUsedOnce'
    BY <2>1, <2>2 DEF OneMembershipPerUser, NoOrphans, IdsUsedOnce
  <2>4. live' \subseteq Orgs /\ dead' \subseteq Orgs /\ members' \subseteq Membership
        /\ used' \subseteq Ids /\ used \subseteq used'
    BY <2>1 DEF TypeOK
  <2> QED BY <2>1, <2>2, <2>3, <2>4, FinishStep
<1>5. CASE CommitAdd(c)
  <2>1. /\ pc[c] = "ready" /\ req[c].op = "add" /\ Admissible(c) /\ Enter(c, None)
        /\ Finish(c) /\ UNCHANGED <<live, dead, invites>>
    BY <1>5 DEF CommitAdd, Ready
  <2>2. /\ members' \subseteq Membership /\ used \subseteq used' /\ used' \subseteq Ids
        /\ OneMembershipPerUser'
        /\ \A m \in members' : m.id \in used' /\ m.org \in live'
        /\ \A m, n \in members' : m.id = n.id => m = n
    BY <2>1, EnterOK
  <2>3. NoOrphans' /\ IdsUsedOnce'
    BY <2>1, <2>2 DEF NoOrphans, IdsUsedOnce
  <2>4. live' \subseteq Orgs /\ dead' \subseteq Orgs /\ invites' \subseteq Invite
        /\ \A j \in invites' : j \in invites
    BY <2>1 DEF TypeOK
  <2> QED BY <2>1, <2>2, <2>3, <2>4, FinishStep
<1>6. CASE CommitRole(c)
  <2> DEFINE changed(m) == IF m.id = req[c].row THEN [m EXCEPT !.role = req[c].role] ELSE m
  <2>1. /\ members' = {changed(m) : m \in members}
        /\ Finish(c) /\ UNCHANGED <<live, dead, invites, used>>
        /\ req[c].role \in Roles
    BY <1>6 DEF CommitRole, Ready, ReqOK
  <2>2. \A m \in members : /\ changed(m) \in Membership
                           /\ changed(m).id = m.id /\ changed(m).user = m.user /\ changed(m).org = m.org
    BY <2>1 DEF Membership, TypeOK
  <2>3. \A n \in members' : \E m \in members : n = changed(m)
    BY <2>1
  <2> HIDE DEF changed
  <2>4. OneMembershipPerUser'
    BY <2>2, <2>3 DEF OneMembershipPerUser
  <2>5. NoOrphans' /\ IdsUsedOnce' /\ members' \subseteq Membership
    BY <2>1, <2>2, <2>3 DEF NoOrphans, IdsUsedOnce
  <2>6. live' \subseteq Orgs /\ dead' \subseteq Orgs /\ invites' \subseteq Invite
        /\ used' \subseteq Ids /\ used \subseteq used' /\ \A j \in invites' : j \in invites
    BY <2>1 DEF TypeOK
  <2> QED BY <2>1, <2>4, <2>5, <2>6, FinishStep
<1>7. CASE CommitRemove(c)
  <2>1. Finish(c) /\ UNCHANGED <<live, dead, invites, used>> /\ members' \subseteq members
    BY <1>7 DEF CommitRemove
  <2>2. OneMembershipPerUser' /\ NoOrphans' /\ IdsUsedOnce'
    BY <2>1 DEF OneMembershipPerUser, NoOrphans, IdsUsedOnce
  <2>3. live' \subseteq Orgs /\ dead' \subseteq Orgs /\ members' \subseteq Membership
        /\ invites' \subseteq Invite /\ used' \subseteq Ids /\ used \subseteq used'
        /\ \A j \in invites' : j \in invites
    BY <2>1 DEF TypeOK
  <2> QED BY <2>1, <2>2, <2>3, FinishStep
<1> QED BY <1>1, <1>2, <1>3, <1>4, <1>5, <1>6, <1>7 DEF CommitStep

LEMMA OrgStepOK ==
  ASSUME TablesInv, (\E o \in Orgs : CreateOrg(o) \/ DeleteOrg(o)) \/ UNCHANGED vars
  PROVE  TablesInv'
<1> USE DEF TablesInv
<1>1. CASE UNCHANGED vars
  BY <1>1 DEF vars, tables, TypeOK, OneMembershipPerUser, NoOrphans, IdsUsedOnce, ReqOK
<1>2. ASSUME NEW o \in Orgs, CreateOrg(o) \/ DeleteOrg(o) PROVE TablesInv'
  <2>1. /\ members' \subseteq members /\ invites' \subseteq invites
        /\ \A row \in members' \union invites' : row.org \in live'
        /\ live' \subseteq Orgs /\ dead' \subseteq Orgs /\ live' \intersect dead' = {}
        /\ UNCHANGED <<used, pc, req, overlap>> /\ Outdate({})
    BY <1>2 DEF CreateOrg, DeleteOrg, NoOrphans, IdsUsedOnce, TypeOK
  <2>2. \A d \in Calls : (~overlap' /\ d \notin {} /\ (stale[d] \/ pc[d] # "idle")) \in BOOLEAN
    OBVIOUS
  <2>3. stale' \in [Calls -> BOOLEAN]
    BY <2>1, <2>2 DEF Outdate
  <2>4. TypeOK'
    BY <2>1, <2>3 DEF TypeOK
  <2>5. OneMembershipPerUser' /\ NoOrphans' /\ IdsUsedOnce'
    BY <2>1 DEF OneMembershipPerUser, NoOrphans, IdsUsedOnce
  <2>6. \A d \in Calls : ReqOK(d)'
    BY <2>1 DEF ReqOK
  <2> QED BY <2>4, <2>5, <2>6
<1> QED BY <1>1, <1>2

LEMMA TablesInvNext == TablesInv /\ [Next]_vars => TablesInv'
BY BeginStepOK, CheckStepOK, CommitStepOK, RollBackStep, OrgStepOK DEF Next, Exhausted

\* In every interleaving of calls the tables are well typed,
THEOREM OrgTypes == Spec => []TypeOK
<1>1. TablesInv => TypeOK
  BY DEF TablesInv
<1> QED BY TablesInvInit, TablesInvNext, <1>1, PTL DEF Spec

\* nobody is a member twice,
THEOREM OneMembershipEach == Spec => []OneMembershipPerUser
<1>1. TablesInv => OneMembershipPerUser
  BY DEF TablesInv
<1> QED BY TablesInvInit, TablesInvNext, <1>1, PTL DEF Spec

\* and no member and no invite is left of an organization that has been deleted.
THEOREM OrgsLeaveNothing == Spec => []NoOrphans
<1>1. TablesInv => NoOrphans
  BY DEF TablesInv
<1> QED BY TablesInvInit, TablesInvNext, <1>1, PTL DEF Spec

\* What JoinIsRecorded says of one step.
Recorded ==
    \A m \in members' : m.via # None /\ (\A n \in members : n.id # m.id) =>
       /\ \E i \in invites : i.id = m.via
       /\ \E i \in invites' : /\ i.id = m.via /\ i.status = "ACCEPTED"
                             /\ i.user = m.user /\ i.org = m.org /\ i.role = m.role

LEMMA StepRecorded == TablesInv /\ [Next]_vars => Recorded
<1> SUFFICES ASSUME TablesInv, [Next]_vars PROVE Recorded
  OBVIOUS
<1>1. CASE members' \subseteq members
  BY <1>1 DEF Recorded
<1>2. ASSUME NEW c \in Calls, CommitAccept(c), ~RollBack(c) PROVE Recorded
  <2>1. /\ pc[c] = "ready" /\ req[c].op = "accept" /\ Stands(c) /\ Enter(c, req[c].row) /\ Answer(c, "ACCEPTED")
    BY <1>2 DEF CommitAccept, Ready
  <2>2. PICK i \in invites : i.id = req[c].row
    BY <2>1 DEF Stands
  <2>3. i.user = req[c].user /\ i.org = req[c].org /\ i.role = req[c].role
    BY <2>1, <2>2 DEF TablesInv, ReqOK
  <2>4. PICK j \in invites' : /\ i.id = j.id /\ i.user = j.user /\ i.org = j.org /\ i.role = j.role
                              /\ j.status = "ACCEPTED"
    BY <2>1, <2>2, AnswerOK DEF Statuses
  <2>5. PICK id \in Ids \ used :
           members' = members \union {[id |-> id, user |-> req[c].user, org |-> req[c].org,
                                       role |-> req[c].role, via |-> req[c].row]}
    BY <2>1 DEF Enter
  <2>6. ASSUME NEW m \in members', m \notin members PROVE m.via = i.id /\ m.user = i.user /\ m.org = i.org /\ m.role = i.role
    BY <2>2, <2>3, <2>5, <2>6
  <2>7. ASSUME NEW m \in members', \A n \in members : n.id # m.id PROVE m \notin members
    BY <2>7
  <2> QED BY <2>4, <2>6, <2>7 DEF Recorded
<1>3. ASSUME NEW c \in Calls, CommitAdd(c), ~RollBack(c) PROVE Recorded
  <2>1. \A m \in members' : m \in members \/ m.via = None
    BY <1>3 DEF CommitAdd, Enter
  <2> QED BY <2>1 DEF Recorded
<1>4. ASSUME NEW c \in Calls, CommitRole(c), ~RollBack(c) PROVE Recorded
  <2> DEFINE changed(m) == IF m.id = req[c].row THEN [m EXCEPT !.role = req[c].role] ELSE m
  <2>1. members' = {changed(m) : m \in members}
    BY <1>4 DEF CommitRole
  <2>2. \A m \in members : changed(m).id = m.id
    BY DEF Membership, TablesInv, TypeOK
  <2>3. \A m \in members' : \E n \in members : m = changed(n)
    BY <2>1
  <2> HIDE DEF changed
  <2>4. \A m \in members' : \E n \in members : n.id = m.id
    BY <2>2, <2>3
  <2> QED BY <2>4 DEF Recorded
<1>5. ASSUME NEW c \in Calls, BeginStep(c) PROVE members' \subseteq members
  BY <1>5 DEF BeginStep, BeginInvite, BeginRevoke, BeginRemove, BeginRole, BeginAdd, BeginDecline, BeginLeave,
              BeginAccept, Begin, tables
<1>6. ASSUME NEW c \in Calls, Check(c) \/ RollBack(c) PROVE members' \subseteq members
  BY <1>6 DEF Check, CheckInvites, CheckMember, LoadInvite, LoadMember, RollBack, Proceed, tables
<1>7. ASSUME NEW o \in Orgs, CreateOrg(o) \/ DeleteOrg(o) PROVE members' \subseteq members
  BY <1>7 DEF CreateOrg, DeleteOrg
<1>8. CASE UNCHANGED vars
  BY <1>1, <1>8 DEF vars, tables
<1>9. ASSUME NEW c \in Calls, CommitStep(c), ~RollBack(c) PROVE Recorded
  <2>1. CASE CommitInvite(c) \/ CommitRevoke(c) \/ CommitDecline(c) \/ CommitRemove(c)
    <3>1. members' \subseteq members
      BY <1>9, <2>1 DEF CommitInvite, CommitRevoke, CommitDecline, CommitRemove
    <3> QED BY <3>1, <1>1
  <2> QED BY <1>2, <1>3, <1>4, <1>9, <2>1 DEF CommitStep
<1> QED BY <1>1, <1>5, <1>6, <1>7, <1>8, <1>9 DEF Next, Exhausted

\* Whoever joins by an invite joins by one that is there, is theirs, and is answered by it.
THEOREM JoinsAreRecorded == Spec => JoinIsRecorded
<1>1. TablesInv /\ [Next]_vars => [Recorded]_vars
  BY StepRecorded
<1> QED BY TablesInvInit, TablesInvNext, <1>1, PTL DEF Spec, JoinIsRecorded, Recorded

-----------------------------------------------------------------------------
(* What a call knows while nobody has written under it.                      *)

Waiting(i, r) == i.id = r.row /\ i.status = "PENDING"

\* What the checks behind a call have established, of the tables as they are.
Knows(c) ==
    LET r == req[c]
    IN  /\ r.op \in {"invite", "revoke", "role", "add"} => IsAdmin(r.actor, r.org)
        /\ r.op = "remove" => r.actor = r.user \/ IsAdmin(r.actor, r.org)
        /\ r.op = "invite" /\ pc[c] \in {"members", "ready"} =>
              ~\E i \in invites : i.org = r.org /\ i.user = r.user /\ i.status = "PENDING"
        /\ r.op = "invite" /\ pc[c] = "ready" => ~IsMember(r.user)
        /\ r.op \in {"accept", "decline"} => \E i \in invites : Waiting(i, r) /\ i.user = r.actor
        /\ r.op = "revoke" /\ pc[c] = "ready" => \E i \in invites : Waiting(i, r) /\ i.org = r.org
        /\ r.op \in {"role", "remove"} /\ pc[c] = "ready" =>
              \E m \in members : m.id = r.row /\ m.org = r.org /\ m.user = r.user

Informed(c) == pc[c] # "idle" /\ ~stale[c] /\ ~overlap

\* The inductive invariant behind the checks of the calls.
ChecksInv ==
    /\ OnePendingUnlessOverlap
    /\ \A c \in Calls : Informed(c) => Knows(c)

LEMMA ChecksInvInit == Init => ChecksInv
BY DEF Init, ChecksInv, OnePendingUnlessOverlap, OnePendingInvite, Informed

\* A step that leaves the tables alone teaches its own call only.
LEMMA QuietlyKnown ==
  ASSUME TablesInv, ChecksInv, NEW c \in Calls, NEW next \in PcStates, NEW r \in Requests,
         pc' = [pc EXCEPT ![c] = next], req' = [req EXCEPT ![c] = r],
         \A d \in Calls \ {c} : stale'[d] = stale[d],
         UNCHANGED <<tables, overlap>>,
         Informed(c)' => Knows(c)'
  PROVE  ChecksInv'
<1>1. OnePendingUnlessOverlap'
  BY DEF ChecksInv, OnePendingUnlessOverlap, OnePendingInvite, tables
<1>2. ASSUME NEW d \in Calls, Informed(d)' PROVE Knows(d)'
  <2>1. CASE d = c
    BY <1>2, <2>1
  <2>2. CASE d # c
    <3>1. pc'[d] = pc[d] /\ req'[d] = req[d] /\ stale'[d] = stale[d]
      BY <2>2 DEF TablesInv, TypeOK
    <3>2. Knows(d)
      BY <1>2, <3>1 DEF ChecksInv, Informed
    <3> QED BY <3>1, <3>2 DEF Knows, IsAdmin, IsMember, tables
  <2> QED BY <2>1, <2>2
<1> QED BY <1>1, <1>2 DEF ChecksInv

\* After a step that writes nobody who stands anywhere is informed any more.
LEMMA NobodyInformed ==
  ASSUME TablesInv, NEW done \in SUBSET Calls, Outdate(done),
         \A d \in done : pc'[d] = "idle",
         \A d \in Calls \ done : pc'[d] = pc[d],
         OnePendingUnlessOverlap'
  PROVE  ChecksInv'
<1>1. ASSUME NEW d \in Calls PROVE ~Informed(d)'
  <2>1. stale'[d] = (~overlap' /\ d \notin done /\ (stale[d] \/ pc[d] # "idle"))
    BY DEF Outdate
  <2> QED BY <2>1 DEF Informed
<1> QED BY <1>1 DEF ChecksInv

\* A call that begins, or goes on, has just made the check it stands behind.
LEMMA BegunKnown ==
  ASSUME TablesInv, ChecksInv, NEW c \in Calls, NEW next \in PcStates, NEW r \in Requests,
         Begin(c, next, r), Knows(c)'
  PROVE  ChecksInv'
BY QuietlyKnown DEF Begin

LEMMA BeginStepKnown ==
  ASSUME TablesInv, ChecksInv, NEW c \in Calls, BeginStep(c)
  PROVE  ChecksInv'
<1> USE DEF Asked, Idle
<1>1. \E next \in PcStates, r \in Requests : Begin(c, next, r) /\ Knows(c)'
  <2> USE Distinct DEF Begin, Knows, Waiting, IsAdmin, Requests, Ops, PcStates, TablesInv, TypeOK,
          Membership, Invite, tables
  <2>1. ASSUME NEW o \in Orgs, NEW a \in Users \union {Platform}, NEW u \in Users, NEW r \in Roles,
               BeginInvite(c, a, o, u, r)
        PROVE  \E next \in PcStates, q \in Requests : Begin(c, next, q) /\ Knows(c)'
    <3> DEFINE q == [Asked("invite", a) EXCEPT !.org = o, !.user = u, !.role = r]
    <3>1. q \in Requests /\ Begin(c, "invites", q) /\ Knows(c)'
      BY <2>1 DEF BeginInvite
    <3> QED BY <3>1
  <2>2. ASSUME NEW o \in Orgs, NEW a \in Users \union {Platform}, NEW i \in invites,
               BeginRevoke(c, a, o, i.id)
        PROVE  \E next \in PcStates, q \in Requests : Begin(c, next, q) /\ Knows(c)'
    <3> DEFINE q == [Asked("revoke", a) EXCEPT !.org = o, !.row = i.id]
    <3>1. q \in Requests /\ Begin(c, "invite", q) /\ Knows(c)'
      BY <2>2 DEF BeginRevoke
    <3> QED BY <3>1
  <2>3. ASSUME NEW o \in Orgs, NEW a \in Users \union {Platform}, NEW m \in members,
               BeginRemove(c, a, o, m.user)
        PROVE  \E next \in PcStates, q \in Requests : Begin(c, next, q) /\ Knows(c)'
    <3> DEFINE q == [Asked("remove", a) EXCEPT !.org = o, !.user = m.user]
    <3>1. q \in Requests /\ Begin(c, "member", q) /\ Knows(c)'
      BY <2>3 DEF BeginRemove
    <3> QED BY <3>1
  <2>4. ASSUME NEW o \in Orgs, NEW a \in Users \union {Platform}, NEW m \in members, NEW r \in Roles,
               BeginRole(c, a, o, m.user, r)
        PROVE  \E next \in PcStates, q \in Requests : Begin(c, next, q) /\ Knows(c)'
    <3> DEFINE q == [Asked("role", a) EXCEPT !.org = o, !.user = m.user, !.role = r]
    <3>1. q \in Requests /\ Begin(c, "member", q) /\ Knows(c)'
      BY <2>4 DEF BeginRole
    <3> QED BY <3>1
  <2>5. ASSUME NEW o \in Orgs, NEW u \in Users, NEW r \in Roles, BeginAdd(c, o, u, r)
        PROVE  \E next \in PcStates, q \in Requests : Begin(c, next, q) /\ Knows(c)'
    <3> DEFINE q == [Asked("add", Platform) EXCEPT !.org = o, !.user = u, !.role = r]
    <3>1. q \in Requests /\ Begin(c, "ready", q) /\ Knows(c)'
      BY <2>5 DEF BeginAdd
    <3> QED BY <3>1
  <2>6. ASSUME NEW u \in Users, NEW i \in invites, IsMine(i, u),
               Begin(c, "ready", [Asked("decline", u) EXCEPT !.user = u, !.row = i.id])
        PROVE  \E next \in PcStates, q \in Requests : Begin(c, next, q) /\ Knows(c)'
    <3> DEFINE q == [Asked("decline", u) EXCEPT !.user = u, !.row = i.id]
    <3>1. q \in Requests /\ Begin(c, "ready", q)
      BY <2>6
    <3>2. Knows(c)'
      BY <2>6 DEF IsMine
    <3> QED BY <3>1, <3>2
  <2>7. ASSUME NEW u \in Users, NEW m \in members, m.user = u,
               Begin(c, "ready", [Asked("remove", u) EXCEPT !.org = m.org, !.user = u, !.row = m.id])
        PROVE  \E next \in PcStates, q \in Requests : Begin(c, next, q) /\ Knows(c)'
    <3> DEFINE q == [Asked("remove", u) EXCEPT !.org = m.org, !.user = u, !.row = m.id]
    <3>1. q \in Requests /\ Begin(c, "ready", q) /\ Knows(c)'
      BY <2>7
    <3> QED BY <3>1
  <2>8. ASSUME NEW u \in Users, NEW i \in invites, IsMine(i, u),
               Begin(c, "members", [Asked("accept", u) EXCEPT !.org = i.org, !.user = u, !.role = i.role,
                                                            !.row = i.id])
        PROVE  \E next \in PcStates, q \in Requests : Begin(c, next, q) /\ Knows(c)'
    <3> DEFINE q == [Asked("accept", u) EXCEPT !.org = i.org, !.user = u, !.role = i.role, !.row = i.id]
    <3>1. q \in Requests /\ Begin(c, "members", q)
      BY <2>8
    <3>2. Knows(c)'
      BY <2>8 DEF IsMine
    <3> QED BY <3>1, <3>2
  <2> HIDE DEF Begin, Knows, Waiting, IsAdmin, Requests, Ops, PcStates, TablesInv, TypeOK,
          Membership, Invite, tables
  <2> QED BY <2>1, <2>2, <2>3, <2>4, <2>5, <2>6, <2>7, <2>8
          DEF BeginStep, BeginAccept, BeginDecline, BeginLeave
<1> QED BY <1>1, BegunKnown

LEMMA ProceedKnown ==
  ASSUME TablesInv, ChecksInv, NEW c \in Calls, NEW allowed \in BOOLEAN, NEW next \in PcStates,
         NEW r \in Requests, Proceed(c, allowed, next, r),
         allowed /\ Informed(c)' => Knows(c)'
  PROVE  ChecksInv'
<1>1. \A d \in Calls \ {c} : stale'[d] = stale[d]
  BY DEF Proceed, TablesInv, TypeOK
<1>2. CASE allowed
  BY <1>1, <1>2, QuietlyKnown DEF Proceed
<1>3. CASE ~allowed
  <2>1. pc' = [pc EXCEPT ![c] = "idle"] /\ req' = [req EXCEPT ![c] = Idle] /\ ~Informed(c)'
    BY <1>3 DEF Proceed, Informed, TablesInv, TypeOK
  <2> QED BY <1>1, <2>1, IdleIsRequest, QuietlyKnown DEF Proceed, PcStates
<1> QED BY <1>2, <1>3

LEMMA RollBackKnown ==
  ASSUME TablesInv, ChecksInv, NEW c \in Calls, RollBack(c)
  PROVE  ChecksInv'
BY IdleIsRequest, ProceedKnown DEF RollBack, PcStates

LEMMA CheckStepKnown ==
  ASSUME TablesInv, ChecksInv, NEW c \in Calls, Check(c)
  PROVE  ChecksInv'
<1> DEFINE r == req[c]
<1>1. r \in Requests /\ ReqOK(c)
  BY DEF TablesInv, TypeOK
<1>2. ASSUME NEW allowed \in BOOLEAN, NEW next \in PcStates, NEW q \in Requests,
             Proceed(c, allowed, next, q), Informed(c)', pc[c] # "idle"
      PROVE  Knows(c)
  <2>1. Informed(c)
    BY <1>2 DEF Proceed, Informed, TablesInv, TypeOK
  <2> QED BY <2>1 DEF ChecksInv
<1>3. CASE CheckInvites(c)
  <2> DEFINE allowed == ~\E i \in invites : i.org = r.org /\ i.user = r.user /\ i.status = "PENDING"
  <2>1. allowed \in BOOLEAN /\ Proceed(c, allowed, "members", r) /\ pc[c] # "idle"
    BY <1>3 DEF CheckInvites
  <2>2. ASSUME allowed, Informed(c)' PROVE Knows(c)'
    <3>1. Knows(c) /\ r.op = "invite"
      BY ONLY <1>1, <1>2, <1>3, <2>1, <2>2 DEF CheckInvites, ReqOK, PcStates
    <3> QED BY <2>1, <2>2, <3>1 DEF Proceed, Knows, IsAdmin, IsMember, TablesInv, TypeOK, tables
  <2> QED BY ONLY TablesInv, ChecksInv, c \in Calls, <1>1, <2>1, <2>2, ProceedKnown DEF PcStates
<1>4. CASE CheckMember(c)
  <2> DEFINE allowed == ~IsMember(r.user)
  <2>1. allowed \in BOOLEAN /\ Proceed(c, allowed, "ready", r) /\ pc[c] = "members"
    BY <1>4 DEF CheckMember, IsMember
  <2>2. ASSUME allowed, Informed(c)' PROVE Knows(c)'
    <3>1. Knows(c) /\ r.op \in {"invite", "accept"}
      BY ONLY <1>1, <1>2, <2>1, <2>2 DEF ReqOK, PcStates
    <3> QED BY <2>1, <2>2, <3>1 DEF Proceed, Knows, IsAdmin, IsMember, TablesInv, TypeOK, tables
  <2> QED BY ONLY TablesInv, ChecksInv, c \in Calls, <1>1, <2>1, <2>2, ProceedKnown DEF PcStates
<1>5. CASE LoadInvite(c)
  <2> DEFINE allowed == \E i \in invites : i.id = r.row /\ i.org = r.org /\ i.status = "PENDING"
  <2>1. allowed \in BOOLEAN /\ Proceed(c, allowed, "ready", r) /\ pc[c] = "invite"
    BY <1>5 DEF LoadInvite
  <2>2. ASSUME allowed, Informed(c)' PROVE Knows(c)'
    <3>1. Knows(c) /\ r.op = "revoke"
      BY ONLY <1>1, <1>2, <2>1, <2>2 DEF ReqOK, PcStates
    <3> QED BY <2>1, <2>2, <3>1 DEF Proceed, Knows, Waiting, IsAdmin, IsMember, TablesInv, TypeOK, tables
  <2> QED BY ONLY TablesInv, ChecksInv, c \in Calls, <1>1, <2>1, <2>2, ProceedKnown DEF PcStates
<1>6. ASSUME LoadMember(c), NEW m \in members, m.org = r.org, m.user = r.user,
             Proceed(c, TRUE, "ready", [r EXCEPT !.row = m.id])
      PROVE  ChecksInv'
  <2> DEFINE q == [r EXCEPT !.row = m.id]
  <2>1. /\ q \in Requests /\ Proceed(c, TRUE, "ready", q) /\ pc[c] = "member"
        /\ q.op = r.op /\ q.actor = r.actor /\ q.org = r.org /\ q.user = r.user /\ q.row = m.id
        /\ m.user = q.user
    BY <1>1, <1>6 DEF LoadMember, Requests, TablesInv, TypeOK, Membership
  <2> HIDE DEF q
  <2>2. ASSUME Informed(c)' PROVE Knows(c)'
    <3>1. Knows(c) /\ r.op \in {"role", "remove"}
      BY ONLY <1>1, <1>2, <2>1, <2>2 DEF ReqOK, PcStates
    <3>2. req'[c] = q /\ members' = members /\ m \in members' /\ m.org = q.org
      BY <1>6, <2>1 DEF Proceed, TablesInv, TypeOK, tables
    <3> QED BY <2>1, <3>1, <3>2 DEF Knows, IsAdmin
  <2> QED BY <2>1, <2>2, ProceedKnown DEF PcStates
<1> QED BY <1>3, <1>4, <1>5, <1>6, RollBackKnown DEF Check, LoadMember

\* Whoever commits knew, unless calls have overlapped by then.
LEMMA CommitInformed ==
  ASSUME TablesInv, ChecksInv, NEW c \in Calls, pc[c] = "ready", Finish(c), ~overlap'
  PROVE  Knows(c) /\ ~overlap
BY DEF Finish, ChecksInv, Informed

LEMMA FinishKnown ==
  ASSUME TablesInv, NEW c \in Calls, Finish(c), OnePendingUnlessOverlap'
  PROVE  ChecksInv'
<1>1. Outdate({c}) /\ pc' = [pc EXCEPT ![c] = "idle"]
  BY DEF Finish
<1>2. (\A d \in {c} : pc'[d] = "idle") /\ (\A d \in Calls \ {c} : pc'[d] = pc[d])
  BY <1>1 DEF TablesInv, TypeOK
<1> QED BY <1>1, <1>2, NobodyInformed

\* Invites that are pending after a step were pending before it.
NoNewPending ==
    \A j \in invites' : j.status = "PENDING" =>
        \E i \in invites : i.id = j.id /\ i.user = j.user /\ i.org = j.org /\ i.status = "PENDING"

LEMMA NoNewPendingOK ==
  ASSUME TablesInv, ChecksInv, NoNewPending, overlap => overlap', \A i, j \in invites' : i.id = j.id => i = j
  PROVE  OnePendingUnlessOverlap'
BY DEF NoNewPending, ChecksInv, OnePendingUnlessOverlap, OnePendingInvite

LEMMA AnswerPending ==
  ASSUME TablesInv, NEW c \in Calls, NEW s \in {"ACCEPTED", "DECLINED"}, Answer(c, s)
  PROVE  NoNewPending
BY AnswerOK DEF NoNewPending, Statuses

LEMMA CommitStepKnown ==
  ASSUME TablesInv, ChecksInv, NEW c \in Calls, CommitStep(c), ~RollBack(c)
  PROVE  ChecksInv'
<1>1. Finish(c) /\ pc[c] = "ready"
  BY DEF CommitStep, CommitInvite, CommitRevoke, CommitAccept, CommitDecline, CommitAdd, CommitRole,
         CommitRemove, Ready
<1>2. overlap => overlap'
  BY <1>1 DEF Finish
<1>3. TablesInv'
  BY CommitStepOK
<1>4. \A i, j \in invites' : i.id = j.id => i = j
  BY <1>3 DEF TablesInv, IdsUsedOnce
<1>5. NoNewPending => ChecksInv'
  BY <1>1, <1>2, <1>4, NoNewPendingOK, FinishKnown
<1>6. CASE CommitInvite(c)
  <2> DEFINE r == req[c]
  <2>1. PICK id \in Ids \ used :
           invites' = invites \union {[id |-> id, user |-> r.user, org |-> r.org,
                                       role |-> r.role, status |-> "PENDING"]}
    BY <1>6 DEF CommitInvite
  <2>2. ASSUME ~overlap' PROVE OnePendingInvite'
    <3>1. ~\E i \in invites : i.org = r.org /\ i.user = r.user /\ i.status = "PENDING"
      BY <1>1, <1>6, <2>2, CommitInformed DEF Knows, CommitInvite, Ready
    <3>2. OnePendingInvite
      BY <1>1, <2>2, CommitInformed DEF ChecksInv, OnePendingUnlessOverlap
    <3> QED BY <2>1, <3>1, <3>2 DEF OnePendingInvite
  <2> QED BY <1>1, <2>2, FinishKnown DEF OnePendingUnlessOverlap
<1>7. CASE CommitRevoke(c)
  BY <1>5, <1>7 DEF CommitRevoke, NoNewPending
<1>8. CASE CommitAccept(c)
  <2>1. Answer(c, "ACCEPTED")
    BY <1>8 DEF CommitAccept
  <2> QED BY <1>5, <2>1, AnswerPending
<1>9. CASE CommitDecline(c)
  <2>1. Answer(c, "DECLINED")
    BY <1>9 DEF CommitDecline
  <2> QED BY <1>5, <2>1, AnswerPending
<1>10. CASE CommitAdd(c) \/ CommitRole(c) \/ CommitRemove(c)
  BY <1>5, <1>10 DEF CommitAdd, CommitRole, CommitRemove, NoNewPending
<1> QED BY <1>6, <1>7, <1>8, <1>9, <1>10 DEF CommitStep

LEMMA OrgStepKnown ==
  ASSUME TablesInv, ChecksInv, (\E o \in Orgs : CreateOrg(o) \/ DeleteOrg(o)) \/ UNCHANGED vars
  PROVE  ChecksInv'
<1>1. CASE UNCHANGED vars
  BY <1>1 DEF vars, tables, ChecksInv, OnePendingUnlessOverlap, OnePendingInvite, Informed, Knows, Waiting,
              IsAdmin, IsMember
<1>2. ASSUME NEW o \in Orgs, CreateOrg(o) \/ DeleteOrg(o) PROVE ChecksInv'
  <2>1. invites' \subseteq invites /\ UNCHANGED <<pc, overlap>> /\ Outdate({})
    BY <1>2 DEF CreateOrg, DeleteOrg
  <2>2. OnePendingUnlessOverlap'
    BY <2>1 DEF ChecksInv, OnePendingUnlessOverlap, OnePendingInvite
  <2> QED BY <2>1, <2>2, NobodyInformed
<1> QED BY <1>1, <1>2

LEMMA ChecksInvNext == TablesInv /\ ChecksInv /\ [Next]_vars => ChecksInv'
BY BeginStepKnown, CheckStepKnown, CommitStepKnown, RollBackKnown, OrgStepKnown DEF Next, Exhausted

\* Unless calls overlap, no address waits twice for one organization; and the tables stand.
THEOREM TablesAlwaysStand == Spec => []TablesStand
<1>1. TablesInv /\ ChecksInv => TablesStand
  BY DEF TablesInv, ChecksInv, TablesStand
<1> QED BY TablesInvInit, TablesInvNext, ChecksInvInit, ChecksInvNext, <1>1, PTL DEF Spec

LEMMA AdministersIsAdmin ==
  ASSUME NEW a, NEW o, IsAdmin(a, o)
  PROVE  Administers(a, o)
BY DEF IsAdmin, Administers

\* A call that writes what it has read is asked by whoever may ask for it.
THEOREM AdminsRule == Spec => []AdminsRuleTheirOwn
<1>1. TablesInv /\ ChecksInv => AdminsRuleTheirOwn
  <2> SUFFICES ASSUME TablesInv, ChecksInv, NEW c \in Calls, pc[c] = "ready", ~overlap, ~stale[c]
               PROVE  LET r == req[c]
                          Own(rows) == \E row \in rows : row.id = r.row /\ row.org = r.org
                      IN  /\ r.op \in {"accept", "decline"} => \E i \in invites : i.id = r.row /\ i.user = r.actor
                          /\ r.op \in {"invite", "revoke", "add", "role"} => Administers(r.actor, r.org)
                          /\ r.op = "remove" => r.actor = r.user \/ Administers(r.actor, r.org)
                          /\ r.op = "revoke" => Own(invites)
                          /\ r.op \in {"role", "remove"} => Own(members)
    BY DEF AdminsRuleTheirOwn
  <2>1. Knows(c)
    BY DEF ChecksInv, Informed
  <2> QED BY <2>1, AdministersIsAdmin DEF Knows, Waiting
<1> QED BY TablesInvInit, TablesInvNext, ChecksInvInit, ChecksInvNext, <1>1, PTL DEF Spec

\* What AnswersStand says of one step.
AnswersKept ==
    \A i \in invites : i.status # "PENDING" /\ i \notin invites' => overlap' \/ i.org \notin live'

\* An invite that has been answered is not the one an informed call is about.
LEMMA AnsweredIsOther ==
  ASSUME TablesInv, ChecksInv, NEW c \in Calls, pc[c] = "ready", Finish(c), ~overlap',
         req[c].op \in {"revoke", "accept", "decline"},
         NEW i \in invites, i.status # "PENDING"
  PROVE  i.id # req[c].row
<1>1. PICK j \in invites : Waiting(j, req[c])
  BY CommitInformed DEF Knows
<1> QED BY <1>1 DEF Waiting, TablesInv, IdsUsedOnce

LEMMA StepAnswers == TablesInv /\ ChecksInv /\ [Next]_vars => AnswersKept
<1> SUFFICES ASSUME TablesInv, ChecksInv, [Next]_vars PROVE AnswersKept
  OBVIOUS
<1>1. CASE invites \subseteq invites'
  BY <1>1 DEF AnswersKept
<1>2. ASSUME NEW c \in Calls, BeginStep(c) PROVE invites \subseteq invites'
  BY <1>2 DEF BeginStep, BeginInvite, BeginRevoke, BeginRemove, BeginRole, BeginAdd, BeginDecline, BeginLeave,
              BeginAccept, Begin, tables
<1>3. ASSUME NEW c \in Calls, Check(c) \/ RollBack(c) PROVE invites \subseteq invites'
  BY <1>3 DEF Check, CheckInvites, CheckMember, LoadInvite, LoadMember, RollBack, Proceed, tables
<1>4. ASSUME NEW c \in Calls, CommitRevoke(c) PROVE AnswersKept
  BY <1>4, AnsweredIsOther DEF CommitRevoke, Ready, AnswersKept
<1>5. ASSUME NEW c \in Calls, CommitAccept(c) \/ CommitDecline(c), ~RollBack(c) PROVE AnswersKept
  <2>1. /\ pc[c] = "ready" /\ Finish(c) /\ req[c].op \in {"accept", "decline"}
        /\ \E s \in Statuses : Answer(c, s)
    BY <1>5 DEF CommitAccept, CommitDecline, Ready, Statuses
  <2>2. ASSUME NEW i \in invites, i.id # req[c].row PROVE i \in invites'
    BY <2>1, <2>2 DEF Answer
  <2> QED BY <2>1, <2>2, AnsweredIsOther DEF AnswersKept
<1>6. ASSUME NEW c \in Calls, CommitInvite(c) \/ CommitAdd(c) \/ CommitRole(c) \/ CommitRemove(c), ~RollBack(c)
      PROVE  invites \subseteq invites'
  BY <1>6 DEF CommitInvite, CommitAdd, CommitRole, CommitRemove
<1>7. ASSUME NEW o \in Orgs, CreateOrg(o) \/ DeleteOrg(o) PROVE AnswersKept
  BY <1>7 DEF CreateOrg, DeleteOrg, AnswersKept
<1>8. CASE UNCHANGED vars
  BY <1>1, <1>8 DEF vars, tables
<1>9. ASSUME NEW c \in Calls, CommitStep(c) PROVE AnswersKept
  BY <1>1, <1>3, <1>4, <1>5, <1>6, <1>9 DEF CommitStep
<1> QED BY <1>1, <1>2, <1>3, <1>7, <1>8, <1>9 DEF Next, Exhausted

\* An answer is final, unless calls overlap or the organization goes.
THEOREM AnswersAlwaysStand == Spec => AnswersStand
<1>1. TablesInv /\ ChecksInv /\ [Next]_vars => [AnswersKept]_vars
  BY StepAnswers
<1> QED BY TablesInvInit, TablesInvNext, ChecksInvInit, ChecksInvNext, <1>1, PTL
        DEF Spec, AnswersStand, AnswersKept

-----------------------------------------------------------------------------
\* The refinement of Register: what a row and a call look like from outside.

LEMMA SeatTypes ==
  ASSUME TablesInv
  PROVE  Seats \subseteq Reg!Seat /\ Offers \subseteq Reg!Seat
BY DEF TablesInv, TypeOK, Membership, Invite, Roles, Seats, Offers, SeatOf, Reg!Seat, Reg!Roles

LEMMA SeatedIsMember ==
  ASSUME NEW u
  PROVE  Reg!Seated(u) <=> IsMember(u)
<1>1. \A m \in members : SeatOf(m).user = m.user
  BY DEF SeatOf
<1> QED BY <1>1 DEF Reg!Seated, IsMember, Seats

LEMMA AdminRules ==
  ASSUME NEW a, NEW o, IsAdmin(a, o)
  PROVE  Reg!Rules(a, o)
<1> SUFFICES ASSUME a # Platform PROVE [user |-> a, org |-> o, role |-> "ADMIN"] \in Seats
  BY DEF Reg!Rules
<1>1. PICK m \in members : m.user = a /\ m.org = o /\ m.role = "ADMIN"
  BY DEF IsAdmin
<1>2. SeatOf(m) = [user |-> a, org |-> o, role |-> "ADMIN"]
  BY <1>1 DEF SeatOf
<1> QED BY <1>2 DEF Seats

\* The row of a membership is told by its seat, that of a pending invite by its offer.
LEMMA SeatTells ==
  ASSUME TablesInv, NEW m \in members, NEW n \in members, SeatOf(m) = SeatOf(n)
  PROVE  m = n
<1>1. m.user = n.user
  BY DEF SeatOf
<1> QED BY <1>1 DEF TablesInv, OneMembershipPerUser

LEMMA OfferTells ==
  ASSUME OnePendingInvite, NEW i \in invites, NEW j \in invites, i.status = "PENDING",
         j.status = "PENDING", SeatOf(i) = SeatOf(j)
  PROVE  i = j
<1>1. i.user = j.user /\ i.org = j.org
  BY DEF SeatOf
<1> QED BY <1>1 DEF OnePendingInvite

\* A call that begins is asked,
LEMMA BegunIsAsked ==
  ASSUME TablesInv, NEW c \in Calls, NEW next \in PcStates \ {"idle"}, NEW r \in Requests,
         Begin(c, next, r)
  PROVE  \E k \in Reg!Request : Reg!Ask(k)
<1> DEFINE k == RequestOf(c)'
<1>1. /\ pc[c] = "idle" /\ pc' = [pc EXCEPT ![c] = next] /\ req' = [req EXCEPT ![c] = r]
      /\ UNCHANGED <<tables, overlap>>
  BY DEF Begin
<1>2. k = [call |-> c, op |-> r.op, by |-> r.actor] /\ pc'[c] # "idle"
  BY <1>1 DEF RequestOf, TablesInv, TypeOK
<1>3. k \in Reg!Request
  BY <1>2 DEF Reg!Request, Requests, Ops
<1>4. \A d \in Calls \ {c} : RequestOf(d)' = RequestOf(d) /\ pc'[d] = pc[d]
  BY <1>1 DEF RequestOf, TablesInv, TypeOK
<1> HIDE DEF k
<1>5. Served' = Served \union {k}
  BY <1>1, <1>2, <1>4 DEF Served, k
<1>6. \A j \in Served : j.call # k.call
  <2>1. \A d \in Calls : RequestOf(d).call = d
    BY DEF RequestOf
  <2> QED BY <1>1, <1>2, <2>1 DEF Served
<1>7. UNCHANGED <<live, dead, Seats, Offers, overlap>>
  BY <1>1 DEF Seats, Offers, tables
<1> QED BY <1>3, <1>5, <1>6, <1>7 DEF Reg!Ask, Reg!state

\* one that goes on is served as before,
LEMMA GoingOnIsServed ==
  ASSUME TablesInv, NEW c \in Calls, pc[c] # "idle", NEW next \in PcStates \ {"idle"},
         NEW r \in Requests, r.op = req[c].op, r.actor = req[c].actor,
         pc' = [pc EXCEPT ![c] = next], req' = [req EXCEPT ![c] = r]
  PROVE  UNCHANGED Served
<1>1. \A d \in Calls : RequestOf(d)' = RequestOf(d) /\ (pc'[d] = "idle" <=> pc[d] = "idle")
  BY DEF RequestOf, TablesInv, TypeOK
<1> QED BY <1>1 DEF Served

\* and one that ends has been answered.
LEMMA EndIsAnswer ==
  ASSUME TablesInv, NEW c \in Calls, pc[c] # "idle",
         pc' = [pc EXCEPT ![c] = "idle"], req' = [req EXCEPT ![c] = Idle]
  PROVE  Reg!Answered(RequestOf(c)) /\ RequestOf(c) \in Served
<1>1. RequestOf(c) \in Served
  BY DEF Served
<1>2. \A d \in Calls \ {c} : RequestOf(d)' = RequestOf(d) /\ pc'[d] = pc[d]
  BY DEF RequestOf, TablesInv, TypeOK
<1>3. \A d \in Calls \ {c} : RequestOf(d) # RequestOf(c)
  <2>1. \A d \in Calls : RequestOf(d).call = d
    BY DEF RequestOf
  <2> QED BY <2>1
<1>4. pc'[c] = "idle"
  BY DEF TablesInv, TypeOK
<1>5. Served' = {RequestOf(d) : d \in {e \in Calls \ {c} : pc[e] # "idle"}}
  BY <1>2, <1>4 DEF Served
<1>6. Served' = Served \ {RequestOf(c)}
  BY <1>3, <1>5 DEF Served
<1> QED BY <1>1, <1>6 DEF Reg!Answered

LEMMA ServedAreRequests ==
  ASSUME TablesInv
  PROVE  Served \subseteq Reg!Request
<1>1. \A c \in Calls : RequestOf(c) \in Reg!Request
  BY DEF TablesInv, TypeOK, RequestOf, Reg!Request, Requests, Ops
<1> QED BY <1>1 DEF Served

LEMMA ProceedServed ==
  ASSUME TablesInv, NEW c \in Calls, pc[c] # "idle", NEW allowed \in BOOLEAN,
         NEW next \in PcStates \ {"idle"}, NEW r \in Requests,
         r.op = req[c].op, r.actor = req[c].actor, Proceed(c, allowed, next, r)
  PROVE  [Reg!Next]_<<live, dead, Seats, Offers, Served, overlap>>
<1>1. UNCHANGED <<live, dead, Seats, Offers, overlap>>
  BY DEF Proceed, tables, Seats, Offers
<1>2. CASE allowed
  <2>1. UNCHANGED Served
    BY <1>2, GoingOnIsServed DEF Proceed
  <2> QED BY <1>1, <2>1
<1>3. CASE ~allowed
  <2>1. Reg!Answered(RequestOf(c)) /\ RequestOf(c) \in Served
    BY <1>3, EndIsAnswer DEF Proceed
  <2>2. Reg!Refuse(RequestOf(c))
    BY <1>1, <2>1 DEF Reg!Refuse, Reg!state
  <2> QED BY <2>1, <2>2, ServedAreRequests DEF Reg!Next
<1> QED BY <1>2, <1>3

LEMMA RollBackServed ==
  ASSUME TablesInv, NEW c \in Calls, pc[c] # "idle", RollBack(c)
  PROVE  [Reg!Next]_<<live, dead, Seats, Offers, Served, overlap>>
<1>1. UNCHANGED <<live, dead, Seats, Offers, overlap>>
  BY DEF RollBack, Proceed, tables, Seats, Offers
<1>2. Reg!Answered(RequestOf(c)) /\ RequestOf(c) \in Served
  BY EndIsAnswer DEF RollBack, Proceed
<1>3. Reg!Refuse(RequestOf(c))
  BY <1>1, <1>2 DEF Reg!Refuse, Reg!state
<1> QED BY <1>2, <1>3, ServedAreRequests DEF Reg!Next

LEMMA CheckServed ==
  ASSUME TablesInv, NEW c \in Calls, Check(c)
  PROVE  [Reg!Next]_<<live, dead, Seats, Offers, Served, overlap>>
<1> DEFINE r == req[c]
<1>1. r \in Requests /\ pc[c] # "idle"
  BY DEF TablesInv, TypeOK, Check, CheckInvites, CheckMember, LoadInvite, LoadMember
<1>2. CASE CheckInvites(c)
  BY <1>1, <1>2, ProceedServed DEF CheckInvites, PcStates
<1>3. CASE CheckMember(c)
  BY <1>1, <1>3, ProceedServed DEF CheckMember, IsMember, PcStates
<1>4. CASE LoadInvite(c)
  BY <1>1, <1>4, ProceedServed DEF LoadInvite, PcStates
<1>5. ASSUME NEW m \in members, Proceed(c, TRUE, "ready", [r EXCEPT !.row = m.id])
      PROVE  [Reg!Next]_<<live, dead, Seats, Offers, Served, overlap>>
  <2> DEFINE q == [r EXCEPT !.row = m.id]
  <2>1. q \in Requests /\ q.op = r.op /\ q.actor = r.actor /\ Proceed(c, TRUE, "ready", q)
    BY <1>1, <1>5 DEF Requests, TablesInv, TypeOK, Membership
  <2> HIDE DEF q
  <2> QED BY <1>1, <2>1, ProceedServed DEF PcStates
<1> QED BY <1>1, <1>2, <1>3, <1>4, <1>5, RollBackServed DEF Check, LoadMember

\* Nobody changes over: who is a member after a step was one of the same organization, or of
\* none.
LEMMA NobodyChangesOver ==
  ASSUME TablesInv, [Next]_vars, NEW m \in members, NEW n \in members', m.user = n.user
  PROVE  m.org = n.org
<1>1. CASE members' \subseteq members
  BY <1>1 DEF TablesInv, OneMembershipPerUser
<1>2. ASSUME NEW c \in Calls, Admissible(c), NEW via, Enter(c, via) PROVE m.org = n.org
  <2>1. n \in members \/ n.user = req[c].user
    BY <1>2 DEF Enter
  <2> QED BY <1>2, <2>1 DEF Admissible, IsMember, TablesInv, OneMembershipPerUser
<1>3. ASSUME NEW c \in Calls, CommitRole(c), ~RollBack(c) PROVE m.org = n.org
  <2> DEFINE changed(l) == IF l.id = req[c].row THEN [l EXCEPT !.role = req[c].role] ELSE l
  <2>1. members' = {changed(l) : l \in members}
    BY <1>3 DEF CommitRole
  <2>2. \A l \in members : changed(l).user = l.user /\ changed(l).org = l.org
    BY DEF Membership, TablesInv, TypeOK
  <2>3. \E l \in members : n = changed(l)
    BY <2>1
  <2> HIDE DEF changed
  <2> QED BY <2>2, <2>3 DEF TablesInv, OneMembershipPerUser
<1>4. ASSUME NEW c \in Calls, BeginStep(c) PROVE members' \subseteq members
  BY <1>4, BeginsAsRequest DEF Begin, tables
<1>5. ASSUME NEW c \in Calls, Check(c) \/ RollBack(c) PROVE members' \subseteq members
  BY <1>5 DEF Check, CheckInvites, CheckMember, LoadInvite, LoadMember, RollBack, Proceed, tables
<1>6. ASSUME NEW c \in Calls, CommitStep(c), ~RollBack(c) PROVE m.org = n.org
  <2>1. CASE CommitAccept(c) \/ CommitAdd(c)
    BY <1>2, <1>6, <2>1 DEF CommitAccept, CommitAdd
  <2>2. CASE CommitInvite(c) \/ CommitRevoke(c) \/ CommitDecline(c) \/ CommitRemove(c)
    <3>1. members' \subseteq members
      BY <1>6, <2>2 DEF CommitInvite, CommitRevoke, CommitDecline, CommitRemove
    <3> QED BY <3>1, <1>1
  <2> QED BY <1>3, <1>6, <2>1, <2>2 DEF CommitStep
<1>7. ASSUME NEW o \in Orgs, CreateOrg(o) \/ DeleteOrg(o) PROVE members' \subseteq members
  BY <1>7 DEF CreateOrg, DeleteOrg
<1>8. CASE UNCHANGED vars
  BY <1>1, <1>8 DEF vars, tables
<1> QED BY <1>1, <1>4, <1>5, <1>6, <1>7, <1>8 DEF Next, Exhausted

\* Once calls have overlapped.
LEMMA RaceStep ==
  ASSUME TablesInv, TablesInv', [Next]_vars, overlap', dead \subseteq dead',
         Served' = Served \/ \E k \in Served : Reg!Answered(k)
  PROVE  Reg!Race
<1>1. Seats' \subseteq Reg!Seat /\ Offers' \subseteq Reg!Seat
  BY DEF TablesInv, TypeOK, Membership, Invite, Roles, Seats, Offers, SeatOf, Reg!Seat, Reg!Roles
<1>2. live' \intersect dead' = {}
  BY DEF TablesInv, IdsUsedOnce
<1>3. \A s \in Seats' \union Offers' : s.org \in live'
  <2>1. \A row \in members' \union invites' : row.org \in live' /\ SeatOf(row).org = row.org
    BY DEF TablesInv, NoOrphans, SeatOf
  <2> QED BY <2>1 DEF Seats, Offers, SeatOf
<1>4. \A s, t \in Seats' : s.user = t.user => s = t
  <2>1. \A m, n \in members' : SeatOf(m).user = SeatOf(n).user => m = n
    BY DEF TablesInv, OneMembershipPerUser, SeatOf
  <2> QED BY <2>1 DEF Seats, SeatOf
<1>5. \A s \in Seats, t \in Seats' : s.user = t.user => s.org = t.org
  <2>1. \A m \in members, n \in members' :
           SeatOf(m).user = SeatOf(n).user => SeatOf(m).org = SeatOf(n).org
    BY NobodyChangesOver DEF SeatOf
  <2> QED BY <2>1 DEF Seats, SeatOf
<1> QED BY <1>1, <1>2, <1>3, <1>4, <1>5 DEF Reg!Race

\* What one row less is from outside.
LEMMA OneOfferLess ==
  ASSUME OnePendingInvite, NEW i \in invites, i.status = "PENDING",
         \A j : (j \in invites' /\ j.status = "PENDING") <=> (j \in invites /\ j.status = "PENDING" /\ j # i)
  PROVE  SeatOf(i) \in Offers /\ Offers' = Offers \ {SeatOf(i)}
<1>1. SeatOf(i) \in Offers
  BY DEF Offers
<1>2. \A j \in invites : j.status = "PENDING" /\ j # i => SeatOf(j) # SeatOf(i)
  BY OfferTells
<1>3. Offers' = {SeatOf(j) : j \in {l \in invites : l.status = "PENDING" /\ l # i}}
  BY DEF Offers, SeatOf
<1> QED BY <1>1, <1>2, <1>3 DEF Offers

LEMMA OneSeatLess ==
  ASSUME TablesInv, NEW m \in members, members' = members \ {m}
  PROVE  SeatOf(m) \in Seats /\ Seats' = Seats \ {SeatOf(m)}
<1>1. \A n \in members : n # m => SeatOf(n) # SeatOf(m)
  BY SeatTells
<1>2. Seats' = {SeatOf(n) : n \in members \ {m}}
  BY DEF Seats, SeatOf
<1> QED BY <1>1, <1>2 DEF Seats

\* What an informed answer does to the offers.
LEMMA AnswerTakesOffer ==
  ASSUME TablesInv, OnePendingInvite, NEW c \in Calls, NEW s \in {"ACCEPTED", "DECLINED"},
         Answer(c, s), NEW i \in invites, Waiting(i, req[c])
  PROVE  SeatOf(i) \in Offers /\ Offers' = Offers \ {SeatOf(i)}
<1>1. \A j \in invites : j.id = i.id => j = i
  BY DEF TablesInv, IdsUsedOnce
<1>2. ASSUME NEW j PROVE (j \in invites' /\ j.status = "PENDING")
                           <=> (j \in invites /\ j.status = "PENDING" /\ j # i)
  <2>1. ASSUME j \in invites', j.status = "PENDING" PROVE j \in invites /\ j # i
    <3>1. PICK l \in invites : j = IF l.id = req[c].row THEN [l EXCEPT !.status = s] ELSE l
      BY <2>1 DEF Answer
    <3>2. l.id # req[c].row
      <4>1. [l EXCEPT !.status = s].status = s
        BY DEF TablesInv, TypeOK, Invite
      <4> QED BY <2>1, <3>1, <4>1
    <3> QED BY <3>1, <3>2 DEF Waiting
  <2>2. ASSUME j \in invites, j.status = "PENDING", j # i PROVE j \in invites'
    <3>1. j.id # req[c].row
      BY <1>1, <2>2 DEF Waiting
    <3> QED BY <2>2, <3>1 DEF Answer
  <2> QED BY <2>1, <2>2
<1> QED BY <1>2, OneOfferLess DEF Waiting

\* A commit that nothing has overlapped is the effect its call was asked for.
LEMMA CommitIsEffect ==
  ASSUME TablesInv, ChecksInv, NEW c \in Calls, CommitStep(c), ~RollBack(c), pc[c] = "ready",
         Finish(c), ~overlap'
  PROVE  \E s \in Reg!Seat : Reg!Effect(RequestOf(c), s)
<1> DEFINE r == req[c]
           k == RequestOf(c)
<1>1. Knows(c) /\ ReqOK(c) /\ OnePendingInvite /\ r \in Requests
  BY CommitInformed DEF ChecksInv, OnePendingUnlessOverlap, TablesInv, TypeOK
<1>2. k.op = r.op /\ k.by = r.actor
  BY DEF RequestOf
<1>3. \A row : SeatOf(row).user = row.user /\ SeatOf(row).org = row.org /\ SeatOf(row).role = row.role
  BY DEF SeatOf
<1>4. live \subseteq Orgs
  BY DEF TablesInv, TypeOK
<1> HIDE DEF k
<1>5. ASSUME CommitInvite(c) PROVE \E s \in Reg!Seat : Reg!Effect(k, s)
  <2> DEFINE s == [user |-> r.user, org |-> r.org, role |-> r.role]
  <2>1. PICK id \in Ids \ used :
           invites' = invites \union {[id |-> id, user |-> r.user, org |-> r.org,
                                       role |-> r.role, status |-> "PENDING"]}
    BY <1>5 DEF CommitInvite
  <2>2. r.op = "invite" /\ r.org \in live /\ UNCHANGED <<live, dead, members>>
    BY <1>5 DEF CommitInvite, Ready
  <2>3. s \in Reg!Seat
    BY <1>1, <1>4, <2>2 DEF ReqOK, Reg!Seat, Reg!Roles, Roles
  <2>4. Offers' = Offers \union {s}
    <3> DEFINE new == [id |-> id, user |-> r.user, org |-> r.org, role |-> r.role, status |-> "PENDING"]
    <3>1. new.status = "PENDING" /\ SeatOf(new) = s /\ invites' = invites \union {new}
      BY <2>1 DEF SeatOf
    <3> HIDE DEF new
    <3> QED BY <3>1 DEF Offers, SeatOf
  <2>5. \A t \in Offers : t.user = s.user => t.org # s.org
    <3>1. \A i \in invites : i.status = "PENDING" /\ i.user = r.user => i.org # r.org
      BY <1>1, <2>2 DEF Knows
    <3> QED BY <3>1, <1>3 DEF Offers
  <2>6. Reg!Rules(k.by, s.org) /\ ~Reg!Seated(s.user)
    BY <1>1, <1>2, <2>2, AdminRules, SeatedIsMember DEF Knows
  <2>7. UNCHANGED <<live, dead, Seats>>
    BY <2>2 DEF Seats
  <2>8. Reg!Offer(k, s)
    BY <1>2, <2>2, <2>4, <2>5, <2>6, <2>7 DEF Reg!Offer
  <2> QED BY <2>3, <2>8 DEF Reg!Effect
<1>6. ASSUME CommitRevoke(c) PROVE \E s \in Reg!Seat : Reg!Effect(k, s)
  <2>1. r.op = "revoke" /\ invites' = {i \in invites : i.id # r.row} /\ UNCHANGED <<live, dead, members>>
    BY <1>6 DEF CommitRevoke, Ready
  <2>2. PICK i \in invites : Waiting(i, r) /\ i.org = r.org
    BY <1>1, <2>1 DEF Knows
  <2>3. \A j : j \in invites' <=> j \in invites /\ j # i
    BY <2>1, <2>2 DEF Waiting, TablesInv, IdsUsedOnce
  <2>4. SeatOf(i) \in Offers /\ Offers' = Offers \ {SeatOf(i)}
    BY <1>1, <2>2, <2>3, OneOfferLess DEF Waiting
  <2>5. Reg!Rules(k.by, SeatOf(i).org)
    BY <1>1, <1>2, <1>3, <2>1, <2>2, AdminRules DEF Knows
  <2>6. UNCHANGED <<live, dead, Seats>>
    BY <2>1 DEF Seats
  <2>7. Reg!Withdraw(k, SeatOf(i))
    BY <1>2, <2>1, <2>4, <2>5, <2>6 DEF Reg!Withdraw
  <2> QED BY <2>4, <2>7, SeatTypes DEF Reg!Effect
<1>7. ASSUME NEW via, Enter(c, via)
      PROVE  Seats' = Seats \union {[user |-> r.user, org |-> r.org, role |-> r.role]}
  <2> DEFINE new(id) == [id |-> id, user |-> r.user, org |-> r.org, role |-> r.role, via |-> via]
  <2>1. PICK id : members' = members \union {new(id)}
    BY <1>7 DEF Enter
  <2>2. SeatOf(new(id)) = [user |-> r.user, org |-> r.org, role |-> r.role]
    BY DEF SeatOf
  <2> HIDE DEF new
  <2> QED BY <2>1, <2>2 DEF Seats, SeatOf
<1>8. ASSUME CommitAccept(c) PROVE \E s \in Reg!Seat : Reg!Effect(k, s)
  <2>1. /\ r.op = "accept" /\ Admissible(c) /\ Enter(c, r.row) /\ Answer(c, "ACCEPTED")
        /\ UNCHANGED <<live, dead>>
    BY <1>8 DEF CommitAccept, Ready
  <2>2. PICK i \in invites : Waiting(i, r) /\ i.user = r.actor
    BY <1>1, <2>1 DEF Knows
  <2>3. SeatOf(i) = [user |-> r.user, org |-> r.org, role |-> r.role]
    BY <1>1, <2>1, <2>2 DEF ReqOK, Waiting, SeatOf
  <2>4. Seats' = Seats \union {SeatOf(i)}
    BY <1>7, <2>1, <2>3
  <2>5. SeatOf(i) \in Offers /\ Offers' = Offers \ {SeatOf(i)}
    BY <1>1, <2>1, <2>2, AnswerTakesOffer
  <2>6. ~Reg!Seated(SeatOf(i).user)
    BY <2>1, <2>3, SeatedIsMember DEF Admissible
  <2>7. Reg!Accept(k, SeatOf(i))
    BY <1>2, <1>3, <2>1, <2>2, <2>4, <2>5, <2>6 DEF Reg!Accept
  <2> QED BY <2>5, <2>7, SeatTypes DEF Reg!Effect
<1>9. ASSUME CommitDecline(c) PROVE \E s \in Reg!Seat : Reg!Effect(k, s)
  <2>1. r.op = "decline" /\ Answer(c, "DECLINED") /\ UNCHANGED <<live, dead, members>>
    BY <1>9 DEF CommitDecline, Ready
  <2>2. PICK i \in invites : Waiting(i, r) /\ i.user = r.actor
    BY <1>1, <2>1 DEF Knows
  <2>3. SeatOf(i) \in Offers /\ Offers' = Offers \ {SeatOf(i)}
    BY <1>1, <2>1, <2>2, AnswerTakesOffer
  <2>4. UNCHANGED <<live, dead, Seats>>
    BY <2>1 DEF Seats
  <2>5. Reg!Decline(k, SeatOf(i))
    BY <1>2, <1>3, <2>1, <2>2, <2>3, <2>4 DEF Reg!Decline
  <2> QED BY <2>3, <2>5, SeatTypes DEF Reg!Effect
<1>10. ASSUME CommitAdd(c) PROVE \E s \in Reg!Seat : Reg!Effect(k, s)
  <2> DEFINE s == [user |-> r.user, org |-> r.org, role |-> r.role]
  <2>1. r.op = "add" /\ Admissible(c) /\ Enter(c, None) /\ UNCHANGED <<live, dead, invites>>
    BY <1>10 DEF CommitAdd, Ready
  <2>2. r.user \in Users /\ r.role \in Roles /\ r.actor = Platform /\ r.org \in live
    BY <1>1, <2>1 DEF ReqOK, Admissible
  <2>3. s \in Reg!Seat
    BY <1>4, <2>2 DEF Reg!Seat, Reg!Roles, Roles
  <2>4. Seats' = Seats \union {s} /\ UNCHANGED <<live, dead, Offers>>
    BY <1>7, <2>1 DEF Offers
  <2>5. ~Reg!Seated(s.user)
    BY <2>1, SeatedIsMember DEF Admissible
  <2>6. Reg!Put(k, s)
    BY <1>2, <2>1, <2>2, <2>4, <2>5 DEF Reg!Put
  <2> QED BY <2>3, <2>6 DEF Reg!Effect
<1>11. ASSUME r.op \in {"role", "remove"}
       PROVE  \E m \in members : /\ m.id = r.row /\ m.org = r.org /\ m.user = r.user
                                 /\ \A n \in members : n.id = r.row => n = m
  BY <1>1, <1>11 DEF Knows, TablesInv, IdsUsedOnce
<1>12. ASSUME CommitRole(c) PROVE \E s \in Reg!Seat : Reg!Effect(k, s)
  <2>1. /\ r.op = "role" /\ UNCHANGED <<live, dead, invites>>
        /\ members' = {IF m.id = r.row THEN [m EXCEPT !.role = r.role] ELSE m : m \in members}
    BY <1>12 DEF CommitRole, Ready
  <2>2. PICK m \in members : /\ m.id = r.row /\ m.org = r.org /\ m.user = r.user
                             /\ \A n \in members : n.id = r.row => n = m
    BY <1>11, <2>1
  <2> DEFINE new == [m EXCEPT !.role = r.role]
  <2>3. members' = (members \ {m}) \union {new}
    BY <2>1, <2>2
  <2>4. SeatOf(new) = [SeatOf(m) EXCEPT !.role = r.role]
    BY DEF SeatOf, TablesInv, TypeOK, Membership
  <2> HIDE DEF new
  <2>5. Seats' = (Seats \ {SeatOf(m)}) \union {[SeatOf(m) EXCEPT !.role = r.role]}
    <3>1. \A n \in members : n # m => SeatOf(n) # SeatOf(m)
      BY SeatTells
    <3>2. Seats' = {SeatOf(n) : n \in members \ {m}} \union {SeatOf(new)}
      BY <2>3 DEF Seats, SeatOf
    <3> QED BY <2>4, <3>1, <3>2 DEF Seats
  <2>6. SeatOf(m) \in Seats /\ UNCHANGED <<live, dead, Offers>>
    BY <2>1 DEF Seats, Offers
  <2>7. Reg!Rules(k.by, SeatOf(m).org) /\ r.role \in Reg!Roles
    BY <1>1, <1>2, <1>3, <2>1, <2>2, AdminRules DEF Knows, ReqOK, Reg!Roles, Roles
  <2>8. Reg!Change(k, SeatOf(m), r.role)
    BY <1>2, <2>1, <2>5, <2>6, <2>7 DEF Reg!Change
  <2> QED BY <2>6, <2>7, <2>8, SeatTypes DEF Reg!Effect
<1>13. ASSUME CommitRemove(c) PROVE \E s \in Reg!Seat : Reg!Effect(k, s)
  <2>1. r.op = "remove" /\ members' = {m \in members : m.id # r.row} /\ UNCHANGED <<live, dead, invites>>
    BY <1>13 DEF CommitRemove, Ready
  <2>2. PICK m \in members : /\ m.id = r.row /\ m.org = r.org /\ m.user = r.user
                             /\ \A n \in members : n.id = r.row => n = m
    BY <1>11, <2>1
  <2>3. members' = members \ {m}
    BY <2>1, <2>2
  <2>4. SeatOf(m) \in Seats /\ Seats' = Seats \ {SeatOf(m)} /\ UNCHANGED <<live, dead, Offers>>
    BY <2>1, <2>3, OneSeatLess DEF Offers
  <2>5. k.by = SeatOf(m).user \/ Reg!Rules(k.by, SeatOf(m).org)
    BY <1>1, <1>2, <1>3, <2>1, <2>2, AdminRules DEF Knows
  <2>6. Reg!Remove(k, SeatOf(m))
    BY <1>2, <2>1, <2>4, <2>5 DEF Reg!Remove
  <2> QED BY <2>4, <2>6, SeatTypes DEF Reg!Effect
<1> QED BY <1>5, <1>6, <1>8, <1>9, <1>10, <1>12, <1>13 DEF CommitStep, k

\* Each step is one of Register's, or cannot be seen from outside.
LEMMA RegisterStep ==
  ASSUME TablesInv, ChecksInv, [Next]_vars, TablesInv'
  PROVE  [Reg!Next]_<<live, dead, Seats, Offers, Served, overlap>>
<1> DEFINE Seen == [Reg!Next]_<<live, dead, Seats, Offers, Served, overlap>>
<1>1. ASSUME NEW c \in Calls, BeginStep(c) PROVE Seen
  BY <1>1, BeginsAsRequest, BegunIsAsked DEF Reg!Next
<1>2. ASSUME NEW c \in Calls, Check(c) PROVE Seen
  BY <1>2, CheckServed
<1>3. ASSUME NEW c \in Calls, CommitStep(c) PROVE Seen
  <2>1. pc[c] = "ready"
    BY <1>3 DEF CommitStep, CommitInvite, CommitRevoke, CommitAccept, CommitDecline, CommitAdd,
                CommitRole, CommitRemove, Ready
  <2>2. CASE RollBack(c)
    BY <2>1, <2>2, RollBackServed
  <2>3. CASE ~RollBack(c)
    <3>1. Finish(c) /\ dead' = dead
      BY <1>3, <2>3 DEF CommitStep, CommitInvite, CommitRevoke, CommitAccept, CommitDecline,
                        CommitAdd, CommitRole, CommitRemove
    <3>2. RequestOf(c) \in Served /\ Reg!Answered(RequestOf(c))
      BY <2>1, <3>1, EndIsAnswer DEF Finish
    <3>3. CASE overlap'
      BY <3>1, <3>2, <3>3, RaceStep DEF Reg!Next
    <3>4. CASE ~overlap'
      <4>1. ~overlap
        BY <3>1, <3>4 DEF Finish
      <4>2. \E s \in Reg!Seat : Reg!Effect(RequestOf(c), s)
        BY <1>3, <2>1, <2>3, <3>1, <3>4, CommitIsEffect
      <4> QED BY <3>2, <3>4, <4>1, <4>2 DEF Reg!Next, Reg!Serial
    <3> QED BY <3>3, <3>4
  <2> QED BY <2>2, <2>3
<1>4. ASSUME NEW o \in Orgs, CreateOrg(o) \/ DeleteOrg(o) PROVE Seen
  <2>1. UNCHANGED <<pc, req, overlap>> /\ dead \subseteq dead'
    BY <1>4 DEF CreateOrg, DeleteOrg
  <2>2. Served' = Served
    BY <2>1 DEF Served, RequestOf
  <2>3. CASE overlap'
    BY <2>1, <2>2, <2>3, RaceStep DEF Reg!Next
  <2>4. CASE ~overlap'
    <3>1. CASE CreateOrg(o)
      <4>1. Reg!Open(o)
        BY <2>2, <3>1 DEF CreateOrg, Reg!Open, Seats, Offers
      <4> QED BY <2>1, <2>4, <4>1 DEF Reg!Next, Reg!Serial
    <3>2. CASE DeleteOrg(o)
      <4>1. \A row : SeatOf(row).org = row.org
        BY DEF SeatOf
      <4>2. Seats' = {s \in Seats : s.org # o} /\ Offers' = {s \in Offers : s.org # o}
        BY <3>2, <4>1 DEF DeleteOrg, Seats, Offers, SeatOf
      <4>3. Reg!Close(o)
        BY <2>2, <3>2, <4>2 DEF DeleteOrg, Reg!Close
      <4> QED BY <2>1, <2>4, <4>3 DEF Reg!Next, Reg!Serial
    <3> QED BY <1>4, <3>1, <3>2
  <2> QED BY <2>3, <2>4
<1>5. CASE UNCHANGED vars
  BY <1>5 DEF vars, tables, Seats, Offers, Served, SeatOf, RequestOf
<1> QED BY <1>1, <1>2, <1>3, <1>4, <1>5 DEF Next, Exhausted

\* To their users the calls are Register's single steps, for any organizations, users and calls.
THEOREM RegisterImplemented == Spec => ImplementsRegister
<1>1. Init => Reg!Init
  BY DEF Init, Reg!Init, Seats, Offers, Served
<1>2. TablesInv /\ ChecksInv /\ [Next]_vars => TablesInv' /\ ChecksInv'
  BY TablesInvNext, ChecksInvNext
<1>3. TablesInv /\ ChecksInv /\ [Next]_vars /\ TablesInv'
         => [Reg!Next]_<<live, dead, Seats, Offers, Served, overlap>>
  BY RegisterStep
<1>4. [Reg!Next]_<<live, dead, Seats, Offers, Served, overlap>>
         => [Reg!Next]_<<Reg!state, Served, overlap>>
  BY DEF Reg!state
<1> QED BY TablesInvInit, ChecksInvInit, <1>1, <1>2, <1>3, <1>4, PTL
        DEF Spec, ImplementsRegister, Reg!Spec

================================================================================
