------------------------------ MODULE OrgMembership ------------------------------
(***************************************************************************)
(* Organizations, their members and the invites that bring them in.  A     *)
(* user is in one organization at most.  Every endpoint checks first, in   *)
(* queries of its own, and writes in one commit at the end; between the    *)
(* two nothing is locked, and only the constraints of the tables stand:    *)
(* one membership per user, and foreign keys to the organization.  An      *)
(* invite is for an e-mail address, so a user here is an address.  A call  *)
(* begins with its first query; one that is refused there changes nothing  *)
(* and is left out.                                                        *)
(***************************************************************************)
EXTENDS Naturals, FiniteSets

CONSTANTS
    Orgs,      \* the ids organizations may get; none is used twice
    Users,     \* the users
    Platform,  \* a platform administrator, who is in no organization
    Ids,       \* the ids of invites and memberships; none is used twice (bound)
    Calls,     \* the calls that are served at the same time
    None       \* no id, no user, no role

ASSUME Distinct == Platform \notin Users /\ None \notin Orgs \union Users \union Ids \union {Platform}

VARIABLES
    live,      \* the organizations that exist
    dead,      \* those that have been deleted
    members,   \* the rows of organization_membership
    invites,   \* the rows of organization_invite
    used,      \* the ids that rows have had
    pc,        \* where each call stands
    req,       \* what it was asked, and what it has loaded
    stale,     \* a table has changed since the call began (observer)
    overlap    \* a stale call has written (observer)

tables == <<live, dead, members, invites, used>>
vars == <<tables, pc, req, stale, overlap>>

Roles == {"ADMIN", "MEMBER"}
Statuses == {"PENDING", "ACCEPTED", "DECLINED"}

\* via is the invite a membership came from (observer).
Membership == [id: Ids, user: Users, org: Orgs, role: Roles, via: Ids \union {None}]
Invite == [id: Ids, user: Users, org: Orgs, role: Roles, status: Statuses]

Ops == {"invite", "revoke", "accept", "decline", "add", "role", "remove"}

\* The row a request is about: an invite it names, or the membership it has loaded.
Requests == [op: Ops, actor: Users \union {Platform}, org: Orgs \union {None},
             user: Users \union {None}, role: Roles \union {None}, row: Ids \union {None}]

\* The request of a call that is not being served.
Idle == [op |-> "invite", actor |-> Platform, org |-> None, user |-> None, role |-> None, row |-> None]

Init ==
    /\ live = {} /\ dead = {} /\ members = {} /\ invites = {} /\ used = {}
    /\ pc = [c \in Calls |-> "idle"]
    /\ req = [c \in Calls |-> Idle]
    /\ stale = [c \in Calls |-> FALSE]
    /\ overlap = FALSE

IsMember(u) == \E m \in members : m.user = u

\* Mutant: an administrator of any organization will do.
IsAdminAnywhere(a, o) ==
    \/ a = Platform
    \/ \E m \in members : m.user = a /\ m.role = "ADMIN"

\* _require_invite_admin, _require_admin_for_org: the platform's administrators, and the
\* organization's own.
IsAdmin(a, o) ==
    \/ a = Platform
    \/ \E m \in members : m.user = a /\ m.org = o /\ m.role = "ADMIN"

-----------------------------------------------------------------------------
\* What the endpoints share.

\* The first query has let the call in.
Begin(c, next, r) ==
    /\ pc[c] = "idle"
    /\ pc' = [pc EXCEPT ![c] = next]
    /\ req' = [req EXCEPT ![c] = r]
    /\ UNCHANGED <<tables, stale, overlap>>

\* A later query lets it go on, or it is refused.
Proceed(c, allowed, next, r) ==
    /\ pc' = [pc EXCEPT ![c] = IF allowed THEN next ELSE "idle"]
    /\ req' = [req EXCEPT ![c] = IF allowed THEN r ELSE Idle]
    /\ stale' = [stale EXCEPT ![c] = @ /\ allowed]
    /\ UNCHANGED <<tables, overlap>>

\* A constraint has rolled the transaction back.
RollBack(c) == Proceed(c, FALSE, "idle", Idle)

\* Whoever else is at work has read older tables.  (Not kept once calls have overlapped.)
Outdate(done) == stale' = [c \in Calls |-> ~overlap' /\ c \notin done /\ (stale[c] \/ pc[c] # "idle")]

\* The transaction has been committed.
Finish(c) ==
    /\ pc' = [pc EXCEPT ![c] = "idle"]
    /\ req' = [req EXCEPT ![c] = Idle]
    /\ overlap' = (overlap \/ stale[c])
    /\ Outdate({c})

Asked(o, a) == [Idle EXCEPT !.op = o, !.actor = a]

-----------------------------------------------------------------------------
\* The checks.

\* create_invite: the admin check, and the organization is there,
BeginInvite(c, a, o, u, r) ==
    /\ IsAdmin(a, o) /\ o \in live
    /\ Begin(c, "invites", [Asked("invite", a) EXCEPT !.org = o, !.user = u, !.role = r])

\* no pending invite (with two of them the query fails),
CheckInvites(c) ==
    /\ pc[c] = "invites"
    /\ Proceed(c, ~\E i \in invites : /\ i.org = req[c].org /\ i.user = req[c].user
                                      /\ i.status = "PENDING",
               "members", req[c])

\* and, as in accept_invite, a user who is in no organization.
CheckMember(c) ==
    /\ pc[c] = "members"
    /\ Proceed(c, ~IsMember(req[c].user), "ready", req[c])

BeginRevoke(c, a, o, i) ==
    /\ IsAdmin(a, o)
    /\ Begin(c, "invite", [Asked("revoke", a) EXCEPT !.org = o, !.row = i])

\* revoke_invite: a pending invite of that organization.
LoadInvite(c) ==
    /\ pc[c] = "invite"
    /\ Proceed(c, \E i \in invites : i.id = req[c].row /\ i.org = req[c].org /\ i.status = "PENDING",
               "ready", req[c])

\* Mutant: an invite is found whatever has become of it.
IsMineAnswered(i, u) == i.user = u

\* _get_my_pending_invite.
IsMine(i, u) == i.user = u /\ i.status = "PENDING"

BeginAccept(c, u) ==
    \E i \in invites :
       /\ IsMine(i, u)
       /\ Begin(c, "members", [Asked("accept", u) EXCEPT !.org = i.org, !.user = u, !.role = i.role,
                                                       !.row = i.id])

BeginDecline(c, u) ==
    \E i \in invites :
       /\ IsMine(i, u)
       /\ Begin(c, "ready", [Asked("decline", u) EXCEPT !.user = u, !.row = i.id])

\* add_member, for the platform's administrators only.
BeginAdd(c, o, u, r) ==
    /\ o \in live /\ ~IsMember(u)
    /\ Begin(c, "ready", [Asked("add", Platform) EXCEPT !.org = o, !.user = u, !.role = r])

BeginRole(c, a, o, u, r) ==
    /\ IsAdmin(a, o)
    /\ Begin(c, "member", [Asked("role", a) EXCEPT !.org = o, !.user = u, !.role = r])

BeginRemove(c, a, o, u) ==
    /\ IsAdmin(a, o) /\ a # u
    /\ Begin(c, "member", [Asked("remove", a) EXCEPT !.org = o, !.user = u])

\* remove_member of oneself asks nobody.
BeginLeave(c, u) ==
    \E m \in members :
       /\ m.user = u
       /\ Begin(c, "ready", [Asked("remove", u) EXCEPT !.org = m.org, !.user = u, !.row = m.id])

\* update_member_role, remove_member: the membership of that user there.  A role that does
\* not change is not written.
LoadMember(c) ==
    /\ pc[c] = "member"
    /\ LET there == {m \in members : m.user = req[c].user /\ m.org = req[c].org /\ m.role # req[c].role}
       IN  \/ there = {} /\ RollBack(c)
           \/ \E m \in there : Proceed(c, TRUE, "ready", [req[c] EXCEPT !.row = m.id])

-----------------------------------------------------------------------------
\* The commits.

Ready(c, o) == pc[c] = "ready" /\ req[c].op = o

CommitInvite(c) ==
    /\ Ready(c, "invite")
    /\ \/ /\ req[c].org \notin live
          /\ RollBack(c)
       \/ /\ req[c].org \in live
          /\ \E id \in Ids \ used :
               /\ invites' = invites \union {[id |-> id, user |-> req[c].user, org |-> req[c].org,
                                              role |-> req[c].role, status |-> "PENDING"]}
               /\ used' = used \union {id}
          /\ Finish(c)
          /\ UNCHANGED <<live, dead, members>>

CommitRevoke(c) ==
    /\ Ready(c, "revoke")
    /\ invites' = {i \in invites : i.id # req[c].row}
    /\ Finish(c)
    /\ UNCHANGED <<live, dead, members, used>>

\* A new membership of the request's user, if the table takes it.
Admissible(c) == req[c].org \in live /\ ~IsMember(req[c].user)

Enter(c, via) ==
    \E id \in Ids \ used :
       /\ members' = members \union {[id |-> id, user |-> req[c].user, org |-> req[c].org,
                                      role |-> req[c].role, via |-> via]}
       /\ used' = used \union {id}

\* The status of the invite, whatever it has become.
Answer(c, s) ==
    invites' = {IF i.id = req[c].row THEN [i EXCEPT !.status = s] ELSE i : i \in invites}

Stands(c) == \E i \in invites : i.id = req[c].row

\* Mutants: without the unique constraint; without noticing that the invite is gone.
CommitAcceptTwice(c) ==
    /\ Ready(c, "accept")
    /\ IF req[c].org \in live /\ Stands(c)
         THEN Enter(c, req[c].row) /\ Answer(c, "ACCEPTED") /\ Finish(c) /\ UNCHANGED <<live, dead>>
         ELSE RollBack(c)
CommitAcceptRevoked(c) ==
    /\ Ready(c, "accept")
    /\ IF Admissible(c)
         THEN Enter(c, req[c].row) /\ Answer(c, "ACCEPTED") /\ Finish(c) /\ UNCHANGED <<live, dead>>
         ELSE RollBack(c)

\* accept_invite: the membership and the invite's status in one transaction, which fails if
\* the user has got a membership, or the organization or the invite is gone.
CommitAccept(c) ==
    /\ Ready(c, "accept")
    /\ IF Admissible(c) /\ Stands(c)
         THEN Enter(c, req[c].row) /\ Answer(c, "ACCEPTED") /\ Finish(c) /\ UNCHANGED <<live, dead>>
         ELSE RollBack(c)

CommitDecline(c) ==
    /\ Ready(c, "decline")
    /\ IF Stands(c)
         THEN Answer(c, "DECLINED") /\ Finish(c) /\ UNCHANGED <<live, dead, members, used>>
         ELSE RollBack(c)

CommitAdd(c) ==
    /\ Ready(c, "add")
    /\ IF Admissible(c)
         THEN Enter(c, None) /\ Finish(c) /\ UNCHANGED <<live, dead, invites>>
         ELSE RollBack(c)

\* A role is written to the row that was loaded, and fails if that is gone.
CommitRole(c) ==
    /\ Ready(c, "role")
    /\ IF \E m \in members : m.id = req[c].row
         THEN /\ members' = {IF m.id = req[c].row THEN [m EXCEPT !.role = req[c].role] ELSE m : m \in members}
              /\ Finish(c)
              /\ UNCHANGED <<live, dead, invites, used>>
         ELSE RollBack(c)

CommitRemove(c) ==
    /\ Ready(c, "remove")
    /\ members' = {m \in members : m.id # req[c].row}
    /\ Finish(c)
    /\ UNCHANGED <<live, dead, invites, used>>

-----------------------------------------------------------------------------
\* Organizations come and go in a step.

CreateOrg(o) ==
    /\ o \notin live \union dead
    /\ live' = live \union {o}
    /\ UNCHANGED <<dead, members, invites, used, pc, req, overlap>>
    /\ Outdate({})

\* The cascades take the members and the invites along.
DeleteOrg(o) ==
    /\ o \in live
    /\ live' = live \ {o} /\ dead' = dead \union {o}
    /\ members' = {m \in members : m.org # o}
    /\ invites' = {i \in invites : i.org # o}
    /\ UNCHANGED <<used, pc, req, overlap>>
    /\ Outdate({})

\* Bound: a call that may need an id starts only if one will be left for it.
Room == Cardinality(Ids \ used) > Cardinality({c \in Calls : pc[c] # "idle"})

\* A request about a user who is in no organization, or about no invite, is refused in time.
BeginStep(c) ==
    \/ \E o \in Orgs, a \in Users \union {Platform} :
          \/ \E u \in Users, r \in Roles : Room /\ BeginInvite(c, a, o, u, r)
          \/ \E i \in invites : BeginRevoke(c, a, o, i.id)
          \/ \E m \in members : BeginRemove(c, a, o, m.user) \/ \E r \in Roles : BeginRole(c, a, o, m.user, r)
    \/ \E o \in Orgs, u \in Users, r \in Roles : Room /\ BeginAdd(c, o, u, r)
    \/ \E u \in Users : BeginDecline(c, u) \/ BeginLeave(c, u) \/ (Room /\ BeginAccept(c, u))

Check(c) == CheckInvites(c) \/ CheckMember(c) \/ LoadInvite(c) \/ LoadMember(c)

CommitStep(c) ==
    \/ CommitInvite(c) \/ CommitRevoke(c) \/ CommitAccept(c) \/ CommitDecline(c)
    \/ CommitAdd(c) \/ CommitRole(c) \/ CommitRemove(c)

\* Bound: every organization there can be has been deleted and every call answered.
Exhausted ==
    /\ dead = Orgs /\ \A c \in Calls : pc[c] = "idle"
    /\ UNCHANGED vars

Next ==
    \/ \E c \in Calls : BeginStep(c) \/ Check(c) \/ CommitStep(c)
    \/ \E o \in Orgs : CreateOrg(o) \/ DeleteOrg(o)
    \/ Exhausted

Spec == Init /\ [][Next]_vars
-----------------------------------------------------------------------------
\* Properties.

TypeOK ==
    /\ live \subseteq Orgs /\ dead \subseteq Orgs
    /\ members \subseteq Membership /\ invites \subseteq Invite /\ used \subseteq Ids
    /\ pc \in [Calls -> {"idle", "invites", "members", "invite", "member", "ready"}]
    /\ req \in [Calls -> Requests]
    /\ stale \in [Calls -> BOOLEAN] /\ overlap \in BOOLEAN

\* However calls overlap, nobody is in two organizations, or twice in one.
\* (invites.py:179-195, members.py:85-95)
OneMembershipPerUser == \A m, n \in members : m.user = n.user => m = n

\* However calls overlap with the deletion of an organization, it leaves no member and no
\* invite behind.  (invites.py:83-90, 185-195; members.py:89-95; organizations/route.py:158-160)
NoOrphans == \A row \in members \union invites : row.org \in live

\* However calls overlap, whoever comes in by an invite comes in by one that is still there,
\* is theirs, and says so from that moment: an invite that has been revoked lets nobody in.
\* (invites.py:139-140, 184-195)
JoinIsRecorded ==
    [][\A m \in members' : m.via # None /\ (\A n \in members : n.id # m.id) =>
          /\ \E i \in invites : i.id = m.via
          /\ \E i \in invites' : /\ i.id = m.via /\ i.status = "ACCEPTED"
                                /\ i.user = m.user /\ i.org = m.org /\ i.role = m.role]_vars

\* "A pending invite already exists for this email" (invites.py:71): there is at most one
\* for each organization.
OnePendingInvite ==
    \A i, j \in invites :
        i.status = "PENDING" /\ j.status = "PENDING" /\ i.user = j.user /\ i.org = j.org => i = j

\* Unless calls overlap, an address has one pending invite of an organization.
OnePendingUnlessOverlap == ~overlap => OnePendingInvite

\* What the constraints of the tables and the checks of the calls are there for: no user is
\* a member twice and nothing is left of a deleted organization, however calls overlap, and
\* unless they do no address is invited twice.  (invites.py:62-95, 179-195; members.py:85-95)
TablesStand == OneMembershipPerUser /\ NoOrphans /\ OnePendingUnlessOverlap

\* "This invite is no longer pending" (invites.py:137, 248): an answer is final
\* until two calls have overlapped anywhere; only the deletion of the organization takes it away.
AnswersStand ==
    [][\A i \in invites :
          i.status # "PENDING" /\ i \notin invites' =>
              overlap' \/ i.org \notin live']_vars

Administers(a, o) ==
    a \in {m.user : m \in {n \in members : n.org = o /\ n.role = "ADMIN"}} \union {Platform}

\* "Requires platform admin or org admin" (invites.py:55, members.py:112): until calls have
\* overlapped, a call that is about to write and has read the tables as they are is asked by
\* an administrator of the organization its row belongs to, by the invited user, or by
\* whoever leaves.
AdminsRuleTheirOwn ==
    \A c \in Calls :
        pc[c] = "ready" /\ ~overlap /\ ~stale[c] =>
            LET r == req[c]
                Own(rows) == \E row \in rows : row.id = r.row /\ row.org = r.org
            IN  /\ r.op \in {"accept", "decline"} => \E i \in invites : i.id = r.row /\ i.user = r.actor
                /\ r.op \in {"invite", "revoke", "add", "role"} => Administers(r.actor, r.org)
                /\ r.op = "remove" => r.actor = r.user \/ Administers(r.actor, r.org)
                /\ r.op = "revoke" => Own(invites)
                /\ r.op \in {"role", "remove"} => Own(members)

\* The rows and calls as users see them: who sits where, what waits for an answer, and who
\* has asked for what.
SeatOf(row) == [user |-> row.user, org |-> row.org, role |-> row.role]
Seats == {SeatOf(m) : m \in members}
Offers == {SeatOf(i) : i \in {j \in invites : j.status = "PENDING"}}

RequestOf(c) == [call |-> c, op |-> req[c].op, by |-> req[c].actor]
Served == {RequestOf(c) : c \in {d \in Calls : pc[d] # "idle"}}

Reg == INSTANCE Register WITH seats <- Seats, offers <- Offers, served <- Served, raced <- overlap

\* Unless calls overlap, a call is to its users a single step that whoever asked for it may
\* take at that moment: to invite, revoke, remove or give a role one rules the organization
\* then, and to enter one has an open invite and is in no organization.  However calls
\* overlap, nobody changes over without leaving.
\* (invites.py:49-97, 108-140, 173-219; members.py:61-172; organizations/route.py:141-160)
ImplementsRegister == Reg!Spec
==================================================================================
