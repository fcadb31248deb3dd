---------------------------------- MODULE Register ---------------------------------
(***************************************************************************)
(* What organizations, members and invites promise, with nothing of the    *)
(* queries, rows and ids that bring it about: a call is asked, and is      *)
(* refused or has its effect in a single step, which whoever asked may     *)
(* take at that moment.  A user has one seat at most, in one organization, *)
(* and takes it by an open offer or is put there.  OrgMembership           *)
(* implements this (its ImplementsRegister).                               *)
(*                                                                         *)
(* The promise is conditional.  raced says that a call has written on what *)
(* it read before another call wrote (OrgMembership's overlap).  From then *)
(* on someone may have lost the right to what they do, and an offer may    *)
(* have been answered before; but nobody has two seats or changes over     *)
(* without leaving, and a deleted organization stays empty and deleted.    *)
(***************************************************************************)
CONSTANTS Orgs, Users, Platform, Calls

VARIABLES
    live,       \* the organizations there are
    dead,       \* those that have been deleted
    seats,      \* who is in which organization, and as what
    offers,     \* the invites that wait for an answer, as the seats they offer
    served,     \* the calls that are being served, what they do and who asked
    raced       \* whether calls have overlapped

state == <<live, dead, seats, offers>>

------------------------------------------------------------------------------------
Roles == {"ADMIN", "MEMBER"}

Seat == [user: Users, org: Orgs, role: Roles]

Request == [call: Calls, op: {"invite", "revoke", "accept", "decline", "add", "role", "remove"},
            by: Users \union {Platform}]

Seated(u) == \E s \in seats : s.user = u

\* Whoever rules an organization: the platform's administrators and its own.
Rules(a, o) == a = Platform \/ [user |-> a, org |-> o, role |-> "ADMIN"] \in seats

Init == live = {} /\ dead = {} /\ seats = {} /\ offers = {} /\ served = {} /\ raced = FALSE

Ask(k) ==
    /\ \A j \in served : j.call # k.call
    /\ served' = served \union {k}
    /\ UNCHANGED <<state, raced>>

\* The request has been answered.
Answered(k) == k \in served /\ served' = served \ {k}

Refuse(k) == Answered(k) /\ UNCHANGED <<state, raced>>

------------------------------------------------------------------------------------
Open(o) ==
    /\ o \notin live \union dead
    /\ live' = live \union {o}
    /\ UNCHANGED <<dead, seats, offers, served>>

Close(o) ==
    /\ o \in live
    /\ live' = live \ {o} /\ dead' = dead \union {o}
    /\ seats' = {s \in seats : s.org # o}
    /\ offers' = {s \in offers : s.org # o}
    /\ UNCHANGED served

Offer(k, s) ==
    /\ k.op = "invite" /\ Rules(k.by, s.org)
    /\ s.org \in live /\ ~Seated(s.user) /\ \A t \in offers : t.user = s.user => t.org # s.org
    /\ offers' = offers \union {s}
    /\ UNCHANGED <<live, dead, seats>>

Withdraw(k, s) ==
    /\ k.op = "revoke" /\ Rules(k.by, s.org)
    /\ s \in offers
    /\ offers' = offers \ {s}
    /\ UNCHANGED <<live, dead, seats>>

Accept(k, s) ==
    /\ k.op = "accept" /\ k.by = s.user
    /\ s \in offers /\ ~Seated(s.user)
    /\ seats' = seats \union {s}
    /\ offers' = offers \ {s}
    /\ UNCHANGED <<live, dead>>

Decline(k, s) ==
    /\ k.op = "decline" /\ k.by = s.user
    /\ s \in offers
    /\ offers' = offers \ {s}
    /\ UNCHANGED <<live, dead, seats>>

Put(k, s) ==
    /\ k.op = "add" /\ k.by = Platform
    /\ s.org \in live /\ ~Seated(s.user)
    /\ seats' = seats \union {s}
    /\ UNCHANGED <<live, dead, offers>>

Change(k, s, r) ==
    /\ k.op = "role" /\ Rules(k.by, s.org)
    /\ s \in seats
    /\ seats' = (seats \ {s}) \union {[s EXCEPT !.role = r]}
    /\ UNCHANGED <<live, dead, offers>>

Remove(k, s) ==
    /\ k.op = "remove" /\ (k.by = s.user \/ Rules(k.by, s.org))
    /\ s \in seats
    /\ seats' = seats \ {s}
    /\ UNCHANGED <<live, dead, offers>>

Effect(k, s) ==
    \/ Offer(k, s) \/ Withdraw(k, s) \/ Accept(k, s) \/ Decline(k, s)
    \/ Put(k, s) \/ Remove(k, s) \/ \E r \in Roles : Change(k, s, r)

Serial ==
    /\ ~raced /\ ~raced'
    /\ \/ \E o \in Orgs : Open(o) \/ Close(o)
       \/ \E k \in served, s \in Seat : Effect(k, s) /\ Answered(k)

\* What holds however calls overlap.
Race ==
    /\ raced'
    /\ served' = served \/ \E k \in served : Answered(k)
    /\ seats' \subseteq Seat /\ offers' \subseteq Seat
    /\ dead \subseteq dead' /\ live' \intersect dead' = {}
    /\ \A s \in seats' \union offers' : s.org \in live'
    /\ \A s, t \in seats' : s.user = t.user => s = t
    /\ \A s \in seats, t \in seats' : s.user = t.user => s.org = t.org

Next == (\E k \in Request : Ask(k) \/ Refuse(k)) \/ Serial \/ Race

Spec == Init /\ [][Next]_<<state, served, raced>>
====================================================================================
