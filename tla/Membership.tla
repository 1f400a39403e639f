----------------------------- MODULE Membership -----------------------------
(* One project of the team service: its members, API keys, invitations and  *)
(* imported reports (team.py, team_workspace.py), within the limits of its  *)
(* plan (enforce in team_billing.py).                                       *)
(*                                                                          *)
(* A request first reads who is asking (Enter).  A handler that authorises  *)
(* with lock=True then waits for the project row and reads the role again:  *)
(* its transaction is one action, under the role of that moment.  A handler *)
(* that does not lock goes on with the role it saw.                         *)
EXTENDS Integers, Sequences, FiniteSets

CONSTANTS Users,
          Verified,     \* users with a verified email
          Keys,         \* slots for API keys; the code has no limit
          Reports,      \* idempotency keys of imports
          Requests,     \* handlers at work
          Roles,        \* roles that owners hand out, of viewer, developer, owner
          Retentions,   \* retention periods, in days
          SeatLimit, ReportLimit,  \* the limits in force: 25 and 1000 while billing is
                                   \* disabled, else those configured for the plan
          InvitationLimit,         \* pending invitations of a project
          Nobody

Rank == [none |-> 0, viewer |-> 1, developer |-> 2, owner |-> 3]

ASSUME MembershipAssumption ==
    /\ IsFiniteSet(Users) /\ Verified \subseteq Users /\ Nobody \notin Users
    /\ Roles \subseteq {"viewer", "developer", "owner"}
    /\ Retentions \subseteq Nat \ {0}
    /\ {SeatLimit, ReportLimit, InvitationLimit} \subseteq Nat /\ SeatLimit > 0

VARIABLES project,     \* the project's state and retention_days
          role,        \* memberships
          keys,        \* who owns the key in each slot, unless it is revoked or expired
          invitations, \* those neither accepted, revoked nor expired
          reports,     \* imported reports, by idempotency key
          access,      \* what billing grants: imports and seats, or reading only
          req          \* who each handler acts for, and the role it saw

vars == <<project, role, keys, invitations, reports, access, req>>

Idle == [pc |-> "idle", user |-> Nobody, keyed |-> FALSE, saw |-> "none"]
NoReport == [kept |-> FALSE, expired |-> FALSE, life |-> 0]

\* life: days from created_at to expires_at of a report.
TypeOK ==
    /\ project \in [state : {"unborn", "live", "gone"}, retention : Retentions]
    /\ role \in [Users -> DOMAIN Rank]
    /\ keys \in [Keys -> Users \cup {Nobody}]
    /\ invitations \subseteq [to : Users, by : Users, role : Roles \ {"owner"}]
    /\ reports \in [Reports -> [kept : BOOLEAN, expired : BOOLEAN, life : Nat]]
    /\ access \in {"paid", "read_only"}
    /\ req \in [Requests -> [pc : {"idle", "entered"}, user : Users \cup {Nobody},
                             keyed : BOOLEAN, saw : DOMAIN Rank]]

Init ==
    /\ project \in [state : {"unborn"}, retention : Retentions]
    /\ role = [u \in Users |-> "none"]
    /\ keys = [k \in Keys |-> Nobody]
    /\ invitations = {}
    /\ reports = [x \in Reports |-> NoReport]
    /\ access = "paid"
    /\ req = [r \in Requests |-> Idle]

Live == project.state = "live"
Members == {u \in Users : role[u] # "none"}
Finish(r) == req' = [req EXCEPT ![r] = Idle]

-----------------------------------------------------------------------------
(* Who is asking, and what they may do.                                     *)

\* identity, with a session or a key whose owner is still a member, and the first
\* reading of the role.
Enter(r, u, keyed) ==
    /\ req[r].pc = "idle"
    /\ keyed => Live /\ role[u] # "none" /\ \E k \in Keys : keys[k] = u
    /\ req' = [req EXCEPT ![r] = [pc |-> "entered", user |-> u, keyed |-> keyed, saw |-> role[u]]]
    /\ UNCHANGED <<project, role, keys, invitations, reports, access>>

\* The request is refused, fails or crashes.
Refused(r) ==
    /\ req[r].pc = "entered"
    /\ Finish(r)
    /\ UNCHANGED <<project, role, keys, invitations, reports, access>>

\* Mutant of Holds: the role is not read again under the lock.
HoldsAsSeen(r, minimum) == Rank[req[r].saw] >= Rank[minimum]

\* authorize with lock=True.  No key has the scope of an owner's operations.
Holds(r, minimum) == Rank[role[req[r].user]] >= Rank[minimum]
Locked(r, minimum) ==
    /\ req[r].pc = "entered" /\ Live
    /\ Holds(r, minimum)
    /\ minimum = "owner" => ~req[r].keyed

\* authorize without the lock: the role seen on entry.
Unlocked(r, minimum) ==
    /\ req[r].pc = "entered" /\ Live
    /\ Rank[req[r].saw] >= Rank[minimum]
    /\ minimum = "owner" => ~req[r].keyed

\* enforce: nothing is added to a project that is not paid for, or is full.
Paid == access = "paid"
SeatFree == Paid /\ Cardinality(Members) < SeatLimit

-----------------------------------------------------------------------------
(* The project and its members.                                             *)

NewProject(r, days) ==
    /\ req[r].pc = "entered" /\ ~req[r].keyed /\ project.state = "unborn"
    /\ project' = [state |-> "live", retention |-> days]
    /\ role' = [role EXCEPT ![req[r].user] = "owner"]
    /\ Finish(r)
    /\ UNCHANGED <<keys, invitations, reports, access>>

\* Mutant of Shortened: a new retention period is for new reports.
ShortenedLater(report, days) == report

\* An earlier expiry replaces a later one, never the other way round.
Shortened(report, days) == [report EXCEPT !.life = IF days < @ THEN days ELSE @]

EditProject(r, days) ==
    /\ Locked(r, "owner")
    /\ project' = [project EXCEPT !.retention = days]
    /\ reports' = [x \in Reports |-> Shortened(reports[x], days)]
    /\ Finish(r)
    /\ UNCHANGED <<role, keys, invitations, access>>

\* Billing may refuse (check_deletion); all rows of the project go with it.
DeleteProject(r) ==
    /\ Locked(r, "owner")
    /\ project' = [project EXCEPT !.state = "gone"]
    /\ role' = [u \in Users |-> "none"]
    /\ keys' = [k \in Keys |-> Nobody]
    /\ invitations' = {}
    /\ reports' = [x \in Reports |-> NoReport]
    /\ Finish(r)
    /\ UNCHANGED access

AddMember(r, u, new) ==
    /\ Locked(r, "owner")
    /\ u \in Verified /\ role[u] = "none" /\ SeatFree
    /\ role' = [role EXCEPT ![u] = new]
    /\ Finish(r)
    /\ UNCHANGED <<project, keys, invitations, reports, access>>

\* Mutant of LastOwner: only the removal of the last owner is refused.
LastOwnerRemoved(u, new) == new = "none" /\ \A v \in Users : role[v] = "owner" <=> v = u

LastOwner(u, new) == new # "owner" /\ \A v \in Users : role[v] = "owner" <=> v = u

\* modify_member: a new role, or none, which revokes the member's keys.
ModifyMember(r, u, new) ==
    /\ Locked(r, "owner")
    /\ role[u] # "none" /\ ~LastOwner(u, new)
    /\ role' = [role EXCEPT ![u] = new]
    /\ keys' = [k \in Keys |-> IF new = "none" /\ keys[k] = u THEN Nobody ELSE keys[k]]
    /\ Finish(r)
    /\ UNCHANGED <<project, invitations, reports, access>>

\* Keys are created and revoked without the project lock.
CreateKey(r, k) ==
    /\ Unlocked(r, "owner") /\ keys[k] = Nobody
    /\ keys' = [keys EXCEPT ![k] = req[r].user]
    /\ Finish(r)
    /\ UNCHANGED <<project, role, invitations, reports, access>>

RevokeKey(r, k) ==
    /\ Unlocked(r, "owner") /\ keys[k] # Nobody
    /\ keys' = [keys EXCEPT ![k] = Nobody]
    /\ Finish(r)
    /\ UNCHANGED <<project, role, invitations, reports, access>>

-----------------------------------------------------------------------------
(* Invitations.                                                             *)

\* A new link for an address revokes its earlier ones.
CreateInvitation(r, u, new) ==
    /\ Locked(r, "owner") /\ SeatFree
    /\ Cardinality(invitations) < InvitationLimit
    /\ invitations' = {i \in invitations : i.to # u}
                         \cup {[to |-> u, by |-> req[r].user, role |-> new]}
    /\ Finish(r)
    /\ UNCHANGED <<project, role, keys, reports, access>>

RevokeInvitation(r, i) ==
    /\ Locked(r, "owner")
    /\ invitations' = invitations \ {i}
    /\ Finish(r)
    /\ UNCHANGED <<project, role, keys, reports, access>>

Acceptable(u, i) == u \in Verified /\ i.to = u /\ role[i.by] = "owner"

\* Mutant of Seated: the seat was checked when the invitation was made.
SeatedEarlier(u) == TRUE

\* A member who accepts keeps the role they have and needs no seat.
Seated(u) == role[u] = "none" => SeatFree

AcceptInvitation(r, i) ==
    LET u == req[r].user IN
    /\ req[r].pc = "entered" /\ ~req[r].keyed /\ Live
    /\ Acceptable(u, i) /\ Seated(u)
    /\ role' = [role EXCEPT ![u] = IF @ = "none" THEN i.role ELSE @]
    /\ invitations' = invitations \ {i}
    /\ Finish(r)
    /\ UNCHANGED <<project, keys, reports, access>>

-----------------------------------------------------------------------------
(* Reports.                                                                 *)

\* import_report authorises twice, the second time under the lock.  A key that
\* was used before finds its report, or a conflict, and writes nothing.
ImportReport(r, x) ==
    /\ Unlocked(r, "developer") /\ Locked(r, "developer")
    /\ ~reports[x].kept
    /\ Paid /\ Cardinality({y \in Reports : reports[y].kept}) < ReportLimit
    /\ reports' = [reports EXCEPT ![x] = [kept |-> TRUE, expired |-> FALSE, life |-> project.retention]]
    /\ Finish(r)
    /\ UNCHANGED <<project, role, keys, invitations, access>>

Swept == [x \in Reports |-> IF reports[x].expired THEN NoReport ELSE reports[x]]

Cleanup(r) ==
    /\ Unlocked(r, "owner")
    /\ reports' = Swept
    /\ Finish(r)
    /\ UNCHANGED <<project, role, keys, invitations, access>>

\* The service's own sweep, and the passing of time.
Sweep ==
    /\ reports' = Swept /\ reports' # reports
    /\ UNCHANGED <<project, role, keys, invitations, access, req>>

Expire ==
    /\ \/ \E x \in Reports : /\ reports[x].kept /\ ~reports[x].expired
                             /\ reports' = [reports EXCEPT ![x].expired = TRUE]
                             /\ UNCHANGED <<keys, invitations>>
       \/ \E k \in Keys : /\ keys[k] # Nobody
                          /\ keys' = [keys EXCEPT ![k] = Nobody]
                          /\ UNCHANGED <<reports, invitations>>
       \/ \E i \in invitations : /\ invitations' = invitations \ {i}
                                 /\ UNCHANGED <<reports, keys>>
    /\ UNCHANGED <<project, role, access, req>>

\* The subscription of module Billing comes and goes.
Bill ==
    /\ access' = IF access = "paid" THEN "read_only" ELSE "paid"
    /\ UNCHANGED <<project, role, keys, invitations, reports, req>>

Handle(r) ==
    \/ \E u \in Users, keyed \in BOOLEAN : Enter(r, u, keyed)
    \/ \E days \in Retentions : NewProject(r, days) \/ EditProject(r, days)
    \/ \E u \in Users, new \in Roles : AddMember(r, u, new)
    \/ \E u \in Users, new \in Roles \cup {"none"} : ModifyMember(r, u, new)
    \/ \E u \in Users, new \in Roles \ {"owner"} : CreateInvitation(r, u, new)
    \/ \E i \in invitations : RevokeInvitation(r, i) \/ AcceptInvitation(r, i)
    \/ \E k \in Keys : CreateKey(r, k) \/ RevokeKey(r, k)
    \/ \E x \in Reports : ImportReport(r, x)
    \/ DeleteProject(r) \/ Cleanup(r) \/ Refused(r)

Next == (\E r \in Requests : Handle(r)) \/ Sweep \/ Expire \/ Bill

Spec == Init /\ [][Next]_vars

-----------------------------------------------------------------------------
\* docs/team-contract.md:24, tests/team/test_postgres.py:272: whatever owners do
\* to each other at once, a project keeps an owner.
AlwaysOwned == Live => \E u \in Users : role[u] = "owner"

\* The seats in use fit the plan, although an invitation reserves none and
\* several people may accept at once.
SeatsWithinPlan == Cardinality(Members) <= SeatLimit

\* docs/team-contract.md:20: no retained report outlives the project's retention
\* period, those included that were imported under a longer one.
RetentionHolds == \A x \in Reports : reports[x].kept => reports[x].life <= project.retention

\* "Every request rechecks membership": in the moment it changes the project, a
\* request's user is an owner (of settings, members and invitations) or a developer
\* (of reports), or joins by an open invitation of someone who still is an owner.
Acts(r, minimum) ==
    /\ req[r].pc = "entered" /\ req'[r].pc = "idle"
    /\ Rank[role[req[r].user]] >= Rank[minimum]
Joins(u) ==
    \E i \in invitations \ invitations' :
        i.to = u /\ role[i.by] = "owner" /\ role'[u] = i.role
ChangesAuthorised ==
    [][/\ \A u \in Users : Live /\ role'[u] # role[u] =>
            (\E r \in Requests : Acts(r, "owner")) \/ (role[u] = "none" /\ Joins(u))
       /\ Live /\ (project' # project \/ ~(invitations' \subseteq invitations)) =>
            \E r \in Requests : Acts(r, "owner")
       /\ \A x \in Reports : reports'[x].kept /\ ~reports[x].kept =>
            \E r \in Requests : Acts(r, "developer")]_vars

\* tests/team/test_postgres.py:253: removing a member leaves no key of theirs
\* unrevoked.
RemovedKeysRevoked ==
    \A k \in Keys : keys[k] # Nobody => role[keys[k]] # "none"
=============================================================================
