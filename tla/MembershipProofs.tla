-------------------------- MODULE MembershipProofs --------------------------
(* Theorems about Membership, for any number of people, keys, reports and   *)
(* requests, and any limits.  The inductive invariant is Sound: the three    *)
(* promises about a project, and that a project which does not exist, yet or *)
(* any more, has neither members nor reports.                               *)
EXTENDS Membership, FiniteSetTheorems, TLAPS

RoleNames == {"none", "viewer", "developer", "owner"}
ReportRow == [kept : BOOLEAN, expired : BOOLEAN, life : Nat]
Handler == [pc : {"idle", "entered"}, user : Users \cup {Nobody}, keyed : BOOLEAN, saw : RoleNames]
Invitation == [to : Users, by : Users, role : Roles \ {"owner"}]
Project == [state : {"unborn", "live", "gone"}, retention : Retentions]

\* The parts of the inductive invariant.
Entered == \A r \in Requests : req[r].pc = "entered" => req[r].user \in Users
Vacant == ~Live => /\ \A u \in Users : role[u] = "none"
                   /\ \A x \in Reports : ~reports[x].kept
Sound == TypeOK /\ Entered /\ Vacant /\ AlwaysOwned /\ SeatsWithinPlan /\ RetentionHolds

LEMMA Ranks == /\ DOMAIN Rank = RoleNames /\ Rank["none"] = 0
               /\ Rank["viewer"] = 1 /\ Rank["developer"] = 2 /\ Rank["owner"] = 3
BY DEF Rank, RoleNames

\* TypeOK in the names used here.
LEMMA Types ==
    TypeOK <=> /\ project \in Project /\ role \in [Users -> RoleNames]
               /\ keys \in [Keys -> Users \cup {Nobody}]
               /\ invitations \subseteq Invitation
               /\ reports \in [Reports -> ReportRow]
               /\ access \in {"paid", "read_only"}
               /\ req \in [Requests -> Handler]
BY Ranks DEF TypeOK, Project, Invitation, ReportRow, Handler

LEMMA TypesAfter ==
    TypeOK' <=> /\ project' \in Project /\ role' \in [Users -> RoleNames]
                /\ keys' \in [Keys -> Users \cup {Nobody}]
                /\ invitations' \subseteq Invitation
                /\ reports' \in [Reports -> ReportRow]
                /\ access' \in {"paid", "read_only"}
                /\ req' \in [Requests -> Handler]
BY Ranks DEF TypeOK, Project, Invitation, ReportRow, Handler

LEMMA Assumed ==
    /\ IsFiniteSet(Users) /\ Nobody \notin Users /\ Roles \subseteq RoleNames \ {"none"}
    /\ Retentions \subseteq Nat \ {0} /\ SeatLimit \in Nat /\ SeatLimit > 0
BY MembershipAssumption DEF RoleNames

LEMMA InitSound == Init => Sound
<1> SUFFICES ASSUME Init PROVE Sound
    OBVIOUS
<1>1. /\ role \in [Users -> RoleNames] /\ project \in Project
      /\ reports \in [Reports -> ReportRow] /\ req \in [Requests -> Handler]
    BY DEF Init, RoleNames, Project, NoReport, ReportRow, Idle, Handler
<1>2. /\ keys \in [Keys -> Users \cup {Nobody}] /\ invitations \subseteq Invitation
      /\ access \in {"paid", "read_only"}
    BY DEF Init
<1>3. TypeOK
    BY <1>1, <1>2, Types, Zenon
<1>4. ~Live /\ Vacant /\ Entered /\ AlwaysOwned /\ RetentionHolds
    BY DEF Init, Live, Vacant, Entered, AlwaysOwned, RetentionHolds, NoReport, Idle
<1>5. SeatsWithinPlan
    <2>1. Members = {}
        BY DEF Init, Members
    <2> QED BY <2>1, FS_EmptySet, Assumed DEF SeatsWithinPlan
<1> QED BY <1>3, <1>4, <1>5 DEF Sound

-----------------------------------------------------------------------------
(* Steps. *)

\* A request is answered.
LEMMA Ends ==
    ASSUME TypeOK, Entered, NEW r \in Requests, Finish(r)
    PROVE  req' \in [Requests -> Handler] /\ Entered'
<1>1. req \in [Requests -> Handler]
    BY Types, Zenon
<1>2. Idle \in Handler /\ Idle.pc = "idle"
    BY DEF Idle, Handler, RoleNames
<1> QED BY <1>1, <1>2 DEF Finish, Entered

\* The seats in use stay within the plan while members only leave ...
LEMMA SeatsFreed ==
    ASSUME SeatsWithinPlan, Members' \subseteq Members
    PROVE  SeatsWithinPlan'
<1>1. IsFiniteSet(Members)
    BY Assumed, FS_Subset DEF Members
<1>2. /\ IsFiniteSet(Members') /\ Cardinality(Members') =< Cardinality(Members)
      /\ Cardinality(Members) \in Nat /\ Cardinality(Members') \in Nat
    BY <1>1, FS_Subset, FS_CardinalityType
<1> QED BY <1>2, Assumed DEF SeatsWithinPlan

\* ... or one joins who found a free seat.
LEMMA SeatTaken ==
    ASSUME SeatsWithinPlan, NEW u, Members' \subseteq Members \cup {u},
           Cardinality(Members) < SeatLimit
    PROVE  SeatsWithinPlan'
<1>1. IsFiniteSet(Members)
    BY Assumed, FS_Subset DEF Members
<1>2. /\ IsFiniteSet(Members \cup {u}) /\ Cardinality(Members \cup {u}) =< Cardinality(Members) + 1
    <2>1. Cardinality(Members) \in Nat
        BY <1>1, FS_CardinalityType
    <2> QED BY <1>1, <2>1, FS_AddElement
<1>3. Cardinality(Members') =< Cardinality(Members \cup {u})
    BY <1>2, FS_Subset
<1>4. /\ Cardinality(Members) \in Nat /\ Cardinality(Members') \in Nat
      /\ Cardinality(Members \cup {u}) \in Nat
    BY <1>1, <1>2, FS_Subset, FS_CardinalityType
<1> QED BY <1>2, <1>3, <1>4, Assumed DEF SeatsWithinPlan

\* A step that touches neither members nor reports.
LEMMA QuietSound ==
    ASSUME Sound, UNCHANGED <<project, role, reports>>, TypeOK', Entered'
    PROVE  Sound'
BY DEF Sound, Vacant, AlwaysOwned, SeatsWithinPlan, RetentionHolds, Members, Live

\* A step that changes reports, and at most the retention period of the project.
LEMMA ReportsSound ==
    ASSUME Sound, UNCHANGED role, project'.state = project.state, TypeOK', Entered',
           \A x \in Reports : reports'[x].kept =>
             (reports[x].kept \/ Live) /\ reports'[x].life =< project'.retention
    PROVE  Sound'
<1>1. UNCHANGED Live /\ UNCHANGED Members
    BY DEF Live, Members
<1> QED BY <1>1 DEF Sound, Vacant, AlwaysOwned, SeatsWithinPlan, RetentionHolds

LEMMA NewProjectSound ==
    ASSUME Sound, NEW r \in Requests, NEW days \in Retentions, NewProject(r, days)
    PROVE  Sound'
<1> DEFINE u == req[r].user
<1>1. /\ TypeOK /\ role \in [Users -> RoleNames] /\ keys \in [Keys -> Users \cup {Nobody}]
      /\ invitations \subseteq Invitation /\ reports \in [Reports -> ReportRow]
      /\ access \in {"paid", "read_only"}
    BY Types, Zenon DEF Sound
<1>2. u \in Users
    BY DEF Sound, Entered, NewProject
<1>3. project' = [state |-> "live", retention |-> days] /\ role' = [role EXCEPT ![u] = "owner"]
    BY DEF NewProject
<1> HIDE DEF u
<1>4. req' \in [Requests -> Handler] /\ Entered'
    BY <1>1, Ends DEF NewProject, Sound
<1>5. project' \in Project /\ role' \in [Users -> RoleNames] /\ Live'
    BY <1>1, <1>3 DEF Project, RoleNames, Live
<1>6. TypeOK'
    BY <1>1, <1>4, <1>5, TypesAfter, Zenon DEF NewProject
<1>7. /\ \A v \in Users : role[v] = "none"
      /\ \A x \in Reports : ~reports[x].kept
    BY DEF Sound, Vacant, NewProject, Live
<1>8. AlwaysOwned' /\ Vacant'
    BY <1>1, <1>2, <1>3, <1>5 DEF AlwaysOwned, Vacant
<1>9. SeatsWithinPlan'
    <2>1. Members = {} /\ Members' \subseteq Members \cup {u}
        BY <1>1, <1>3, <1>7 DEF Members
    <2>2. Cardinality(Members) < SeatLimit
        BY <2>1, FS_EmptySet, Assumed
    <2> QED BY <2>1, <2>2, SeatTaken DEF Sound
<1>10. RetentionHolds'
    BY <1>7 DEF RetentionHolds, NewProject
<1> QED BY <1>4, <1>6, <1>8, <1>9, <1>10 DEF Sound

LEMMA DeleteProjectSound ==
    ASSUME Sound, NEW r \in Requests, DeleteProject(r)
    PROVE  Sound'
<1>1. /\ TypeOK /\ project \in Project /\ access \in {"paid", "read_only"}
    BY Types, Zenon DEF Sound
<1>2. req' \in [Requests -> Handler] /\ Entered'
    BY <1>1, Ends DEF DeleteProject, Sound
<1>3. /\ project' \in Project /\ role' \in [Users -> RoleNames] /\ ~Live'
      /\ keys' \in [Keys -> Users \cup {Nobody}] /\ invitations' \subseteq Invitation
      /\ reports' \in [Reports -> ReportRow] /\ access' \in {"paid", "read_only"}
    BY <1>1 DEF DeleteProject, Project, RoleNames, Live, NoReport, ReportRow
<1>4. TypeOK'
    BY <1>2, <1>3, TypesAfter, Zenon
<1>5. AlwaysOwned' /\ Vacant' /\ RetentionHolds'
    BY <1>3 DEF AlwaysOwned, Vacant, RetentionHolds, DeleteProject, NoReport
<1>6. SeatsWithinPlan'
    <2>1. Members' = {}
        BY DEF DeleteProject, Members
    <2> QED BY <2>1, SeatsFreed DEF Sound
<1> QED BY <1>2, <1>4, <1>5, <1>6 DEF Sound

\* Members come, go and change roles, under the rules of the handlers: there is
\* still an owner, and nobody comes who found no seat.
LEMMA RolesSound ==
    ASSUME Sound, NEW r \in Requests, Finish(r), Live, UNCHANGED <<project, reports, access>>,
           keys' \in [Keys -> Users \cup {Nobody}], invitations' \subseteq Invitation,
           NEW u \in Users, NEW new \in RoleNames, role' = [role EXCEPT ![u] = new],
           \E v \in Users : role'[v] = "owner",
           role[u] # "none" \/ Cardinality(Members) < SeatLimit
    PROVE  Sound'
<1>1. /\ TypeOK /\ project \in Project /\ role \in [Users -> RoleNames]
      /\ reports \in [Reports -> ReportRow] /\ access \in {"paid", "read_only"}
    BY Types, Zenon DEF Sound
<1>2. req' \in [Requests -> Handler] /\ Entered'
    BY <1>1, Ends DEF Sound
<1>3. role' \in [Users -> RoleNames] /\ Live'
    BY <1>1 DEF Live
<1>4. TypeOK'
    BY <1>1, <1>2, <1>3, TypesAfter, Zenon
<1>5. AlwaysOwned' /\ Vacant' /\ RetentionHolds'
    BY <1>3 DEF AlwaysOwned, Vacant, RetentionHolds, Sound
<1>6. SeatsWithinPlan'
    <2>1. Members' \subseteq Members \cup {u}
        BY <1>1 DEF Members
    <2>2. role[u] # "none" => u \in Members
        BY DEF Members
    <2>3. CASE role[u] # "none"
        <3>1. Members' \subseteq Members
            BY <2>1, <2>2, <2>3
        <3> QED BY <3>1, SeatsFreed DEF Sound
    <2>4. CASE Cardinality(Members) < SeatLimit
        BY <2>1, <2>4, SeatTaken DEF Sound
    <2> QED BY <2>3, <2>4
<1> QED BY <1>2, <1>4, <1>5, <1>6 DEF Sound

LEMMA AddMemberSound ==
    ASSUME Sound, NEW r \in Requests, NEW u \in Users, NEW new \in Roles, AddMember(r, u, new)
    PROVE  Sound'
<1>1. /\ role \in [Users -> RoleNames] /\ keys \in [Keys -> Users \cup {Nobody}]
      /\ invitations \subseteq Invitation
    BY Types, Zenon DEF Sound
<1>2. Live /\ role[u] = "none" /\ role' = [role EXCEPT ![u] = new] /\ new \in RoleNames
    BY Assumed DEF AddMember, Locked
<1>3. \E v \in Users : role'[v] = "owner"
    <2>1. PICK v \in Users : role[v] = "owner"
        BY <1>2 DEF Sound, AlwaysOwned
    <2>2. role'[v] = "owner"
        BY <1>1, <1>2, <2>1
    <2> QED BY <2>2
<1> QED BY <1>1, <1>2, <1>3, RolesSound DEF AddMember, SeatFree

LEMMA ModifyMemberSound ==
    ASSUME Sound, NEW r \in Requests, NEW u \in Users, NEW new \in Roles \cup {"none"},
           ModifyMember(r, u, new)
    PROVE  Sound'
<1>1. /\ role \in [Users -> RoleNames] /\ keys \in [Keys -> Users \cup {Nobody}]
      /\ invitations \subseteq Invitation
    BY Types, Zenon DEF Sound
<1>2. Live /\ role[u] # "none" /\ role' = [role EXCEPT ![u] = new] /\ new \in RoleNames
    BY Assumed DEF ModifyMember, Locked, RoleNames
<1>3. keys' \in [Keys -> Users \cup {Nobody}]
    BY <1>1 DEF ModifyMember
<1>4. \E v \in Users : role'[v] = "owner"
    <2>1. PICK v \in Users : role[v] = "owner"
        BY <1>2 DEF Sound, AlwaysOwned
    <2>2. new = "owner" \/ \E w \in Users : w # u /\ role[w] = "owner"
        BY <2>1 DEF ModifyMember, LastOwner
    <2> QED BY <1>1, <1>2, <2>2
<1> QED BY <1>1, <1>2, <1>3, <1>4, RolesSound DEF ModifyMember

LEMMA AcceptInvitationSound ==
    ASSUME Sound, NEW r \in Requests, NEW i \in invitations, AcceptInvitation(r, i)
    PROVE  Sound'
<1> DEFINE u == req[r].user
           new == IF role[u] = "none" THEN i.role ELSE role[u]
<1>1. /\ role \in [Users -> RoleNames] /\ keys \in [Keys -> Users \cup {Nobody}]
      /\ invitations \subseteq Invitation
    BY Types, Zenon DEF Sound
<1>2. u \in Users /\ Live /\ role' = [role EXCEPT ![u] = new]
    BY DEF AcceptInvitation, Sound, Entered
<1>3. new \in RoleNames
    BY <1>1, <1>2, Assumed DEF Invitation
<1>4. role[u] # "none" \/ Cardinality(Members) < SeatLimit
    BY DEF AcceptInvitation, Seated, SeatFree
<1>5. role[u] # "none" => new = role[u]
    OBVIOUS
<1>6. Finish(r) /\ UNCHANGED <<project, keys, reports, access>> /\ invitations' \subseteq Invitation
    BY <1>1 DEF AcceptInvitation
<1> HIDE DEF u, new
<1>7. \E v \in Users : role'[v] = "owner"
    <2>1. PICK v \in Users : role[v] = "owner"
        BY <1>2 DEF Sound, AlwaysOwned
    <2>2. role'[v] = "owner"
        BY <1>1, <1>2, <1>5, <2>1
    <2> QED BY <2>2
<1> QED BY <1>1, <1>2, <1>3, <1>4, <1>6, <1>7, RolesSound

LEMMA EditProjectSound ==
    ASSUME Sound, NEW r \in Requests, NEW days \in Retentions, EditProject(r, days)
    PROVE  Sound'
<1>1. /\ TypeOK /\ project \in Project /\ role \in [Users -> RoleNames]
      /\ keys \in [Keys -> Users \cup {Nobody}] /\ invitations \subseteq Invitation
      /\ reports \in [Reports -> ReportRow] /\ access \in {"paid", "read_only"}
    BY Types, Zenon DEF Sound
<1>2. req' \in [Requests -> Handler] /\ Entered'
    BY <1>1, Ends DEF EditProject, Sound
<1>3. days \in Nat
    BY Assumed
<1>4. /\ project' \in Project /\ project'.state = project.state /\ project'.retention = days
    BY <1>1 DEF EditProject, Project
<1>5. ASSUME NEW x \in Reports
      PROVE  /\ Shortened(reports[x], days) \in ReportRow
             /\ Shortened(reports[x], days).kept = reports[x].kept
             /\ Shortened(reports[x], days).life =< days
    <2>1. reports[x] \in ReportRow
        BY <1>1
    <2> QED BY <1>3, <2>1 DEF Shortened, ReportRow
<1>6. reports' \in [Reports -> ReportRow] /\ \A x \in Reports : reports'[x] = Shortened(reports[x], days)
    BY <1>5 DEF EditProject
<1>7. TypeOK'
    BY <1>1, <1>2, <1>4, <1>6, TypesAfter, Zenon DEF EditProject
<1> QED BY <1>2, <1>4, <1>5, <1>6, <1>7, ReportsSound DEF EditProject

LEMMA ImportReportSound ==
    ASSUME Sound, NEW r \in Requests, NEW x \in Reports, ImportReport(r, x)
    PROVE  Sound'
<1> DEFINE row == [kept |-> TRUE, expired |-> FALSE, life |-> project.retention]
<1>1. /\ TypeOK /\ project \in Project /\ role \in [Users -> RoleNames]
      /\ keys \in [Keys -> Users \cup {Nobody}] /\ invitations \subseteq Invitation
      /\ reports \in [Reports -> ReportRow] /\ access \in {"paid", "read_only"}
    BY Types, Zenon DEF Sound
<1>2. req' \in [Requests -> Handler] /\ Entered'
    BY <1>1, Ends DEF ImportReport, Sound
<1>3. row \in ReportRow /\ row.life =< project.retention
    <2>1. project.retention \in Retentions
        BY <1>1 DEF Project
    <2>2. project.retention \in Nat
        BY <2>1, Assumed
    <2> QED BY <2>2 DEF ReportRow
<1>4. reports' = [reports EXCEPT ![x] = row] /\ Live
    BY DEF ImportReport, Unlocked
<1> HIDE DEF row
<1>5. reports' \in [Reports -> ReportRow]
    BY <1>1, <1>3, <1>4
<1>6. TypeOK'
    BY <1>1, <1>2, <1>5, TypesAfter, Zenon DEF ImportReport
<1>7. \A y \in Reports : reports'[y].kept => Live /\ reports'[y].life =< project.retention
    BY <1>1, <1>3, <1>4 DEF Sound, RetentionHolds
<1> QED BY <1>2, <1>6, <1>7, ReportsSound DEF ImportReport

\* Reports expire and are swept, by whomever.
LEMMA SweptSound ==
    ASSUME Sound, UNCHANGED <<project, role, access>>,
           keys' \in [Keys -> Users \cup {Nobody}], invitations' \subseteq Invitation,
           req' \in [Requests -> Handler], Entered',
           reports' \in [Reports -> ReportRow],
           \A x \in Reports : reports'[x].kept => reports[x].kept /\ reports'[x].life = reports[x].life
    PROVE  Sound'
<1>1. /\ project \in Project /\ role \in [Users -> RoleNames] /\ access \in {"paid", "read_only"}
    BY Types, Zenon DEF Sound
<1>2. TypeOK'
    BY <1>1, TypesAfter, Zenon
<1> QED BY <1>2, ReportsSound DEF Sound, RetentionHolds

LEMMA Sweeping ==
    ASSUME reports \in [Reports -> ReportRow], reports' = Swept
    PROVE  /\ reports' \in [Reports -> ReportRow]
           /\ \A x \in Reports : reports'[x].kept => reports[x].kept /\ reports'[x].life = reports[x].life
<1>1. NoReport \in ReportRow /\ ~NoReport.kept
    BY DEF NoReport, ReportRow
<1> HIDE DEF NoReport
<1> QED BY <1>1 DEF Swept

LEMMA TimeSound ==
    ASSUME Sound, Sweep \/ Expire \/ \E r \in Requests : Cleanup(r)
    PROVE  Sound'
<1>1. /\ TypeOK /\ Entered /\ req \in [Requests -> Handler] /\ keys \in [Keys -> Users \cup {Nobody}]
      /\ invitations \subseteq Invitation /\ reports \in [Reports -> ReportRow]
    BY Types, Zenon DEF Sound
<1>2. CASE Sweep
    BY <1>1, <1>2, Sweeping, SweptSound DEF Sweep, Entered
<1>3. ASSUME NEW r \in Requests, Cleanup(r) PROVE Sound'
    <2>1. req' \in [Requests -> Handler] /\ Entered'
        BY <1>1, <1>3, Ends DEF Cleanup
    <2> QED BY <1>1, <1>3, <2>1, Sweeping, SweptSound DEF Cleanup
<1>4. CASE Expire
    <2>1. UNCHANGED <<project, role, access, req>> /\ Entered'
        BY <1>1, <1>4 DEF Expire, Entered
    <2>2. /\ keys' \in [Keys -> Users \cup {Nobody}] /\ invitations' \subseteq Invitation
          /\ reports' \in [Reports -> ReportRow]
        BY <1>1, <1>4 DEF Expire, ReportRow
    <2>3. \A x \in Reports : reports'[x].kept => reports[x].kept /\ reports'[x].life = reports[x].life
        BY <1>1, <1>4 DEF Expire, ReportRow
    <2> QED BY <1>1, <2>1, <2>2, <2>3, SweptSound
<1> QED BY <1>2, <1>3, <1>4

\* Steps that touch neither members nor reports.
LEMMA DeskSound ==
    ASSUME Sound,
           \/ Bill
           \/ \E r \in Requests :
                \/ \E u \in Users, keyed \in BOOLEAN : Enter(r, u, keyed)
                \/ \E u \in Users, new \in Roles \ {"owner"} : CreateInvitation(r, u, new)
                \/ \E i \in invitations : RevokeInvitation(r, i)
                \/ \E k \in Keys : CreateKey(r, k) \/ RevokeKey(r, k)
                \/ Refused(r)
    PROVE  Sound'
<1>1. /\ TypeOK /\ Entered /\ project \in Project /\ role \in [Users -> RoleNames]
      /\ keys \in [Keys -> Users \cup {Nobody}] /\ invitations \subseteq Invitation
      /\ reports \in [Reports -> ReportRow] /\ access \in {"paid", "read_only"}
      /\ req \in [Requests -> Handler]
    BY Types, Zenon DEF Sound
<1>2. UNCHANGED <<project, role, reports>>
    BY DEF Bill, Enter, CreateInvitation, RevokeInvitation, CreateKey, RevokeKey, Refused
<1>3. req' \in [Requests -> Handler] /\ Entered'
    <2>1. CASE Bill
        BY <1>1, <2>1 DEF Bill, Entered
    <2>2. ASSUME NEW r \in Requests, NEW u \in Users, NEW keyed \in BOOLEAN, Enter(r, u, keyed)
          PROVE  req' \in [Requests -> Handler] /\ Entered'
        <3>1. [pc |-> "entered", user |-> u, keyed |-> keyed, saw |-> role[u]] \in Handler
            BY <1>1 DEF Handler
        <3> QED BY <1>1, <2>2, <3>1 DEF Enter, Entered
    <2>3. ASSUME NEW r \in Requests, Finish(r) PROVE req' \in [Requests -> Handler] /\ Entered'
        BY <1>1, <2>3, Ends
    <2> QED BY <2>1, <2>2, <2>3 DEF CreateInvitation, RevokeInvitation, CreateKey, RevokeKey, Refused
<1>4. access' \in {"paid", "read_only"}
    BY <1>1 DEF Bill, Enter, CreateInvitation, RevokeInvitation, CreateKey, RevokeKey, Refused
<1>5. keys' \in [Keys -> Users \cup {Nobody}] /\ invitations' \subseteq Invitation
    <2>1. ASSUME NEW r \in Requests, req[r].pc = "entered" PROVE req[r].user \in Users
        BY <1>1, <2>1 DEF Entered
    <2>2. ASSUME NEW r \in Requests, NEW u \in Users, NEW new \in Roles \ {"owner"},
                 CreateInvitation(r, u, new)
          PROVE  invitations' \subseteq Invitation /\ keys' = keys
        BY <1>1, <2>1, <2>2 DEF CreateInvitation, Locked, Invitation
    <2>3. ASSUME NEW r \in Requests, NEW k \in Keys, CreateKey(r, k) \/ RevokeKey(r, k)
          PROVE  invitations' = invitations /\ keys' \in [Keys -> Users \cup {Nobody}]
        BY <1>1, <2>1, <2>3 DEF CreateKey, RevokeKey, Unlocked
    <2> QED BY <1>1, <2>2, <2>3 DEF Bill, Enter, RevokeInvitation, Refused
<1>6. TypeOK'
    BY <1>1, <1>2, <1>3, <1>4, <1>5, TypesAfter, Zenon
<1> QED BY <1>2, <1>3, <1>6, QuietSound

LEMMA NextSound == Sound /\ [Next]_vars => Sound'
<1> SUFFICES ASSUME Sound, [Next]_vars PROVE Sound'
    OBVIOUS
<1>1. CASE UNCHANGED vars
    BY <1>1 DEF vars, Sound, TypeOK, Entered, Vacant, AlwaysOwned, SeatsWithinPlan, RetentionHolds,
                Members, Live
<1>2. ASSUME NEW r \in Requests, Handle(r) PROVE Sound'
    BY <1>2, NewProjectSound, EditProjectSound, DeleteProjectSound, AddMemberSound,
       ModifyMemberSound, AcceptInvitationSound, ImportReportSound, TimeSound, DeskSound DEF Handle
<1> QED BY <1>1, <1>2, TimeSound, DeskSound DEF Next

THEOREM SoundAlways == Spec => []Sound
BY InitSound, NextSound, PTL DEF Spec

-----------------------------------------------------------------------------
(* The theorems. *)

\* The tables of projects, memberships, keys, invitations and reports, and what a
\* request has read, keep their types.
THEOREM MembershipTypes == Spec => []TypeOK
<1>1. Sound => TypeOK
    BY DEF Sound
<1> QED BY <1>1, SoundAlways, PTL

\* modify_member: whatever any number of owners do to each other at once, a
\* project keeps an owner.
THEOREM OwnerStays == Spec => []AlwaysOwned
<1>1. Sound => AlwaysOwned
    BY DEF Sound
<1> QED BY <1>1, SoundAlways, PTL

\* enforce: the members of a project never outnumber the seats of its plan, by
\* whichever of the three ways they join.
THEOREM SeatsHold == Spec => []SeatsWithinPlan
<1>1. Sound => SeatsWithinPlan
    BY DEF Sound
<1> QED BY <1>1, SoundAlways, PTL

\* edit_project: no retained report outlives the project's retention period.
THEOREM RetentionKept == Spec => []RetentionHolds
<1>1. Sound => RetentionHolds
    BY DEF Sound
<1> QED BY <1>1, SoundAlways, PTL

\* "Every request rechecks membership": whoever changes members, settings or
\* invitations is an owner in that moment, or joins by an invitation of one who
\* still is; whoever imports a report is a developer in that moment.
THEOREM AuthorityHolds == Spec => ChangesAuthorised
<1> DEFINE RolesAllowed == \A u \in Users : Live /\ role'[u] # role[u] =>
              (\E r \in Requests : Acts(r, "owner")) \/ (role[u] = "none" /\ Joins(u))
           DeskAllowed == Live /\ (project' # project \/ ~(invitations' \subseteq invitations)) =>
              \E r \in Requests : Acts(r, "owner")
           ImportsAllowed == \A x \in Reports : reports'[x].kept /\ ~reports[x].kept =>
              \E r \in Requests : Acts(r, "developer")
           Allowed == RolesAllowed /\ DeskAllowed /\ ImportsAllowed
<1>1. ASSUME Sound, [Next]_vars PROVE Allowed
    <2>1. /\ role \in [Users -> RoleNames] /\ req \in [Requests -> Handler]
          /\ reports \in [Reports -> ReportRow] /\ invitations \subseteq Invitation
        BY <1>1, Types, Zenon DEF Sound
    <2>2. ASSUME NEW r \in Requests, NEW minimum \in RoleNames, Locked(r, minimum), Finish(r)
          PROVE  Acts(r, minimum)
        BY <2>1, <2>2 DEF Locked, Holds, Acts, Finish, Idle
    <2>3. CASE UNCHANGED <<project, role, invitations>>
               /\ \A x \in Reports : reports'[x].kept => reports[x].kept
        BY <2>3
    <2>4. ASSUME NEW r \in Requests, Acts(r, "owner"),
                 \A x \in Reports : reports'[x].kept => reports[x].kept
          PROVE  Allowed
        BY <2>4
    <2>5. ASSUME NEW r \in Requests, NEW i \in invitations, AcceptInvitation(r, i) PROVE Allowed
        <3> DEFINE u == req[r].user
        <3>1. \A v \in Users : v # u => role'[v] = role[v]
            BY <2>1, <2>5 DEF AcceptInvitation
        <3>2. u \in Users
            BY <1>1, <2>5 DEF Sound, Entered, AcceptInvitation
        <3>3. role'[u] # role[u] => role[u] = "none" /\ Joins(u)
            BY <2>1, <2>5, <3>2 DEF AcceptInvitation, Acceptable, Joins
        <3>4. project' = project /\ invitations' \subseteq invitations /\ reports' = reports
            BY <2>5 DEF AcceptInvitation
        <3> HIDE DEF u
        <3>5. RolesAllowed
            BY <3>1, <3>3
        <3> QED BY <3>4, <3>5
    <2>6. ASSUME NEW r \in Requests, NEW days \in Retentions, NewProject(r, days) PROVE Allowed
        BY <2>6 DEF NewProject, Live
    <2>7. ASSUME NEW r \in Requests, NEW x \in Reports, ImportReport(r, x) PROVE Allowed
        <3>1. Acts(r, "developer")
            BY <2>2, <2>7 DEF ImportReport, RoleNames
        <3>2. UNCHANGED <<project, role, invitations>>
            BY <2>7 DEF ImportReport
        <3> QED BY <3>1, <3>2
    <2>8. ASSUME NEW r \in Requests, NEW days \in Retentions, EditProject(r, days) PROVE Allowed
        <3>1. Acts(r, "owner")
            BY <2>2, <2>8 DEF EditProject, RoleNames
        <3>2. \A x \in Reports : reports'[x].kept => reports[x].kept
            <4>1. \A x \in Reports : reports[x] \in ReportRow
                BY <2>1
            <4> QED BY <2>8, <4>1 DEF EditProject, Shortened, ReportRow
        <3> QED BY <2>4, <3>1, <3>2
    <2>9. ASSUME NEW r \in Requests, DeleteProject(r) PROVE Allowed
        <3>1. Acts(r, "owner")
            BY <2>2, <2>9 DEF DeleteProject, RoleNames
        <3>2. \A x \in Reports : reports'[x].kept => reports[x].kept
            BY <2>9 DEF DeleteProject, NoReport
        <3> QED BY <2>4, <3>1, <3>2
    <2>10. ASSUME NEW r \in Requests,
                  \/ \E u \in Users, new \in Roles : AddMember(r, u, new)
                  \/ \E u \in Users, new \in Roles \cup {"none"} : ModifyMember(r, u, new)
                  \/ \E u \in Users, new \in Roles \ {"owner"} : CreateInvitation(r, u, new)
                  \/ \E i \in invitations : RevokeInvitation(r, i)
           PROVE  Allowed
        <3>1. Acts(r, "owner")
            BY <2>2, <2>10 DEF AddMember, ModifyMember, CreateInvitation, RevokeInvitation, RoleNames
        <3>2. reports' = reports
            BY <2>10 DEF AddMember, ModifyMember, CreateInvitation, RevokeInvitation
        <3> QED BY <2>4, <3>1, <3>2
    <2>11. ASSUME NEW r \in Requests,
                  \/ \E u \in Users, keyed \in BOOLEAN : Enter(r, u, keyed)
                  \/ \E k \in Keys : CreateKey(r, k) \/ RevokeKey(r, k)
                  \/ Refused(r)
           PROVE  Allowed
        <3>1. UNCHANGED <<project, role, invitations, reports>>
            BY <2>11 DEF Enter, CreateKey, RevokeKey, Refused
        <3> QED BY <2>3, <3>1
    <2>12. CASE Sweep \/ \E r \in Requests : Cleanup(r)
        <3>1. UNCHANGED <<project, role, invitations>> /\ reports' = Swept
            BY <2>12 DEF Sweep, Cleanup
        <3>2. \A x \in Reports : reports'[x].kept => reports[x].kept
            BY <2>1, <3>1, Sweeping
        <3> QED BY <2>3, <3>1, <3>2
    <2>13. CASE Expire
        <3>1. UNCHANGED <<project, role>> /\ invitations' \subseteq invitations
            BY <2>13 DEF Expire
        <3>2. \A x \in Reports : reports'[x].kept => reports[x].kept
            BY <2>1, <2>13 DEF Expire, ReportRow
        <3> QED BY <3>1, <3>2
    <2>14. CASE Bill \/ UNCHANGED vars
        <3>1. UNCHANGED <<project, role, invitations, reports>>
            BY <2>14 DEF Bill, vars
        <3> QED BY <2>3, <3>1
    <2> HIDE DEF Allowed
    <2> QED BY <1>1, <2>5, <2>6, <2>7, <2>8, <2>9, <2>10, <2>11, <2>12, <2>13, <2>14 DEF Next, Handle
<1>2. Sound /\ [Next]_vars => [Allowed]_vars
    BY <1>1
<1> QED BY <1>2, SoundAlways, PTL DEF Spec, ChangesAuthorised
=============================================================================
