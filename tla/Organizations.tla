---------------------------- MODULE Organizations ----------------------------
(***************************************************************************)
(* Organizations of the core service: founding one, inviting members and   *)
(* joining.  The tenant client runs every statement in a transaction of    *)
(* its own, also those of a handler's $transaction, so a handler that      *)
(* fails or dies in the middle leaves what it has written.                 *)
(***************************************************************************)
EXTENDS Integers, FiniteSets

CONSTANTS
    Person,     \* users
    Org,        \* organizations, and their slugs
    Request,    \* requests in progress at a time
    MaxInvites, \* invites
    Seats,      \* seats of the plan
    MaxJoins,   \* requests to join
    MaxOFaults  \* statements that fail, processes that die

Invite == 1 .. MaxInvites
Role   == {"OWNER", "ADMIN", "MEMBER"}
NoOrg  == "none"

ASSUME OrgAssumption ==
    /\ MaxInvites \in Nat /\ Seats \in Nat /\ MaxJoins \in Nat /\ MaxOFaults \in Nat
    /\ NoOrg \notin Org /\ NoOrg \notin Person

VARIABLES
    founder,    \* org -> who created it, or NoOrg
    role,       \* OrgMember: <<person, org>> -> role, or NoOrg
    home,       \* User.orgId
    invite,     \* OrgInvite: org, role, status and who joined with it
    told,       \* outbox events: invites sent and members joined
    request,    \* the handler of each request
    joins,      \* requests to join so far
    overlap,    \* invites that two requests have handled at the same time
    ofaults     \* failures so far

orgVars == <<founder, role, home, invite, told, request, joins, overlap, ofaults>>

NoInvite == [org |-> NoOrg, role |-> "MEMBER", status |-> "none", by |-> {}]
Free == [pc |-> "free", who |-> NoOrg, org |-> NoOrg, inv |-> 0]

OrgTypeOK ==
    /\ founder \in [Org -> Person \cup {NoOrg}]
    /\ role \in [Person \X Org -> Role \cup {NoOrg}]
    /\ home \in [Person -> Org \cup {NoOrg}]
    /\ invite \in [Invite -> [org: Org \cup {NoOrg}, role: Role, by: SUBSET Person,
                              status: {"none", "PENDING", "ACCEPTED", "EXPIRED"}]]
    /\ told \subseteq ({"sent"} \X Invite) \cup ({"joined"} \X (Person \X Org))
    /\ request \in [Request -> [pc: {"free", "create", "owner", "home", "count", "invite", "sent",
                                     "move", "member", "accept", "joined", "expire"},
                                who: Person \cup {NoOrg}, org: Org \cup {NoOrg},
                                inv: {0} \cup Invite]]
    /\ \A r \in Request : request[r].pc = "free" <=> request[r].who = NoOrg
    /\ joins \in 0 .. MaxJoins
    /\ overlap \subseteq Invite
    /\ ofaults \in 0 .. MaxOFaults

OrgInit ==
    /\ founder = [o \in Org |-> NoOrg]
    /\ role = [m \in Person \X Org |-> NoOrg]
    /\ home = [p \in Person |-> NoOrg]
    /\ invite = [i \in Invite |-> NoInvite]
    /\ told = {}
    /\ request = [r \in Request |-> Free]
    /\ joins = 0
    /\ overlap = {}
    /\ ofaults = 0

-----------------------------------------------------------------------------
Step(r, pc) == request[r].pc = pc
Proceed(r, pc) == request' = [request EXCEPT ![r].pc = pc]

Answer(r) == request' = [request EXCEPT ![r] = Free]
Who(r) == request[r].who
OrgOf(r) == request[r].org
Inv(r) == request[r].inv

Members(o) == {p \in Person : role[<<p, o>>] # NoOrg}

(* POST /orgs                                                              *)

\* The slug is looked up, and answered 409 when it is taken.
Found(r, p, o) ==
    /\ Step(r, "free")
    /\ founder[o] = NoOrg
    /\ request' = [request EXCEPT ![r] = [pc |-> "create", who |-> p, org |-> o, inv |-> 0]]
    /\ UNCHANGED <<founder, role, home, invite, told, joins, overlap, ofaults>>

\* The unique slug lets one of two requests create the organization.
CreateOrg(r) ==
    /\ Step(r, "create")
    /\ IF founder[OrgOf(r)] = NoOrg
       THEN founder' = [founder EXCEPT ![OrgOf(r)] = Who(r)] /\ Proceed(r, "owner")
       ELSE Answer(r) /\ UNCHANGED founder
    /\ UNCHANGED <<role, home, invite, told, joins, overlap, ofaults>>

CreateOwner(r) ==
    /\ Step(r, "owner")
    /\ role' = [role EXCEPT ![<<Who(r), OrgOf(r)>>] = "OWNER"]
    /\ Proceed(r, "home")
    /\ UNCHANGED <<founder, home, invite, told, joins, overlap, ofaults>>

MoveOwner(r) ==
    /\ Step(r, "home")
    /\ home' = [home EXCEPT ![Who(r)] = OrgOf(r)]
    /\ Answer(r)
    /\ UNCHANGED <<founder, role, invite, told, joins, overlap, ofaults>>

(* POST /orgs/:orgId/invites                                               *)

\* Owners and admins may invite.
Invites(r, p, o) ==
    /\ Step(r, "free")
    /\ role[<<p, o>>] \in {"OWNER", "ADMIN"}
    /\ request' = [request EXCEPT ![r] = [pc |-> "count", who |-> p, org |-> o, inv |-> 0]]
    /\ UNCHANGED <<founder, role, home, invite, told, joins, overlap, ofaults>>

\* Members are counted against the seats; invites that are pending are not.
CountSeats(r) ==
    /\ Step(r, "count")
    /\ IF Cardinality(Members(OrgOf(r))) >= Seats THEN Answer(r) ELSE Proceed(r, "invite")
    /\ UNCHANGED <<founder, role, home, invite, told, joins, overlap, ofaults>>

CreateInvite(r, as) ==
    /\ Step(r, "invite")
    /\ \E i \in Invite :
           /\ invite[i].status = "none"
           /\ \A j \in Invite : j < i => invite[j].status # "none"
           /\ invite' = [invite EXCEPT ![i] =
                             [org |-> OrgOf(r), role |-> as, status |-> "PENDING", by |-> {}]]
           /\ request' = [request EXCEPT ![r].pc = "sent", ![r].inv = i]
    /\ UNCHANGED <<founder, role, home, told, joins, overlap, ofaults>>

\* The invite's event; the outbox has no sender for it.
InviteSent(r) ==
    /\ Step(r, "sent")
    /\ told' = told \cup {<<"sent", Inv(r)>>}
    /\ Answer(r)
    /\ UNCHANGED <<founder, role, home, invite, joins, overlap, ofaults>>

(* POST /orgs/join/:token                                                  *)

Joining(i) == {r \in Request : Inv(r) = i /\ ~Step(r, "sent")}

\* Mutant of Join: an invite that was accepted admits again.
JoinAgain(r, p, i) ==
    /\ Step(r, "free")
    /\ joins < MaxJoins
    /\ invite[i].status # "none"
    /\ joins' = joins + 1
    /\ overlap' = IF Joining(i) = {} THEN overlap ELSE overlap \cup {i}
    /\ \E pc \in {"move", "expire"} :
           request' = [request EXCEPT ![r] = [pc |-> pc, who |-> p, org |-> invite[i].org, inv |-> i]]
    /\ UNCHANGED <<founder, role, home, invite, told, ofaults>>

\* Whoever has the token of a pending invite joins, unless its seven days are over.
Join(r, p, i) ==
    /\ Step(r, "free")
    /\ joins < MaxJoins
    /\ invite[i].status = "PENDING"
    /\ joins' = joins + 1
    /\ overlap' = IF Joining(i) = {} THEN overlap ELSE overlap \cup {i}
    /\ \E pc \in {"move", "expire"} :
           request' = [request EXCEPT ![r] = [pc |-> pc, who |-> p, org |-> invite[i].org, inv |-> i]]
    /\ UNCHANGED <<founder, role, home, invite, told, ofaults>>

Expire(r) ==
    /\ Step(r, "expire")
    /\ invite' = [invite EXCEPT ![Inv(r)].status = "EXPIRED"]
    /\ Answer(r)
    /\ UNCHANGED <<founder, role, home, told, joins, overlap, ofaults>>

\* Mutant of MoveMember: the expiry is checked after the move.
MoveMemberFirst(r) ==
    /\ Step(r, "move")
    /\ home' = [home EXCEPT ![Who(r)] = OrgOf(r)]
    /\ Proceed(r, "member") \/ Proceed(r, "expire")
    /\ UNCHANGED <<founder, role, invite, told, joins, overlap, ofaults>>

MoveMember(r) ==
    /\ Step(r, "move")
    /\ home' = [home EXCEPT ![Who(r)] = OrgOf(r)]
    /\ Proceed(r, "member")
    /\ UNCHANGED <<founder, role, invite, told, joins, overlap, ofaults>>

\* One membership per person and organization: for a member the request ends with 500.
CreateMember(r) ==
    /\ Step(r, "member")
    /\ IF role[<<Who(r), OrgOf(r)>>] = NoOrg
       THEN /\ role' = [role EXCEPT ![<<Who(r), OrgOf(r)>>] = invite[Inv(r)].role]
            /\ invite' = [invite EXCEPT ![Inv(r)].by = @ \cup {Who(r)}]
            /\ Proceed(r, "accept")
       ELSE Answer(r) /\ UNCHANGED <<role, invite>>
    /\ UNCHANGED <<founder, home, told, joins, overlap, ofaults>>

Accept(r) ==
    /\ Step(r, "accept")
    /\ invite' = [invite EXCEPT ![Inv(r)].status = "ACCEPTED"]
    /\ Proceed(r, "joined")
    /\ UNCHANGED <<founder, role, home, told, joins, overlap, ofaults>>

MemberJoined(r) ==
    /\ Step(r, "joined")
    /\ told' = told \cup {<<"joined", <<Who(r), OrgOf(r)>>>>}
    /\ Answer(r)
    /\ UNCHANGED <<founder, role, home, invite, joins, overlap, ofaults>>

\* A statement fails, or the process dies: the handler ends where it is.
OrgFails(r) ==
    /\ ~Step(r, "free")
    /\ ofaults < MaxOFaults
    /\ ofaults' = ofaults + 1
    /\ Answer(r)
    /\ UNCHANGED <<founder, role, home, invite, told, joins, overlap>>

OrgNext ==
    \E r \in Request :
        \/ \E p \in Person, o \in Org : Found(r, p, o) \/ Invites(r, p, o)
        \/ \E p \in Person, i \in Invite : Join(r, p, i)
        \/ CreateOrg(r) \/ CreateOwner(r) \/ MoveOwner(r)
        \/ CountSeats(r) \/ InviteSent(r)
        \/ \E as \in {"ADMIN", "MEMBER"} : CreateInvite(r, as)
        \/ Expire(r) \/ MoveMember(r) \/ CreateMember(r) \/ Accept(r) \/ MemberJoined(r)
        \/ OrgFails(r)

OrgSpec == OrgInit /\ [][OrgNext]_orgVars

-----------------------------------------------------------------------------
(* Safety                                                                  *)

Busy(p) == \E r \in Request : Who(r) = p

\* A user's organization is one the user is a member of, once the requests are answered
\* and no statement of them failed: GET /orgs/me takes the membership for granted.
HomeIsMembership ==
    ofaults = 0 => \A p \in Person : Busy(p) \/ home[p] = NoOrg \/ role[<<p, home[p]>>] # NoOrg

\* An invite admits one person, unless requests overlap or a failure leaves it pending.
InviteAdmitsOne ==
    \A i \in Invite : ofaults = 0 /\ i \notin overlap => Cardinality(invite[i].by) <= 1

\* The founder is the owner, and stays it whatever invite is used later; every other
\* member has the role of an invite of that organization.
RoleForCause ==
    \A p \in Person, o \in Org : role[<<p, o>>] # NoOrg =>
        IF founder[o] = p THEN role[<<p, o>>] = "OWNER"
        ELSE \E i \in Invite : p \in invite[i].by /\ invite[i].org = o /\ invite[i].role = role[<<p, o>>]

\* An organization that was created has its owner, if nothing failed.
OrgHasOwner ==
    ofaults = 0 => \A o \in Org : founder[o] = NoOrg \/ Busy(founder[o]) \/ role[<<founder[o], o>>] = "OWNER"

\* A user's organization, the memberships and the owner agree with each other, although
\* each is written by a statement of its own.
MembershipHolds == OrgTypeOK /\ HomeIsMembership /\ OrgHasOwner

\* An invite gives one person the role it names.
InviteHolds == InviteAdmitsOne /\ RoleForCause

\* docs: the members and the pending invites are at most the seats.
SeatsHold == \A o \in Org : founder[o] # NoOrg => Cardinality(Members(o)) <= Seats
=============================================================================
