---------------------------- MODULE RecordsProofs ----------------------------
(***************************************************************************)
(* Theorems about the core service's records: organizations and their      *)
(* invites, guest trials, what users keep about content, and what is       *)
(* written about solved challenges, for any number of users, requests,     *)
(* consumers, messages and faults; and what is told of those records, for  *)
(* any number of rows.                                                     *)
(***************************************************************************)
EXTENDS Learning, Organizations, GuestTrial, Community, ReadModels, FiniteSetTheorems, SequenceTheorems, TLAPS

Early == {"create", "owner", "home", "count", "invite"}
Late  == {"sent", "move", "member", "accept", "joined", "expire"}

Handler == [pc: {"free"} \cup Early \cup Late, who: Person \cup {NoOrg}, org: Org \cup {NoOrg},
            inv: {0} \cup Invite]

\* An organization has an owner from the moment that anybody may act for it.
Owned(o) == founder[o] # NoOrg /\ role[<<founder[o], o>>] = "OWNER"

\* What holds of a handler: it is one of a person and an organization, and past its first
\* statement of an organization that has its owner.
HandlerSound(q) ==
    /\ q.pc # "free" => q.who \in Person /\ q.org \in Org
    /\ q.pc = "free" => q = Free
    /\ q.pc \in Early => q.inv = 0
    /\ q.pc \in Late => q.inv \in Invite /\ invite[q.inv].status # "none" /\ invite[q.inv].org = q.org
    /\ q.pc = "owner" => founder[q.org] = q.who
    /\ q.pc \in {"home", "count", "invite"} \cup Late => Owned(q.org)
    /\ q.pc = "home" => role[<<q.who, q.org>>] # NoOrg

RequestPart == \A r \in Request : request[r] \in Handler /\ HandlerSound(request[r])

InvitePart ==
    \A i \in Invite :
        /\ invite[i].status # "none" => invite[i].org \in Org /\ Owned(invite[i].org)
        /\ invite[i].status = "none" => invite[i].by = {}

RolePart == \A p \in Person, o \in Org : role[<<p, o>>] # NoOrg => Owned(o)

\* Whose organization is not one of the person's is being made a member.
HomePart ==
    ofaults = 0 => \A p \in Person :
        \/ home[p] = NoOrg
        \/ role[<<p, home[p]>>] # NoOrg
        \/ \E r \in Request : Step(r, "member") /\ Who(r) = p /\ OrgOf(r) = home[p]

\* Whose founder is not the owner has its founder made the owner.
OwnerPart ==
    ofaults = 0 => \A o \in Org :
        \/ founder[o] = NoOrg
        \/ Owned(o)
        \/ \E r \in Request : Step(r, "owner") /\ OrgOf(r) = o

\* An invite that requests have handled one after the other: one of them at a time, and
\* nobody has joined while a request may still add a member.
Alone(i) ==
    /\ \A p, q \in invite[i].by : p = q
    /\ \A q, r \in Joining(i) : q = r
    /\ invite[i].by # {} => invite[i].status = "ACCEPTED" \/ \E r \in Joining(i) : Step(r, "accept")
    /\ \A r \in Joining(i) : request[r].pc \in {"move", "member", "expire"} => invite[i].by = {}

AlonePart == ofaults = 0 => \A i \in Invite \ overlap : Alone(i)

OrgInv ==
    /\ OrgTypeOK /\ RequestPart /\ InvitePart /\ RolePart /\ RoleForCause
    /\ HomePart /\ OwnerPart /\ AlonePart

-----------------------------------------------------------------------------
(* Steps of a handler                                                      *)

\* What is written stays written: a founder, a membership, an owner, and an invite's
\* organization, its role and those who joined with it.
Grows ==
    /\ \A o \in Org : founder[o] # NoOrg => founder'[o] = founder[o]
    /\ \A m \in Person \X Org : role[m] # NoOrg => role'[m] # NoOrg
    /\ \A m \in Person \X Org : role[m] = "OWNER" => role'[m] = "OWNER"
    /\ \A i \in Invite : invite[i].status # "none" =>
        /\ invite'[i].status # "none"
        /\ invite'[i].org = invite[i].org /\ invite'[i].role = invite[i].role
        /\ invite[i].by \subseteq invite'[i].by

\* The types of all but the requests.
DataType ==
    /\ founder \in [Org -> Person \cup {NoOrg}]
    /\ role \in [Person \X Org -> Role \cup {NoOrg}]
    /\ home \in [Person -> Org \cup {NoOrg}]
    /\ invite \in [Invite -> [org: Org \cup {NoOrg}, role: Role, by: SUBSET Person,
                              status: {"none", "PENDING", "ACCEPTED", "EXPIRED"}]]
    /\ told \subseteq ({"sent"} \X Invite) \cup ({"joined"} \X (Person \X Org))
    /\ joins \in 0 .. MaxJoins
    /\ overlap \subseteq Invite
    /\ ofaults \in 0 .. MaxOFaults

LEMMA OwnedStays ==
    ASSUME OrgInv, Grows, NEW o \in Org, Owned(o)
    PROVE  Owned(o)'
<1>1. founder[o] \in Person /\ founder'[o] = founder[o]
  BY DEF OrgInv, OrgTypeOK, Owned, Grows
<1>2. role'[<<founder[o], o>>] = "OWNER"
  BY <1>1 DEF Owned, Grows
<1>. QED BY <1>1, <1>2, OrgAssumption DEF Owned

\* A handler that another one's step leaves alone stays sound.
LEMMA HandlerStays ==
    ASSUME OrgInv, Grows, NEW q \in Handler, HandlerSound(q)
    PROVE  HandlerSound(q)'
<1>1. ASSUME q.pc \in {"home", "count", "invite"} \cup Late
      PROVE  Owned(q.org)'
  <2>1. q.org \in Org /\ Owned(q.org)
    BY <1>1 DEF HandlerSound, Late
  <2>. QED BY <2>1, OwnedStays
<1>2. q.pc = "owner" => founder'[q.org] = q.who
  BY OrgAssumption DEF HandlerSound, Grows
<1>3. q.pc = "home" => role'[<<q.who, q.org>>] # NoOrg
  <2>1. q.pc = "home" => <<q.who, q.org>> \in Person \X Org
    BY DEF HandlerSound
  <2>. QED BY <2>1 DEF HandlerSound, Grows
<1>4. q.pc \in Late => q.inv \in Invite /\ invite'[q.inv].status # "none" /\ invite'[q.inv].org = q.org
  BY DEF HandlerSound, Grows
<1>5. /\ q.pc # "free" => q.who \in Person /\ q.org \in Org
      /\ q.pc = "free" => q = Free
      /\ q.pc \in Early => q.inv = 0
  BY DEF HandlerSound
<1>. QED BY <1>1, <1>2, <1>3, <1>4, <1>5 DEF HandlerSound

\* Request r's step leaves its handler in state v.
LEMMA RequestsStay ==
    ASSUME OrgInv, Grows, DataType', NEW r \in Request, NEW v \in Handler,
           request' = [request EXCEPT ![r] = v], HandlerSound(v)'
    PROVE  RequestPart' /\ OrgTypeOK'
<1>1. \A q \in Request : request[q] \in Handler /\ HandlerSound(request[q])
  BY DEF OrgInv, RequestPart
<1>2. request' \in [Request -> Handler]
  <2>1. request \in [Request -> Handler]
    BY <1>1 DEF OrgInv, OrgTypeOK
  <2>. QED BY <2>1
<1>3. ASSUME NEW q \in Request
      PROVE  HandlerSound(request[q])'
  <2>1. CASE q = r
    <3>1. request'[q] = v
      BY <2>1, <1>2 DEF OrgInv, OrgTypeOK
    <3>. QED BY <3>1
  <2>2. CASE q # r
    <3>1. PICK u \in Handler : u = request[q] /\ HandlerSound(u)
      BY <1>1
    <3>2. request'[q] = u
      BY <2>2, <3>1 DEF OrgInv, OrgTypeOK
    <3>3. HandlerSound(u)'
      BY <3>1, HandlerStays
    <3>. QED BY <3>2, <3>3
  <2>. QED BY <2>1, <2>2
<1>4. RequestPart'
  BY <1>2, <1>3 DEF RequestPart
<1>5. request' \in [Request -> [pc: {"free", "create", "owner", "home", "count", "invite", "sent",
                                     "move", "member", "accept", "joined", "expire"},
                                who: Person \cup {NoOrg}, org: Org \cup {NoOrg},
                                inv: {0} \cup Invite]]
  BY <1>2 DEF Handler, Early, Late
<1>6. \A q \in Request : request'[q].pc = "free" <=> request'[q].who = NoOrg
  <2>. SUFFICES ASSUME NEW q \in Request
                PROVE  request'[q].pc = "free" <=> request'[q].who = NoOrg
    OBVIOUS
  <2>1. PICK u \in Handler : u = request'[q]
    BY <1>2
  <2>2. (u.pc = "free" => u = Free) /\ (u.pc # "free" => u.who \in Person)
    BY <1>3, <2>1 DEF HandlerSound
  <2>. QED BY <2>1, <2>2, OrgAssumption DEF Free
<1>7. OrgTypeOK'
  BY <1>5, <1>6 DEF OrgTypeOK, DataType
<1>. QED BY <1>4, <1>7

\* A step that leaves the invites alone.
LEMMA InvitesStay ==
    ASSUME OrgInv, Grows, UNCHANGED invite
    PROVE  InvitePart'
BY OwnedStays DEF OrgInv, InvitePart

\* A step that leaves the memberships alone.
LEMMA RolesStay ==
    ASSUME OrgInv, Grows, UNCHANGED role,
           \A o \in Org : founder'[o] = founder[o] \/ founder[o] = NoOrg
    PROVE  RolePart' /\ RoleForCause'
<1>1. RolePart'
  BY OwnedStays DEF OrgInv, RolePart
<1>2. ASSUME NEW p \in Person, NEW o \in Org, role'[<<p, o>>] # NoOrg
      PROVE  IF founder'[o] = p THEN role'[<<p, o>>] = "OWNER"
             ELSE \E i \in Invite : p \in invite'[i].by /\ invite'[i].org = o
                                    /\ invite'[i].role = role'[<<p, o>>]
  <2>1. founder'[o] = founder[o] /\ founder[o] # NoOrg
    BY <1>2 DEF OrgInv, RolePart, Owned
  <2>2. CASE founder[o] = p
    BY <1>2, <2>1, <2>2 DEF OrgInv, RoleForCause
  <2>3. CASE founder[o] # p
    <3>1. PICK i \in Invite : p \in invite[i].by /\ invite[i].org = o /\ invite[i].role = role[<<p, o>>]
      BY <1>2, <2>3 DEF OrgInv, RoleForCause
    <3>2. invite[i].status # "none"
      BY <3>1 DEF OrgInv, InvitePart
    <3>3. p \in invite'[i].by /\ invite'[i].org = o /\ invite'[i].role = role[<<p, o>>]
      BY <3>1, <3>2 DEF Grows
    <3>. QED BY <2>1, <2>3, <3>3
  <2>. QED BY <2>2, <2>3
<1>3. RoleForCause'
  BY <1>2, Zenon DEF RoleForCause
<1>. QED BY <1>1, <1>3

\* A step that leaves the homes alone and is not that of a member to be made.
LEMMA HomesStay ==
    ASSUME OrgInv, Grows, UNCHANGED home, ofaults <= ofaults', NEW r \in Request, NEW v,
           request' = [request EXCEPT ![r] = v], request[r].pc # "member"
    PROVE  HomePart'
<1>. SUFFICES ASSUME ofaults' = 0, NEW p \in Person, home[p] # NoOrg, role'[<<p, home[p]>>] = NoOrg
              PROVE  \E q \in Request : (Step(q, "member") /\ Who(q) = p /\ OrgOf(q) = home[p])'
  BY DEF HomePart
<1>1. ofaults = 0 /\ home[p] \in Org
  BY DEF OrgInv, OrgTypeOK
<1>2. role[<<p, home[p]>>] = NoOrg
  BY <1>1 DEF Grows
<1>3. PICK q \in Request : Step(q, "member") /\ Who(q) = p /\ OrgOf(q) = home[p]
  BY <1>1, <1>2 DEF OrgInv, HomePart
<1>4. q # r
  BY <1>3 DEF Step
<1>. QED BY <1>3, <1>4 DEF Step, Who, OrgOf, OrgInv, OrgTypeOK

\* A step that creates no organization and is not that of an owner to be made.
LEMMA OwnersStay ==
    ASSUME OrgInv, Grows, UNCHANGED founder, ofaults <= ofaults', NEW r \in Request, NEW v,
           request' = [request EXCEPT ![r] = v], request[r].pc # "owner"
    PROVE  OwnerPart'
<1>. SUFFICES ASSUME ofaults' = 0, NEW o \in Org, founder[o] # NoOrg, ~Owned(o)'
              PROVE  \E q \in Request : (Step(q, "owner") /\ OrgOf(q) = o)'
  BY DEF OwnerPart
<1>1. ofaults = 0
  BY DEF OrgInv, OrgTypeOK
<1>2. ~Owned(o)
  BY OwnedStays
<1>3. PICK q \in Request : Step(q, "owner") /\ OrgOf(q) = o
  BY <1>1, <1>2 DEF OrgInv, OwnerPart
<1>4. q # r
  BY <1>3 DEF Step
<1>. QED BY <1>3, <1>4 DEF Step, OrgOf, OrgInv, OrgTypeOK

\* A request that does not join with invite i, before and after its step.
LEMMA ApartStays ==
    ASSUME OrgInv, NEW i \in Invite, Alone(i), invite'[i] = invite[i], NEW r \in Request, NEW v,
           request' = [request EXCEPT ![r] = v],
           request[r].inv # i \/ request[r].pc = "sent", v.inv # i \/ v.pc = "sent"
    PROVE  Alone(i)'
<1>1. Joining(i)' = Joining(i) /\ r \notin Joining(i)
  BY DEF Joining, Inv, Step, OrgInv, OrgTypeOK
<1>2. \A q \in Joining(i) : request'[q] = request[q]
  BY <1>1 DEF Joining, OrgInv, OrgTypeOK
<1>. QED BY <1>1, <1>2 DEF Alone, Step

\* A request that is answered, other than one that has added a member.
LEMMA AnsweredStays ==
    ASSUME OrgInv, NEW i \in Invite, Alone(i), NEW r \in Request, Answer(r),
           request[r].pc # "accept", invite'[i].by = invite[i].by,
           invite[i].status = "ACCEPTED" => invite'[i].status = "ACCEPTED" \/ invite[i].by = {}
    PROVE  Alone(i)'
<1>1. i # 0
  BY DEF Invite
<1>2. Joining(i)' = Joining(i) \ {r}
  BY <1>1 DEF Joining, Inv, Step, Answer, Free, OrgInv, OrgTypeOK
<1>3. \A q \in Joining(i) \ {r} : request'[q] = request[q]
  BY DEF Joining, Answer, OrgInv, OrgTypeOK
<1>4. \A p, q \in invite'[i].by : p = q
  BY DEF Alone
<1>5. \A p, q \in Joining(i)' : p = q
  BY <1>2 DEF Alone
<1>6. ASSUME invite'[i].by # {}
      PROVE  invite'[i].status = "ACCEPTED" \/ \E q \in Joining(i)' : Step(q, "accept")'
  <2>1. CASE invite[i].status = "ACCEPTED"
    BY <1>6, <2>1
  <2>2. CASE \E q \in Joining(i) : Step(q, "accept")
    <3>1. PICK q \in Joining(i) : Step(q, "accept")
      BY <2>2
    <3>2. q # r
      BY <3>1 DEF Step
    <3>. QED BY <1>2, <1>3, <3>1, <3>2 DEF Step
  <2>. QED BY <1>6, <2>1, <2>2 DEF Alone
<1>7. \A q \in Joining(i)' : request'[q].pc \in {"move", "member", "expire"} => invite'[i].by = {}
  BY <1>2, <1>3 DEF Alone
<1>. QED BY <1>4, <1>5, <1>6, <1>7 DEF Alone

-----------------------------------------------------------------------------
(* POST /orgs                                                              *)

\* A handler is of a person and an organization, and it is where it is.
LEMMA HandlerOf ==
    ASSUME OrgInv, NEW r \in Request, request[r].pc # "free"
    PROVE  /\ request[r] \in Handler /\ HandlerSound(request[r])
           /\ Who(r) \in Person /\ OrgOf(r) \in Org
BY DEF OrgInv, RequestPart, HandlerSound, Who, OrgOf

\* A handler that goes on, and one that ends.
LEMMA ProceedTo ==
    ASSUME OrgInv, NEW r \in Request, NEW c \in Early \cup Late, Proceed(r, c)
    PROVE  \E v \in Handler : /\ request' = [request EXCEPT ![r] = v]
                              /\ v.pc = c /\ v.who = Who(r) /\ v.org = OrgOf(r) /\ v.inv = Inv(r)
<1>. DEFINE v == [request[r] EXCEPT !.pc = c]
<1>1. request[r] \in Handler
  BY DEF OrgInv, RequestPart
<1>2. v \in Handler /\ v.pc = c /\ v.who = Who(r) /\ v.org = OrgOf(r) /\ v.inv = Inv(r)
  BY <1>1 DEF Handler, Who, OrgOf, Inv
<1>3. request' = [request EXCEPT ![r] = v]
  BY DEF Proceed
<1>. QED BY <1>2, <1>3

LEMMA AnswerTo ==
    ASSUME NEW r \in Request, Answer(r)
    PROVE  \E v \in Handler : /\ request' = [request EXCEPT ![r] = v] /\ HandlerSound(v)'
                              /\ v = Free /\ v.inv = 0 /\ v.pc = "free"
<1>1. PICK v \in Handler : v = Free
  BY DEF Handler, Free
<1>2. v.inv = 0 /\ v.pc = "free"
  BY <1>1 DEF Free
<1>3. HandlerSound(v)'
  BY <1>1, <1>2 DEF HandlerSound, Early, Late
<1>. QED BY <1>1, <1>2, <1>3 DEF Answer

\* A request that begins, for person p and organization o.
LEMMA BeginSound ==
    ASSUME OrgInv, NEW r \in Request, NEW p \in Person, NEW o \in Org, NEW pc \in {"create", "count"},
           Step(r, "free"), pc = "count" => Owned(o),
           request' = [request EXCEPT ![r] = [pc |-> pc, who |-> p, org |-> o, inv |-> 0]],
           UNCHANGED <<founder, role, home, invite, told, joins, overlap, ofaults>>
    PROVE  OrgInv'
<1>1. PICK v \in Handler : v = [pc |-> pc, who |-> p, org |-> o, inv |-> 0]
  BY DEF Handler, Early
<1>2. request' = [request EXCEPT ![r] = v]
  BY <1>1
<1>3. DataType' /\ Grows
  BY DEF OrgInv, OrgTypeOK, DataType, Grows
<1>4. HandlerSound(v)'
  <2>1. pc = "count" => Owned(o)'
    BY DEF Owned
  <2>. QED BY <1>1, <2>1 DEF HandlerSound, Early, Late
<1>5. OrgTypeOK' /\ RequestPart'
  BY <1>2, <1>3, <1>4, RequestsStay
<1>6. InvitePart' /\ RolePart' /\ RoleForCause'
  BY <1>3, InvitesStay, RolesStay
<1>7. HomePart' /\ OwnerPart'
  <2>1. ofaults <= ofaults' /\ request[r].pc \notin {"member", "owner"}
    BY OrgAssumption DEF OrgInv, OrgTypeOK, Step
  <2>. QED BY <1>2, <1>3, <2>1, HomesStay, OwnersStay
<1>8. AlonePart'
  <2>. SUFFICES ASSUME ofaults' = 0, NEW i \in Invite \ overlap
                PROVE  Alone(i)'
    BY DEF AlonePart
  <2>1. Alone(i) /\ i # 0
    BY DEF OrgInv, AlonePart, Invite
  <2>2. request[r] = Free
    BY DEF OrgInv, RequestPart, HandlerSound, Step
  <2>3. request[r].inv # i /\ v.inv # i
    BY <1>1, <2>1, <2>2 DEF Free
  <2>. QED BY <1>2, <2>1, <2>3, ApartStays
<1>. QED BY <1>5, <1>6, <1>7, <1>8 DEF OrgInv

\* A step that goes on before any invite is chosen, or answers; the data may grow.
LEMMA AloneApart ==
    ASSUME OrgInv, UNCHANGED <<invite, overlap>>, ofaults' = 0 => ofaults = 0,
           NEW r \in Request, NEW v, request' = [request EXCEPT ![r] = v],
           request[r].inv = 0 \/ request[r].pc = "sent", v.inv = 0
    PROVE  AlonePart'
<1>. SUFFICES ASSUME ofaults' = 0, NEW i \in Invite \ overlap
              PROVE  Alone(i)'
  BY DEF AlonePart
<1>1. Alone(i) /\ i # 0
  BY DEF OrgInv, AlonePart, Invite
<1>. QED BY <1>1, ApartStays

LEMMA CreateOrgSound ==
    ASSUME OrgInv, NEW r \in Request, CreateOrg(r)
    PROVE  OrgInv'
<1>. DEFINE o == OrgOf(r)
<1>1. /\ request[r] \in Handler /\ request[r].pc = "create" /\ request[r].inv = 0
      /\ Who(r) \in Person /\ o \in Org
  BY HandlerOf DEF CreateOrg, Step, HandlerSound, Early
<1>2. PICK v \in Handler :
          /\ request' = [request EXCEPT ![r] = v]
          /\ v.inv = 0
          /\ \/ founder[o] = NoOrg /\ v.pc = "owner" /\ v.who = Who(r) /\ v.org = o
             \/ founder[o] # NoOrg /\ v = Free
  <2>1. CASE founder[o] = NoOrg
    <3>1. Proceed(r, "owner")
      BY <2>1 DEF CreateOrg
    <3>. QED BY <1>1, <2>1, <3>1, ProceedTo DEF Early, Inv
  <2>2. CASE founder[o] # NoOrg
    BY <2>2, AnswerTo DEF CreateOrg
  <2>. QED BY <2>1, <2>2
<1>3. \/ founder[o] = NoOrg /\ founder' = [founder EXCEPT ![o] = Who(r)]
      \/ founder[o] # NoOrg /\ founder' = founder
  BY DEF CreateOrg
<1>4. UNCHANGED <<role, home, invite, told, joins, overlap, ofaults>>
  BY DEF CreateOrg
<1>5. DataType'
  BY <1>1, <1>3, <1>4 DEF OrgInv, OrgTypeOK, DataType
<1>6. Grows
  <2>1. \A b \in Org : founder[b] # NoOrg => founder'[b] = founder[b]
    BY <1>1, <1>3 DEF OrgInv, OrgTypeOK
  <2>. QED BY <1>4, <2>1 DEF Grows
<1>7. HandlerSound(v)'
  <2>1. CASE v = Free
    BY <2>1 DEF HandlerSound, Free, Early, Late
  <2>2. CASE v.pc = "owner" /\ v.who = Who(r) /\ v.org = o /\ founder[o] = NoOrg
    <3>1. founder'[o] = Who(r)
      BY <1>1, <1>3, <2>2 DEF OrgInv, OrgTypeOK
    <3>. QED BY <1>1, <1>2, <2>2, <3>1 DEF HandlerSound, Late
  <2>. QED BY <1>2, <2>1, <2>2
<1>8. OrgTypeOK' /\ RequestPart'
  BY <1>2, <1>5, <1>6, <1>7, RequestsStay
<1>9. InvitePart' /\ RolePart' /\ RoleForCause'
  <2>1. \A b \in Org : founder'[b] = founder[b] \/ founder[b] = NoOrg
    BY <1>6 DEF Grows
  <2>. QED BY <1>4, <1>6, <2>1, InvitesStay, RolesStay
<1>10. HomePart'
  <2>1. ofaults <= ofaults'
    BY <1>4, OrgAssumption DEF OrgInv, OrgTypeOK
  <2>. QED BY <1>1, <1>2, <1>4, <1>6, <2>1, HomesStay
<1>11. OwnerPart'
  <2>. SUFFICES ASSUME ofaults = 0, NEW b \in Org, founder'[b] # NoOrg, ~Owned(b)'
                PROVE  \E q \in Request : (Step(q, "owner") /\ OrgOf(q) = b)'
    BY <1>4 DEF OwnerPart
  <2>1. CASE b = o /\ founder[o] = NoOrg
    <3>1. request'[r] = v
      BY <1>2 DEF OrgInv, OrgTypeOK
    <3>2. v.pc = "owner" /\ v.org = b
      BY <1>2, <2>1
    <3>. QED BY <3>1, <3>2 DEF Step, OrgOf
  <2>2. CASE ~(b = o /\ founder[o] = NoOrg)
    <3>1. founder'[b] = founder[b]
      BY <1>1, <1>3, <2>2 DEF OrgInv, OrgTypeOK
    <3>2. ~Owned(b)
      BY <1>6, OwnedStays
    <3>3. PICK q \in Request : Step(q, "owner") /\ OrgOf(q) = b
      BY <3>1, <3>2 DEF OrgInv, OwnerPart
    <3>4. q # r
      BY <1>1, <3>3 DEF Step
    <3>. QED BY <1>2, <3>3, <3>4 DEF Step, OrgOf, OrgInv, OrgTypeOK
  <2>. QED BY <2>1, <2>2
<1>12. AlonePart'
  BY <1>1, <1>2, <1>4, AloneApart
<1>. QED BY <1>8, <1>9, <1>10, <1>11, <1>12 DEF OrgInv

LEMMA CreateOwnerSound ==
    ASSUME OrgInv, NEW r \in Request, CreateOwner(r)
    PROVE  OrgInv'
<1>1. PICK o \in Org, p \in Person :
          /\ o = OrgOf(r) /\ p = Who(r) /\ founder[o] = p
          /\ request[r] \in Handler /\ request[r].pc = "owner" /\ request[r].inv = 0
  BY HandlerOf DEF CreateOwner, Step, HandlerSound, Early, Who, OrgOf
<1>2. PICK v \in Handler : /\ request' = [request EXCEPT ![r] = v]
                           /\ v.inv = 0 /\ v.pc = "home" /\ v.who = p /\ v.org = o
  <2>1. Proceed(r, "home")
    BY DEF CreateOwner
  <2>. QED BY <1>1, <2>1, ProceedTo DEF Early, Inv
<1>3. role' = [role EXCEPT ![<<p, o>>] = "OWNER"]
  BY <1>1 DEF CreateOwner
<1>4. UNCHANGED <<founder, home, invite, told, joins, overlap, ofaults>>
  BY DEF CreateOwner
<1>5. DataType'
  BY <1>1, <1>3, <1>4 DEF OrgInv, OrgTypeOK, DataType, Role
<1>6. \A m \in Person \X Org : role'[m] = IF m = <<p, o>> THEN "OWNER" ELSE role[m]
  BY <1>1, <1>3 DEF OrgInv, OrgTypeOK
<1>7. Grows
  <2>1. "OWNER" # NoOrg
    BY DEF NoOrg
  <2>2. \A m \in Person \X Org : role[m] # NoOrg => role'[m] # NoOrg
    BY <1>6, <2>1
  <2>3. \A m \in Person \X Org : role[m] = "OWNER" => role'[m] = "OWNER"
    BY <1>6
  <2>. QED BY <1>4, <2>2, <2>3 DEF Grows
<1>8. Owned(o)'
  BY <1>1, <1>4, <1>6, OrgAssumption DEF Owned
<1>9. HandlerSound(v)'
  <2>1. role'[<<p, o>>] # NoOrg
    BY <1>1, <1>6 DEF NoOrg
  <2>. QED BY <1>1, <1>2, <1>8, <2>1 DEF HandlerSound, Late
<1>10. OrgTypeOK' /\ RequestPart'
  BY <1>2, <1>5, <1>7, <1>9, RequestsStay
<1>11. InvitePart'
  BY <1>4, <1>7, InvitesStay
<1>12. RolePart'
  <2>. SUFFICES ASSUME NEW q \in Person, NEW b \in Org, role'[<<q, b>>] # NoOrg
                PROVE  Owned(b)'
    BY DEF RolePart
  <2>1. CASE b = o
    BY <1>8, <2>1
  <2>2. CASE b # o
    BY <1>6, <1>7, <2>2, OwnedStays DEF OrgInv, RolePart
  <2>. QED BY <2>1, <2>2
<1>13. RoleForCause'
  <2>. SUFFICES ASSUME NEW q \in Person, NEW b \in Org, role'[<<q, b>>] # NoOrg
                PROVE  IF founder'[b] = q THEN role'[<<q, b>>] = "OWNER"
                       ELSE \E i \in Invite : q \in invite'[i].by /\ invite'[i].org = b
                                              /\ invite'[i].role = role'[<<q, b>>]
    BY Zenon DEF RoleForCause
  <2>1. CASE q = p /\ b = o
    BY <1>1, <1>4, <1>6, <2>1
  <2>2. CASE ~(q = p /\ b = o)
    <3>1. role'[<<q, b>>] = role[<<q, b>>]
      BY <1>6, <2>2
    <3>. QED BY <1>4, <3>1 DEF OrgInv, RoleForCause
  <2>. QED BY <2>1, <2>2
<1>14. HomePart'
  <2>1. ofaults <= ofaults'
    BY <1>4, OrgAssumption DEF OrgInv, OrgTypeOK
  <2>. QED BY <1>1, <1>2, <1>4, <1>7, <2>1, HomesStay
<1>15. OwnerPart'
  <2>. SUFFICES ASSUME ofaults = 0, NEW b \in Org, founder[b] # NoOrg, ~Owned(b)'
                PROVE  \E q \in Request : (Step(q, "owner") /\ OrgOf(q) = b)'
    BY <1>4 DEF OwnerPart
  <2>1. b # o
    BY <1>8
  <2>2. PICK q \in Request : Step(q, "owner") /\ OrgOf(q) = b
    BY <1>7, OwnedStays DEF OrgInv, OwnerPart
  <2>3. q # r
    BY <1>1, <2>1, <2>2
  <2>. QED BY <1>2, <2>2, <2>3 DEF Step, OrgOf, OrgInv, OrgTypeOK
<1>16. AlonePart'
  BY <1>1, <1>2, <1>4, AloneApart
<1>. QED BY <1>10, <1>11, <1>12, <1>13, <1>14, <1>15, <1>16 DEF OrgInv

\* A person moves to an organization that the person is a member of, or is made one of.
LEMMA HomeMoves ==
    ASSUME OrgInv, NEW p \in Person, NEW o \in Org, NEW r \in Request, NEW v,
           home' = [home EXCEPT ![p] = o], UNCHANGED <<role, ofaults>>,
           request' = [request EXCEPT ![r] = v], request[r].pc # "member",
           role[<<p, o>>] # NoOrg \/ (v.pc = "member" /\ v.who = p /\ v.org = o)
    PROVE  HomePart'
<1>. SUFFICES ASSUME ofaults = 0, NEW q \in Person, home'[q] # NoOrg, role[<<q, home'[q]>>] = NoOrg
              PROVE  \E s \in Request : (Step(s, "member") /\ Who(s) = q /\ OrgOf(s) = home[q])'
  BY DEF HomePart
<1>1. CASE q = p
  <2>1. home'[q] = o
    BY <1>1 DEF OrgInv, OrgTypeOK
  <2>2. request'[r] = v
    BY DEF OrgInv, OrgTypeOK
  <2>. QED BY <1>1, <2>1, <2>2 DEF Step, Who, OrgOf
<1>2. CASE q # p
  <2>1. home'[q] = home[q]
    BY <1>2 DEF OrgInv, OrgTypeOK
  <2>2. PICK s \in Request : Step(s, "member") /\ Who(s) = q /\ OrgOf(s) = home[q]
    BY <2>1 DEF OrgInv, HomePart
  <2>3. s # r
    BY <2>2 DEF Step
  <2>. QED BY <2>1, <2>2, <2>3 DEF Step, Who, OrgOf, OrgInv, OrgTypeOK
<1>. QED BY <1>1, <1>2

LEMMA MoveOwnerSound ==
    ASSUME OrgInv, NEW r \in Request, MoveOwner(r)
    PROVE  OrgInv'
<1>1. /\ request[r].pc = "home" /\ request[r].inv = 0
      /\ Who(r) \in Person /\ OrgOf(r) \in Org /\ role[<<Who(r), OrgOf(r)>>] # NoOrg
  BY HandlerOf DEF MoveOwner, Step, HandlerSound, Early, Who, OrgOf
<1>2. PICK v \in Handler : request' = [request EXCEPT ![r] = v] /\ v = Free /\ v.inv = 0
  BY AnswerTo DEF MoveOwner
<1>3. home' = [home EXCEPT ![Who(r)] = OrgOf(r)]
  BY DEF MoveOwner
<1>4. UNCHANGED <<founder, role, invite, told, joins, overlap, ofaults>>
  BY DEF MoveOwner
<1>5. DataType' /\ Grows
  BY <1>1, <1>3, <1>4 DEF OrgInv, OrgTypeOK, DataType, Grows
<1>6. HandlerSound(v)'
  BY <1>2 DEF HandlerSound, Free, Early, Late
<1>7. OrgTypeOK' /\ RequestPart'
  BY <1>2, <1>5, <1>6, RequestsStay
<1>8. InvitePart' /\ RolePart' /\ RoleForCause'
  BY <1>4, <1>5, InvitesStay, RolesStay
<1>9. HomePart'
  BY <1>1, <1>2, <1>3, <1>4, HomeMoves
<1>10. OwnerPart'
  <2>1. ofaults <= ofaults'
    BY <1>4, OrgAssumption DEF OrgInv, OrgTypeOK
  <2>. QED BY <1>1, <1>2, <1>4, <1>5, <2>1, OwnersStay
<1>11. AlonePart'
  BY <1>1, <1>2, <1>4, AloneApart
<1>. QED BY <1>7, <1>8, <1>9, <1>10, <1>11 DEF OrgInv

-----------------------------------------------------------------------------
(* POST /orgs/:orgId/invites                                               *)

\* What a step that leaves the records alone and no request joining keeps.
LEMMA RecordsStay ==
    ASSUME OrgInv, NEW r \in Request, NEW v \in Handler, request' = [request EXCEPT ![r] = v],
           HandlerSound(v)', request[r].pc \notin {"member", "owner"},
           UNCHANGED <<founder, role, home, invite, joins, overlap, ofaults>>,
           told' \subseteq ({"sent"} \X Invite) \cup ({"joined"} \X (Person \X Org)),
           AlonePart'
    PROVE  OrgInv'
<1>1. DataType' /\ Grows
  BY DEF OrgInv, OrgTypeOK, DataType, Grows
<1>2. OrgTypeOK' /\ RequestPart'
  BY <1>1, RequestsStay
<1>3. InvitePart' /\ RolePart' /\ RoleForCause'
  BY <1>1, InvitesStay, RolesStay
<1>4. HomePart' /\ OwnerPart'
  <2>1. ofaults <= ofaults'
    BY OrgAssumption DEF OrgInv, OrgTypeOK
  <2>. QED BY <1>1, <2>1, HomesStay, OwnersStay
<1>. QED BY <1>2, <1>3, <1>4 DEF OrgInv

LEMMA CountSeatsSound ==
    ASSUME OrgInv, NEW r \in Request, CountSeats(r)
    PROVE  OrgInv'
<1>1. PICK o \in Org, p \in Person :
          /\ o = OrgOf(r) /\ p = Who(r) /\ Owned(o)
          /\ request[r].pc = "count" /\ Inv(r) = 0
  BY HandlerOf DEF CountSeats, Step, HandlerSound, Early, Who, OrgOf, Inv
<1>2. PICK v \in Handler :
          /\ request' = [request EXCEPT ![r] = v] /\ v.inv = 0
          /\ v = Free \/ (v.pc = "invite" /\ v.who = p /\ v.org = o)
  <2>1. CASE Proceed(r, "invite")
    BY <1>1, <2>1, ProceedTo DEF Early
  <2>2. CASE Answer(r)
    BY <2>2, AnswerTo
  <2>. QED BY <2>1, <2>2 DEF CountSeats
<1>3. UNCHANGED <<founder, role, home, invite, told, joins, overlap, ofaults>>
  BY DEF CountSeats
<1>4. HandlerSound(v)'
  <2>1. CASE v = Free
    BY <2>1 DEF HandlerSound, Free, Early, Late
  <2>2. CASE v.pc = "invite" /\ v.who = p /\ v.org = o
    <3>1. Owned(o)'
      BY <1>1, <1>3 DEF Owned
    <3>. QED BY <1>2, <2>2, <3>1 DEF HandlerSound, Late
  <2>. QED BY <1>2, <2>1, <2>2
<1>5. AlonePart'
  BY <1>1, <1>2, <1>3, AloneApart DEF Inv
<1>. QED BY <1>1, <1>2, <1>3, <1>4, <1>5, RecordsStay DEF OrgInv, OrgTypeOK

LEMMA CreateInviteSound ==
    ASSUME OrgInv, NEW r \in Request, NEW as \in {"ADMIN", "MEMBER"}, CreateInvite(r, as)
    PROVE  OrgInv'
<1>1. PICK o \in Org, p \in Person :
          /\ o = OrgOf(r) /\ p = Who(r) /\ Owned(o) /\ request[r] \in Handler
          /\ request[r].pc = "invite" /\ request[r].inv = 0
  BY HandlerOf DEF CreateInvite, Step, HandlerSound, Early, Who, OrgOf
<1>2. PICK i \in Invite :
          /\ invite[i].status = "none"
          /\ invite' = [invite EXCEPT ![i] = [org |-> o, role |-> as, status |-> "PENDING", by |-> {}]]
          /\ request' = [request EXCEPT ![r].pc = "sent", ![r].inv = i]
  BY <1>1, Zenon DEF CreateInvite
<1>3. UNCHANGED <<founder, role, home, told, joins, overlap, ofaults>>
  BY DEF CreateInvite
<1>4. /\ invite'[i] = [org |-> o, role |-> as, status |-> "PENDING", by |-> {}]
      /\ \A j \in Invite \ {i} : invite'[j] = invite[j]
  BY <1>2 DEF OrgInv, OrgTypeOK
<1>5. PICK v \in Handler : /\ request' = [request EXCEPT ![r] = v]
                           /\ v.pc = "sent" /\ v.who = p /\ v.org = o /\ v.inv = i
  <2>. DEFINE v == [request[r] EXCEPT !.pc = "sent", !.inv = i]
  <2>1. v \in Handler /\ v.pc = "sent" /\ v.who = p /\ v.org = o /\ v.inv = i
    BY <1>1 DEF Handler, Late, Who, OrgOf
  <2>2. request' = [request EXCEPT ![r] = v]
    BY <1>2
  <2>. QED BY <2>1, <2>2
<1>6. DataType'
  BY <1>1, <1>2, <1>3 DEF OrgInv, OrgTypeOK, DataType, Role
<1>7. Grows
  BY <1>2, <1>3, <1>4 DEF Grows
<1>8. Owned(o)'
  BY <1>1, <1>7, OwnedStays
<1>9. HandlerSound(v)'
  BY <1>1, <1>4, <1>5, <1>8 DEF HandlerSound, Early, Late
<1>10. OrgTypeOK' /\ RequestPart'
  BY <1>5, <1>6, <1>7, <1>9, RequestsStay
<1>11. InvitePart'
  <2>. SUFFICES ASSUME NEW j \in Invite
                PROVE  /\ invite'[j].status # "none" => invite'[j].org \in Org /\ Owned(invite[j].org)'
                       /\ invite'[j].status = "none" => invite'[j].by = {}
    BY DEF InvitePart
  <2>1. CASE j = i
    BY <1>4, <1>8, <2>1
  <2>2. CASE j # i
    BY <1>4, <1>7, <2>2, OwnedStays DEF OrgInv, InvitePart
  <2>. QED BY <2>1, <2>2
<1>12. RolePart' /\ RoleForCause'
  BY <1>3, <1>7, RolesStay
<1>13. HomePart' /\ OwnerPart'
  <2>1. ofaults <= ofaults'
    BY <1>3, OrgAssumption DEF OrgInv, OrgTypeOK
  <2>. QED BY <1>1, <1>3, <1>5, <1>7, <2>1, HomesStay, OwnersStay
<1>14. AlonePart'
  <2>. SUFFICES ASSUME ofaults = 0, NEW j \in Invite \ overlap
                PROVE  Alone(j)'
    BY <1>3 DEF AlonePart
  <2>1. Alone(j) /\ j # 0
    BY DEF OrgInv, AlonePart, Invite
  <2>2. CASE j # i
    BY <1>1, <1>4, <1>5, <2>1, <2>2, ApartStays
  <2>3. CASE j = i
    <3>1. ASSUME NEW q \in Request \ {r}
          PROVE  q \notin Joining(i)'
      <4>1. request'[q] = request[q]
        BY <1>5 DEF OrgInv, OrgTypeOK
      <4>2. request[q].inv # i
        <5>1. PICK u \in Handler : u = request[q] /\ HandlerSound(u)
          BY DEF OrgInv, RequestPart
        <5>2. u.pc = "free" => u.inv = 0
          BY <5>1 DEF HandlerSound, Free
        <5>3. u.pc \in Early \/ u.pc \in Late \/ u.pc = "free"
          BY DEF Handler
        <5>. QED BY <1>2, <2>1, <2>3, <5>1, <5>2, <5>3 DEF HandlerSound
      <4>. QED BY <4>1, <4>2 DEF Joining, Inv
    <3>2. r \notin Joining(i)'
      BY <1>5 DEF Joining, Step, OrgInv, OrgTypeOK
    <3>3. Joining(i)' = {}
      <4>1. Joining(i)' \subseteq Request
        BY DEF Joining
      <4>. QED BY <3>1, <3>2, <4>1
    <3>. QED BY <1>4, <2>3, <3>3 DEF Alone
  <2>. QED BY <2>2, <2>3
<1>. QED BY <1>10, <1>11, <1>12, <1>13, <1>14 DEF OrgInv

LEMMA InviteSentSound ==
    ASSUME OrgInv, NEW r \in Request, InviteSent(r)
    PROVE  OrgInv'
<1>1. request[r].pc = "sent" /\ Inv(r) \in Invite
  BY HandlerOf DEF InviteSent, Step, HandlerSound, Late, Inv
<1>2. PICK v \in Handler : /\ request' = [request EXCEPT ![r] = v] /\ HandlerSound(v)'
                           /\ v = Free /\ v.inv = 0 /\ v.pc = "free"
  BY AnswerTo DEF InviteSent
<1>3. UNCHANGED <<founder, role, home, invite, joins, overlap, ofaults>>
  BY DEF InviteSent
<1>4. told' \subseteq ({"sent"} \X Invite) \cup ({"joined"} \X (Person \X Org))
  BY <1>1 DEF InviteSent, OrgInv, OrgTypeOK
<1>5. AlonePart'
  BY <1>1, <1>2, <1>3, AloneApart
<1>. QED BY <1>1, <1>2, <1>3, <1>4, <1>5, RecordsStay

-----------------------------------------------------------------------------
(* POST /orgs/join/:token                                                  *)

\* A step of a request that joins with invite i, by person p of organization o, in which
\* the invite's organization, role and members stay.
LEMMA JoiningStays ==
    ASSUME OrgInv, NEW i \in Invite, invite[i].status # "none",
           NEW st \in {"none", "PENDING", "ACCEPTED", "EXPIRED"}, st # "none",
           invite' = [invite EXCEPT ![i].status = st]
    PROVE  /\ invite' \in [Invite -> [org: Org \cup {NoOrg}, role: Role, by: SUBSET Person,
                                      status: {"none", "PENDING", "ACCEPTED", "EXPIRED"}]]
           /\ invite'[i].status = st
           /\ invite'[i].org = invite[i].org /\ invite'[i].role = invite[i].role
           /\ invite'[i].by = invite[i].by
           /\ \A j \in Invite \ {i} : invite'[j] = invite[j]
BY DEF OrgInv, OrgTypeOK

\* Every invite that is there names an organization with an owner, if the invites keep
\* their organizations.
LEMMA InvitesKeep ==
    ASSUME OrgInv, Grows,
           \A j \in Invite : invite[j].status = "none" => invite'[j] = invite[j]
    PROVE  InvitePart'
<1>. SUFFICES ASSUME NEW j \in Invite
              PROVE  /\ invite'[j].status # "none" => invite'[j].org \in Org /\ Owned(invite[j].org)'
                     /\ invite'[j].status = "none" => invite'[j].by = {}
  BY DEF InvitePart
<1>1. CASE invite[j].status = "none"
  BY <1>1 DEF OrgInv, InvitePart
<1>2. CASE invite[j].status # "none"
  <2>1. PICK o \in Org : o = invite[j].org /\ Owned(o)
    BY <1>2 DEF OrgInv, InvitePart
  <2>2. Owned(o)' /\ invite'[j].org = o /\ invite'[j].status # "none"
    BY <1>2, <2>1, OwnedStays DEF Grows
  <2>. QED BY <2>2
<1>. QED BY <1>1, <1>2

\* The request of a person that joins, at one of the statements from the first on.
LEMMA JoiningOf ==
    ASSUME OrgInv, NEW r \in Request, request[r].pc \in {"move", "member", "accept", "joined", "expire"}
    PROVE  \E o \in Org, p \in Person, i \in Invite :
               /\ o = OrgOf(r) /\ p = Who(r) /\ i = Inv(r) /\ Owned(o) /\ i # 0
               /\ invite[i].status # "none" /\ invite[i].org = o
               /\ r \in Joining(i)
<1>1. request[r].pc # "free" /\ request[r].pc \in Late /\ request[r].pc # "sent"
  BY DEF Late
<1>2. PICK u \in Handler : u = request[r] /\ HandlerSound(u) /\ u.who \in Person /\ u.org \in Org
  BY <1>1, HandlerOf DEF Who, OrgOf
<1>3. Owned(u.org) /\ u.inv \in Invite /\ invite[u.inv].status # "none" /\ invite[u.inv].org = u.org
  BY <1>1, <1>2 DEF HandlerSound
<1>4. r \in Joining(u.inv) /\ u.inv # 0
  BY <1>1, <1>2, <1>3 DEF Joining, Step, Inv, Invite
<1>. QED BY <1>2, <1>3, <1>4 DEF Who, OrgOf, Inv

LEMMA JoinSound ==
    ASSUME OrgInv, NEW r \in Request, NEW p \in Person, NEW i \in Invite, Join(r, p, i)
    PROVE  OrgInv'
<1>1. PICK pc \in {"move", "expire"} :
          request' = [request EXCEPT ![r] = [pc |-> pc, who |-> p, org |-> invite[i].org, inv |-> i]]
  BY DEF Join
<1>2. /\ request[r].pc = "free" /\ invite[i].status = "PENDING" /\ joins < MaxJoins
      /\ joins' = joins + 1
      /\ overlap' = IF Joining(i) = {} THEN overlap ELSE overlap \cup {i}
      /\ UNCHANGED <<founder, role, home, invite, told, ofaults>>
  BY DEF Join, Step
<1>3. PICK o \in Org : o = invite[i].org /\ Owned(o)
  BY <1>2 DEF OrgInv, InvitePart
<1>4. PICK v \in Handler : /\ v = [pc |-> pc, who |-> p, org |-> o, inv |-> i]
                           /\ v.pc \in {"move", "expire"} /\ v.who = p /\ v.org = o /\ v.inv = i
  <2>. DEFINE v == [pc |-> pc, who |-> p, org |-> o, inv |-> i]
  <2>1. v \in Handler
    BY DEF Handler, Late
  <2>2. v.pc \in {"move", "expire"} /\ v.who = p /\ v.org = o /\ v.inv = i
    OBVIOUS
  <2>. QED BY <2>1, <2>2
<1>5. request' = [request EXCEPT ![r] = v]
  BY <1>1, <1>3, <1>4
<1>6. DataType' /\ Grows
  <2>1. joins' \in 0 .. MaxJoins
    BY <1>2, OrgAssumption DEF OrgInv, OrgTypeOK
  <2>2. overlap' \subseteq Invite
    BY <1>2 DEF OrgInv, OrgTypeOK
  <2>. QED BY <1>2, <2>1, <2>2 DEF OrgInv, OrgTypeOK, DataType, Grows
<1>7. HandlerSound(v)'
  <2>1. Owned(o)'
    BY <1>2, <1>3 DEF Owned
  <2>. QED BY <1>2, <1>3, <1>4, <2>1 DEF HandlerSound, Early, Late
<1>8. OrgTypeOK' /\ RequestPart'
  BY <1>5, <1>6, <1>7, RequestsStay
<1>9. InvitePart' /\ RolePart' /\ RoleForCause'
  BY <1>2, <1>6, InvitesStay, RolesStay
<1>10. HomePart' /\ OwnerPart'
  <2>1. ofaults <= ofaults'
    BY <1>2, OrgAssumption DEF OrgInv, OrgTypeOK
  <2>. QED BY <1>2, <1>5, <1>6, <2>1, HomesStay, OwnersStay
<1>11. AlonePart'
  <2>. SUFFICES ASSUME ofaults = 0, NEW j \in Invite \ overlap'
                PROVE  Alone(j)'
    BY <1>2 DEF AlonePart
  <2>1. Alone(j) /\ j # 0
    BY <1>2 DEF OrgInv, AlonePart, Invite
  <2>2. request[r].inv = 0
    <3>1. request[r] = Free
      BY <1>2 DEF OrgInv, RequestPart, HandlerSound
    <3>. QED BY <3>1 DEF Free
  <2>3. CASE j # i
    BY <1>2, <1>4, <1>5, <2>1, <2>2, <2>3, ApartStays
  <2>4. CASE j = i
    <3>1. Joining(i) = {}
      BY <1>2, <2>4
    <3>2. Joining(i)' = {r}
      <4>1. \A q \in Request \ {r} : request'[q] = request[q]
        BY <1>5 DEF OrgInv, OrgTypeOK
      <4>2. request'[r] = v
        BY <1>5 DEF OrgInv, OrgTypeOK
      <4>. QED BY <1>4, <3>1, <4>1, <4>2 DEF Joining, Inv, Step
    <3>3. invite[i].by = {}
      BY <1>2, <2>1, <2>4, <3>1 DEF Alone
    <3>. QED BY <1>2, <2>4, <3>2, <3>3 DEF Alone
  <2>. QED BY <2>3, <2>4
<1>. QED BY <1>8, <1>9, <1>10, <1>11 DEF OrgInv

LEMMA ExpireSound ==
    ASSUME OrgInv, NEW r \in Request, Expire(r)
    PROVE  OrgInv'
<1>1. request[r].pc = "expire"
  BY DEF Expire, Step
<1>2. PICK o \in Org, p \in Person, i \in Invite :
          /\ o = OrgOf(r) /\ p = Who(r) /\ i = Inv(r) /\ Owned(o) /\ i # 0
          /\ invite[i].status # "none" /\ invite[i].org = o
          /\ r \in Joining(i)
  BY <1>1, JoiningOf
<1>3. PICK v \in Handler : /\ request' = [request EXCEPT ![r] = v] /\ HandlerSound(v)'
                           /\ v = Free /\ v.inv = 0 /\ v.pc = "free"
  BY AnswerTo DEF Expire
<1>4. UNCHANGED <<founder, role, home, told, joins, overlap, ofaults>>
  BY DEF Expire
<1>5. /\ invite' \in [Invite -> [org: Org \cup {NoOrg}, role: Role, by: SUBSET Person,
                                 status: {"none", "PENDING", "ACCEPTED", "EXPIRED"}]]
      /\ invite'[i].status = "EXPIRED"
      /\ invite'[i].org = invite[i].org /\ invite'[i].role = invite[i].role
      /\ invite'[i].by = invite[i].by
      /\ \A j \in Invite \ {i} : invite'[j] = invite[j]
  BY <1>2, JoiningStays DEF Expire
<1>6. DataType' /\ Grows
  BY <1>4, <1>5 DEF OrgInv, OrgTypeOK, DataType, Grows
<1>7. OrgTypeOK' /\ RequestPart'
  BY <1>3, <1>6, RequestsStay
<1>8. InvitePart'
  BY <1>2, <1>5, <1>6, InvitesKeep
<1>9. RolePart' /\ RoleForCause'
  BY <1>4, <1>6, RolesStay
<1>10. HomePart' /\ OwnerPart'
  <2>1. ofaults <= ofaults'
    BY <1>4, OrgAssumption DEF OrgInv, OrgTypeOK
  <2>. QED BY <1>1, <1>3, <1>4, <1>6, <2>1, HomesStay, OwnersStay
<1>11. AlonePart'
  <2>. SUFFICES ASSUME ofaults = 0, NEW j \in Invite \ overlap
                PROVE  Alone(j)'
    BY <1>4 DEF AlonePart
  <2>1. Alone(j) /\ j # 0
    BY DEF OrgInv, AlonePart, Invite
  <2>2. CASE j # i
    BY <1>2, <1>3, <1>5, <2>1, <2>2, ApartStays DEF Inv
  <2>3. CASE j = i
    <3>1. invite[i].by = {}
      BY <1>1, <1>2, <2>1, <2>3 DEF Alone
    <3>. QED BY <1>1, <1>5, <2>1, <2>3, <3>1, AnsweredStays DEF Expire
  <2>. QED BY <2>2, <2>3
<1>. QED BY <1>7, <1>8, <1>9, <1>10, <1>11 DEF OrgInv

LEMMA MoveMemberSound ==
    ASSUME OrgInv, NEW r \in Request, MoveMember(r)
    PROVE  OrgInv'
<1>1. request[r].pc = "move"
  BY DEF MoveMember, Step
<1>2. PICK o \in Org, p \in Person, i \in Invite :
          /\ o = OrgOf(r) /\ p = Who(r) /\ i = Inv(r) /\ Owned(o) /\ i # 0
          /\ invite[i].status # "none" /\ invite[i].org = o
          /\ r \in Joining(i)
  BY <1>1, JoiningOf
<1>3. PICK v \in Handler : /\ request' = [request EXCEPT ![r] = v]
                           /\ v.pc = "member" /\ v.who = p /\ v.org = o /\ v.inv = i
  <2>1. Proceed(r, "member")
    BY DEF MoveMember
  <2>. QED BY <1>2, <2>1, ProceedTo DEF Late
<1>4. UNCHANGED <<founder, role, invite, told, joins, overlap, ofaults>>
  BY DEF MoveMember
<1>5. home' = [home EXCEPT ![p] = o]
  BY <1>2 DEF MoveMember
<1>6. DataType' /\ Grows
  BY <1>4, <1>5 DEF OrgInv, OrgTypeOK, DataType, Grows
<1>7. HandlerSound(v)'
  <2>1. Owned(o)'
    BY <1>2, <1>4 DEF Owned
  <2>. QED BY <1>2, <1>3, <1>4, <2>1 DEF HandlerSound, Early, Late
<1>8. OrgTypeOK' /\ RequestPart'
  BY <1>3, <1>6, <1>7, RequestsStay
<1>9. InvitePart' /\ RolePart' /\ RoleForCause'
  BY <1>4, <1>6, InvitesStay, RolesStay
<1>10. HomePart'
  BY <1>1, <1>3, <1>4, <1>5, HomeMoves
<1>11. OwnerPart'
  <2>1. ofaults <= ofaults'
    BY <1>4, OrgAssumption DEF OrgInv, OrgTypeOK
  <2>. QED BY <1>1, <1>3, <1>4, <1>6, <2>1, OwnersStay
<1>12. AlonePart'
  <2>. SUFFICES ASSUME ofaults = 0, NEW j \in Invite \ overlap
                PROVE  Alone(j)'
    BY <1>4 DEF AlonePart
  <2>1. Alone(j) /\ j # 0
    BY DEF OrgInv, AlonePart, Invite
  <2>2. CASE j # i
    BY <1>2, <1>3, <1>4, <2>1, <2>2, ApartStays DEF Inv
  <2>3. CASE j = i
    <3>1. Joining(i) = {r} /\ invite[i].by = {}
      BY <1>1, <1>2, <2>1, <2>3 DEF Alone
    <3>2. Joining(i)' = {r}
      <4>1. \A q \in Request \ {r} : request'[q] = request[q]
        BY <1>3 DEF OrgInv, OrgTypeOK
      <4>2. request'[r] = v
        BY <1>3 DEF OrgInv, OrgTypeOK
      <4>. QED BY <1>3, <3>1, <4>1, <4>2 DEF Joining, Inv, Step
    <3>. QED BY <1>4, <2>3, <3>1, <3>2 DEF Alone
  <2>. QED BY <2>2, <2>3
<1>. QED BY <1>8, <1>9, <1>10, <1>11, <1>12 DEF OrgInv

\* The person is made a member: nobody else was with the invite, if requests came one
\* after the other.
LEMMA MemberMade ==
    ASSUME OrgInv, NEW r \in Request, CreateMember(r), role[<<Who(r), OrgOf(r)>>] = NoOrg
    PROVE  OrgInv'
<1>1. request[r].pc = "member"
  BY DEF CreateMember, Step
<1>2. PICK o \in Org, p \in Person, i \in Invite :
          /\ o = OrgOf(r) /\ p = Who(r) /\ i = Inv(r) /\ Owned(o) /\ i # 0
          /\ invite[i].status # "none" /\ invite[i].org = o
          /\ r \in Joining(i)
  BY <1>1, JoiningOf
<1>3. PICK v \in Handler : /\ request' = [request EXCEPT ![r] = v]
                           /\ v.pc = "accept" /\ v.who = p /\ v.org = o /\ v.inv = i
  <2>1. Proceed(r, "accept")
    BY DEF CreateMember
  <2>. QED BY <1>2, <2>1, ProceedTo DEF Late
<1>4. UNCHANGED <<founder, home, told, joins, overlap, ofaults>>
  BY DEF CreateMember
<1>5. /\ role' = [role EXCEPT ![<<p, o>>] = invite[i].role]
      /\ invite' = [invite EXCEPT ![i].by = @ \cup {p}]
  BY <1>2 DEF CreateMember
<1>6. /\ role'[<<p, o>>] = invite[i].role /\ invite[i].role \in Role /\ role[<<p, o>>] = NoOrg
      /\ \A m \in (Person \X Org) \ {<<p, o>>} : role'[m] = role[m]
  BY <1>2, <1>5 DEF OrgInv, OrgTypeOK
<1>7. /\ invite' \in [Invite -> [org: Org \cup {NoOrg}, role: Role, by: SUBSET Person,
                                 status: {"none", "PENDING", "ACCEPTED", "EXPIRED"}]]
      /\ invite'[i].org = o /\ invite'[i].role = invite[i].role
      /\ invite'[i].status = invite[i].status
      /\ invite'[i].by = invite[i].by \cup {p}
      /\ \A j \in Invite \ {i} : invite'[j] = invite[j]
  BY <1>2, <1>5 DEF OrgInv, OrgTypeOK
<1>8. DataType'
  <2>1. role' \in [Person \X Org -> Role \cup {NoOrg}]
    BY <1>5, <1>6 DEF OrgInv, OrgTypeOK
  <2>. QED BY <1>4, <1>7, <2>1 DEF OrgInv, OrgTypeOK, DataType
<1>9. Grows
  <2>1. invite[i].role # NoOrg /\ NoOrg # "OWNER"
    BY <1>6 DEF Role, NoOrg
  <2>2. \A m \in Person \X Org : role[m] # NoOrg => role'[m] = role[m]
    BY <1>6
  <2>3. \A m \in Person \X Org : role[m] # NoOrg => role'[m] # NoOrg
    BY <2>2
  <2>4. \A m \in Person \X Org : role[m] = "OWNER" => role'[m] = "OWNER"
    BY <2>1, <2>2
  <2>. QED BY <1>2, <1>4, <1>7, <2>3, <2>4 DEF Grows
<1>10. Owned(o)'
  BY <1>2, <1>9, OwnedStays
<1>11. HandlerSound(v)'
  BY <1>2, <1>3, <1>7, <1>10 DEF HandlerSound, Early, Late
<1>12. OrgTypeOK' /\ RequestPart'
  BY <1>3, <1>8, <1>9, <1>11, RequestsStay
<1>13. InvitePart'
  BY <1>2, <1>7, <1>9, InvitesKeep
<1>14. RolePart'
  <2>. SUFFICES ASSUME NEW q \in Person, NEW b \in Org, role'[<<q, b>>] # NoOrg
                PROVE  Owned(b)'
    BY DEF RolePart
  <2>1. CASE b = o
    BY <1>10, <2>1
  <2>2. CASE b # o
    <3>1. role'[<<q, b>>] = role[<<q, b>>]
      BY <1>6, <2>2
    <3>. QED BY <1>9, <3>1, OwnedStays DEF OrgInv, RolePart
  <2>. QED BY <2>1, <2>2
<1>15. RoleForCause'
  <2>. SUFFICES ASSUME NEW q \in Person, NEW b \in Org, role'[<<q, b>>] # NoOrg
                PROVE  IF founder'[b] = q THEN role'[<<q, b>>] = "OWNER"
                       ELSE \E j \in Invite : q \in invite'[j].by /\ invite'[j].org = b
                                              /\ invite'[j].role = role'[<<q, b>>]
    BY Zenon DEF RoleForCause
  <2>1. CASE q = p /\ b = o
    <3>1. founder[o] # p
      <4>1. "OWNER" # NoOrg
        BY DEF NoOrg
      <4>. QED BY <1>2, <1>6, <4>1 DEF Owned
    <3>2. p \in invite'[i].by /\ invite'[i].org = o /\ invite'[i].role = role'[<<p, o>>]
      BY <1>6, <1>7
    <3>. QED BY <1>4, <2>1, <3>1, <3>2
  <2>2. CASE ~(q = p /\ b = o)
    <3>1. role'[<<q, b>>] = role[<<q, b>>] /\ role[<<q, b>>] # NoOrg
      BY <1>6, <2>2
    <3>2. CASE founder[b] = q
      BY <1>4, <3>1, <3>2 DEF OrgInv, RoleForCause
    <3>3. CASE founder[b] # q
      <4>1. PICK j \in Invite : q \in invite[j].by /\ invite[j].org = b
                                /\ invite[j].role = role[<<q, b>>]
        BY <3>1, <3>3 DEF OrgInv, RoleForCause
      <4>2. q \in invite'[j].by /\ invite'[j].org = b /\ invite'[j].role = role'[<<q, b>>]
        BY <1>2, <1>7, <3>1, <4>1
      <4>. QED BY <1>4, <3>3, <4>2
    <3>. QED BY <3>2, <3>3
  <2>. QED BY <2>1, <2>2
<1>16. HomePart'
  <2>. SUFFICES ASSUME ofaults = 0, NEW q \in Person, home[q] # NoOrg, role'[<<q, home[q]>>] = NoOrg
                PROVE  \E s \in Request : (Step(s, "member") /\ Who(s) = q /\ OrgOf(s) = home[q])'
    BY <1>4 DEF HomePart
  <2>1. home[q] \in Org
    BY DEF OrgInv, OrgTypeOK
  <2>2. role[<<q, home[q]>>] = NoOrg
    BY <1>9, <2>1 DEF Grows
  <2>3. PICK s \in Request : Step(s, "member") /\ Who(s) = q /\ OrgOf(s) = home[q]
    BY <2>2 DEF OrgInv, HomePart
  <2>4. s # r
    <3>1. role'[<<p, o>>] # NoOrg
      BY <1>6 DEF Role, NoOrg
    <3>. QED BY <1>2, <2>3, <3>1
  <2>. QED BY <1>3, <1>4, <2>3, <2>4 DEF Step, Who, OrgOf, OrgInv, OrgTypeOK
<1>17. OwnerPart'
  <2>1. ofaults <= ofaults'
    BY <1>4, OrgAssumption DEF OrgInv, OrgTypeOK
  <2>. QED BY <1>1, <1>3, <1>4, <1>9, <2>1, OwnersStay
<1>18. AlonePart'
  <2>. SUFFICES ASSUME ofaults = 0, NEW j \in Invite \ overlap
                PROVE  Alone(j)'
    BY <1>4 DEF AlonePart
  <2>1. Alone(j) /\ j # 0
    BY DEF OrgInv, AlonePart, Invite
  <2>2. CASE j # i
    BY <1>2, <1>3, <1>7, <2>1, <2>2, ApartStays DEF Inv
  <2>3. CASE j = i
    <3>1. Joining(i) = {r} /\ invite'[i].by = {p}
      BY <1>1, <1>2, <1>7, <2>1, <2>3 DEF Alone
    <3>2. request'[r] = v
      BY <1>3 DEF OrgInv, OrgTypeOK
    <3>3. Joining(i)' = {r}
      <4>1. \A q \in Request \ {r} : request'[q] = request[q]
        BY <1>3 DEF OrgInv, OrgTypeOK
      <4>. QED BY <1>3, <3>1, <3>2, <4>1 DEF Joining, Inv, Step
    <3>. QED BY <1>3, <2>3, <3>1, <3>2, <3>3 DEF Alone, Step
  <2>. QED BY <2>2, <2>3
<1>. QED BY <1>12, <1>13, <1>14, <1>15, <1>16, <1>17, <1>18 DEF OrgInv

\* A handler that ends where it is, without a record written.
LEMMA EndSound ==
    ASSUME OrgInv, NEW r \in Request, Answer(r),
           UNCHANGED <<founder, role, home, invite, joins, overlap>>,
           told' \subseteq ({"sent"} \X Invite) \cup ({"joined"} \X (Person \X Org)),
           ofaults' \in 0 .. MaxOFaults, ofaults <= ofaults',
           ofaults' = 0 => /\ request[r].pc \notin {"owner", "accept"}
                           /\ request[r].pc = "member" => role[<<Who(r), OrgOf(r)>>] # NoOrg
    PROVE  OrgInv'
<1>1. PICK v \in Handler : /\ request' = [request EXCEPT ![r] = v] /\ HandlerSound(v)'
                           /\ v = Free /\ v.inv = 0 /\ v.pc = "free"
  BY AnswerTo
<1>2. DataType' /\ Grows
  BY DEF OrgInv, OrgTypeOK, DataType, Grows
<1>3. OrgTypeOK' /\ RequestPart'
  BY <1>1, <1>2, RequestsStay
<1>4. InvitePart' /\ RolePart' /\ RoleForCause'
  BY <1>2, InvitesStay, RolesStay
<1>5. ofaults' = 0 => ofaults = 0
  BY OrgAssumption DEF OrgInv, OrgTypeOK
<1>6. HomePart'
  <2>. SUFFICES ASSUME ofaults' = 0, NEW q \in Person, home[q] # NoOrg, role[<<q, home[q]>>] = NoOrg
                PROVE  \E s \in Request : (Step(s, "member") /\ Who(s) = q /\ OrgOf(s) = home[q])'
    BY DEF HomePart
  <2>1. PICK s \in Request : Step(s, "member") /\ Who(s) = q /\ OrgOf(s) = home[q]
    BY <1>5 DEF OrgInv, HomePart
  <2>2. s # r
    BY <2>1 DEF Step
  <2>. QED BY <1>1, <2>1, <2>2 DEF Step, Who, OrgOf, OrgInv, OrgTypeOK
<1>7. OwnerPart'
  <2>. SUFFICES ASSUME ofaults' = 0, NEW o \in Org, founder[o] # NoOrg, ~Owned(o)'
                PROVE  \E q \in Request : (Step(q, "owner") /\ OrgOf(q) = o)'
    BY DEF OwnerPart
  <2>1. ~Owned(o)
    BY <1>2, OwnedStays
  <2>2. PICK q \in Request : Step(q, "owner") /\ OrgOf(q) = o
    BY <1>5, <2>1 DEF OrgInv, OwnerPart
  <2>3. q # r
    BY <2>2 DEF Step
  <2>. QED BY <1>1, <2>2, <2>3 DEF Step, OrgOf, OrgInv, OrgTypeOK
<1>8. AlonePart'
  <2>. SUFFICES ASSUME ofaults' = 0, NEW i \in Invite \ overlap
                PROVE  Alone(i)'
    BY DEF AlonePart
  <2>1. Alone(i)
    BY <1>5 DEF OrgInv, AlonePart
  <2>. QED BY <2>1, AnsweredStays
<1>. QED BY <1>3, <1>4, <1>6, <1>7, <1>8 DEF OrgInv

LEMMA CreateMemberSound ==
    ASSUME OrgInv, NEW r \in Request, CreateMember(r)
    PROVE  OrgInv'
<1>1. CASE role[<<Who(r), OrgOf(r)>>] = NoOrg
  BY <1>1, MemberMade
<1>2. CASE role[<<Who(r), OrgOf(r)>>] # NoOrg
  <2>1. Answer(r) /\ UNCHANGED <<founder, role, home, invite, told, joins, overlap, ofaults>>
    BY <1>2 DEF CreateMember
  <2>2. request[r].pc = "member"
    BY DEF CreateMember, Step
  <2>3. /\ told' \subseteq ({"sent"} \X Invite) \cup ({"joined"} \X (Person \X Org))
        /\ ofaults' \in 0 .. MaxOFaults /\ ofaults <= ofaults'
    BY <2>1, OrgAssumption DEF OrgInv, OrgTypeOK
  <2>. QED BY <1>2, <2>1, <2>2, <2>3, EndSound
<1>. QED BY <1>1, <1>2

LEMMA AcceptSound ==
    ASSUME OrgInv, NEW r \in Request, Accept(r)
    PROVE  OrgInv'
<1>1. request[r].pc = "accept"
  BY DEF Accept, Step
<1>2. PICK o \in Org, p \in Person, i \in Invite :
          /\ o = OrgOf(r) /\ p = Who(r) /\ i = Inv(r) /\ Owned(o) /\ i # 0
          /\ invite[i].status # "none" /\ invite[i].org = o
          /\ r \in Joining(i)
  BY <1>1, JoiningOf
<1>3. PICK v \in Handler : /\ request' = [request EXCEPT ![r] = v]
                           /\ v.pc = "joined" /\ v.who = p /\ v.org = o /\ v.inv = i
  <2>1. Proceed(r, "joined")
    BY DEF Accept
  <2>. QED BY <1>2, <2>1, ProceedTo DEF Late
<1>4. UNCHANGED <<founder, role, home, told, joins, overlap, ofaults>>
  BY DEF Accept
<1>5. /\ invite' \in [Invite -> [org: Org \cup {NoOrg}, role: Role, by: SUBSET Person,
                                 status: {"none", "PENDING", "ACCEPTED", "EXPIRED"}]]
      /\ invite'[i].status = "ACCEPTED"
      /\ invite'[i].org = invite[i].org /\ invite'[i].role = invite[i].role
      /\ invite'[i].by = invite[i].by
      /\ \A j \in Invite \ {i} : invite'[j] = invite[j]
  BY <1>2, JoiningStays DEF Accept
<1>6. DataType' /\ Grows
  BY <1>4, <1>5 DEF OrgInv, OrgTypeOK, DataType, Grows
<1>7. HandlerSound(v)'
  <2>1. Owned(o)'
    BY <1>2, <1>4 DEF Owned
  <2>. QED BY <1>2, <1>3, <1>5, <2>1 DEF HandlerSound, Early, Late
<1>8. OrgTypeOK' /\ RequestPart'
  BY <1>3, <1>6, <1>7, RequestsStay
<1>9. InvitePart'
  BY <1>2, <1>5, <1>6, InvitesKeep
<1>10. RolePart' /\ RoleForCause'
  BY <1>4, <1>6, RolesStay
<1>11. HomePart' /\ OwnerPart'
  <2>1. ofaults <= ofaults'
    BY <1>4, OrgAssumption DEF OrgInv, OrgTypeOK
  <2>. QED BY <1>1, <1>3, <1>4, <1>6, <2>1, HomesStay, OwnersStay
<1>12. AlonePart'
  <2>. SUFFICES ASSUME ofaults = 0, NEW j \in Invite \ overlap
                PROVE  Alone(j)'
    BY <1>4 DEF AlonePart
  <2>1. Alone(j) /\ j # 0
    BY DEF OrgInv, AlonePart, Invite
  <2>2. CASE j # i
    BY <1>2, <1>3, <1>5, <2>1, <2>2, ApartStays DEF Inv
  <2>3. CASE j = i
    <3>1. Joining(i) = {r}
      BY <1>2, <2>1, <2>3 DEF Alone
    <3>2. request'[r] = v
      BY <1>3 DEF OrgInv, OrgTypeOK
    <3>3. Joining(i)' = {r}
      <4>1. \A q \in Request \ {r} : request'[q] = request[q]
        BY <1>3 DEF OrgInv, OrgTypeOK
      <4>. QED BY <1>3, <3>1, <3>2, <4>1 DEF Joining, Inv, Step
    <3>4. \A q, s \in invite'[i].by : q = s
      BY <1>5, <2>1, <2>3 DEF Alone
    <3>. QED BY <1>3, <1>5, <2>3, <3>2, <3>3, <3>4 DEF Alone
  <2>. QED BY <2>2, <2>3
<1>. QED BY <1>8, <1>9, <1>10, <1>11, <1>12 DEF OrgInv

LEMMA MemberJoinedSound ==
    ASSUME OrgInv, NEW r \in Request, MemberJoined(r)
    PROVE  OrgInv'
<1>1. request[r].pc = "joined" /\ Answer(r)
      /\ UNCHANGED <<founder, role, home, invite, joins, overlap, ofaults>>
  BY DEF MemberJoined, Step
<1>2. Who(r) \in Person /\ OrgOf(r) \in Org
  BY <1>1, HandlerOf
<1>3. told' \subseteq ({"sent"} \X Invite) \cup ({"joined"} \X (Person \X Org))
  BY <1>2 DEF MemberJoined, OrgInv, OrgTypeOK
<1>4. ofaults' \in 0 .. MaxOFaults /\ ofaults <= ofaults'
  BY <1>1, OrgAssumption DEF OrgInv, OrgTypeOK
<1>. QED BY <1>1, <1>3, <1>4, EndSound

LEMMA OrgFailsSound ==
    ASSUME OrgInv, NEW r \in Request, OrgFails(r)
    PROVE  OrgInv'
<1>1. Answer(r) /\ UNCHANGED <<founder, role, home, invite, told, joins, overlap>>
  BY DEF OrgFails
<1>2. ofaults' \in 0 .. MaxOFaults /\ ofaults <= ofaults' /\ ofaults' # 0
  BY OrgAssumption DEF OrgFails, OrgInv, OrgTypeOK
<1>3. told' \subseteq ({"sent"} \X Invite) \cup ({"joined"} \X (Person \X Org))
  BY <1>1 DEF OrgInv, OrgTypeOK
<1>. QED BY <1>1, <1>2, <1>3, EndSound

-----------------------------------------------------------------------------
(* The invariant                                                           *)

LEMMA OrgInvInit ==
    ASSUME OrgInit
    PROVE  OrgInv
<1>1. PICK f \in Handler : f = Free /\ f.pc = "free" /\ f.inv = 0 /\ f.who = NoOrg
  <2>1. Free \in Handler
    BY DEF Free, Handler
  <2>2. Free.pc = "free" /\ Free.inv = 0 /\ Free.who = NoOrg
    BY DEF Free
  <2>. QED BY <2>1, <2>2
<1>2. \A r \in Request : request[r] = f
  BY <1>1 DEF OrgInit
<1>3. OrgTypeOK
  <2>1. request \in [Request -> Handler]
    BY <1>1 DEF OrgInit
  <2>2. request \in [Request -> [pc: {"free", "create", "owner", "home", "count", "invite", "sent",
                                      "move", "member", "accept", "joined", "expire"},
                                 who: Person \cup {NoOrg}, org: Org \cup {NoOrg},
                                 inv: {0} \cup Invite]]
    BY <2>1 DEF Handler, Early, Late
  <2>3. invite \in [Invite -> [org: Org \cup {NoOrg}, role: Role, by: SUBSET Person,
                               status: {"none", "PENDING", "ACCEPTED", "EXPIRED"}]]
    BY DEF OrgInit, NoInvite, Role
  <2>4. \A r \in Request : request[r].pc = "free" <=> request[r].who = NoOrg
    BY <1>1, <1>2
  <2>. QED BY <2>2, <2>3, <2>4, OrgAssumption DEF OrgInit, OrgTypeOK
<1>4. RequestPart
  BY <1>1, <1>2 DEF RequestPart, HandlerSound, Early, Late
<1>5. InvitePart
  BY DEF OrgInit, InvitePart, NoInvite
<1>6. RolePart
  BY DEF OrgInit, RolePart
<1>7. RoleForCause
  BY Zenon DEF OrgInit, RoleForCause
<1>8. HomePart /\ OwnerPart
  BY DEF OrgInit, HomePart, OwnerPart
<1>9. AlonePart
  <2>. SUFFICES ASSUME NEW i \in Invite
                PROVE  Alone(i)
    BY DEF AlonePart
  <2>1. Joining(i) = {}
    BY <1>1, <1>2 DEF Joining, Inv, Invite
  <2>2. invite[i].by = {}
    BY DEF OrgInit, NoInvite
  <2>. QED BY <2>1, <2>2 DEF Alone
<1>. QED BY <1>3, <1>4, <1>5, <1>6, <1>7, <1>8, <1>9 DEF OrgInv

LEMMA OrgInvStutters ==
    ASSUME OrgInv, UNCHANGED orgVars
    PROVE  OrgInv'
BY DEF OrgInv, orgVars, OrgTypeOK, RequestPart, HandlerSound, Owned, InvitePart, RolePart,
       RoleForCause, HomePart, OwnerPart, AlonePart, Alone, Joining, Inv, Step, Who, OrgOf

LEMMA OrgInvStep ==
    ASSUME OrgInv, [OrgNext]_orgVars
    PROVE  OrgInv'
<1>. SUFFICES ASSUME OrgNext
              PROVE  OrgInv'
  BY OrgInvStutters
<1>1. PICK r \in Request :
        \/ \E p \in Person, o \in Org : Found(r, p, o) \/ Invites(r, p, o)
        \/ \E p \in Person, i \in Invite : Join(r, p, i)
        \/ CreateOrg(r) \/ CreateOwner(r) \/ MoveOwner(r)
        \/ CountSeats(r) \/ InviteSent(r)
        \/ \E as \in {"ADMIN", "MEMBER"} : CreateInvite(r, as)
        \/ Expire(r) \/ MoveMember(r) \/ CreateMember(r) \/ Accept(r) \/ MemberJoined(r)
        \/ OrgFails(r)
  BY DEF OrgNext
<1>2. ASSUME NEW p \in Person, NEW o \in Org, Found(r, p, o)
      PROVE  OrgInv'
  BY <1>2, BeginSound DEF Found
<1>3. ASSUME NEW p \in Person, NEW o \in Org, Invites(r, p, o)
      PROVE  OrgInv'
  <2>1. Owned(o)
    BY <1>3 DEF Invites, OrgInv, RolePart, NoOrg
  <2>. QED BY <1>3, <2>1, BeginSound DEF Invites
<1>4. ASSUME NEW p \in Person, NEW i \in Invite, Join(r, p, i)
      PROVE  OrgInv'
  BY <1>4, JoinSound
<1>5. CASE CreateOrg(r)
  BY <1>5, CreateOrgSound
<1>6. CASE CreateOwner(r)
  BY <1>6, CreateOwnerSound
<1>7. CASE MoveOwner(r)
  BY <1>7, MoveOwnerSound
<1>8. CASE CountSeats(r)
  BY <1>8, CountSeatsSound
<1>9. CASE InviteSent(r)
  BY <1>9, InviteSentSound
<1>10. ASSUME NEW as \in {"ADMIN", "MEMBER"}, CreateInvite(r, as)
       PROVE  OrgInv'
  BY <1>10, CreateInviteSound
<1>11. CASE Expire(r)
  BY <1>11, ExpireSound
<1>12. CASE MoveMember(r)
  BY <1>12, MoveMemberSound
<1>13. CASE CreateMember(r)
  BY <1>13, CreateMemberSound
<1>14. CASE Accept(r)
  BY <1>14, AcceptSound
<1>15. CASE MemberJoined(r)
  BY <1>15, MemberJoinedSound
<1>16. CASE OrgFails(r)
  BY <1>16, OrgFailsSound
<1>. QED BY <1>1, <1>2, <1>3, <1>4, <1>5, <1>6, <1>7, <1>8, <1>9, <1>10, <1>11, <1>12, <1>13,
            <1>14, <1>15, <1>16

LEMMA OrgInvHolds == OrgSpec => []OrgInv
<1>1. OrgInit => OrgInv
  BY OrgInvInit
<1>2. OrgInv /\ [OrgNext]_orgVars => OrgInv'
  BY OrgInvStep
<1>. QED BY <1>1, <1>2, PTL DEF OrgSpec

\* A user's organization, the memberships and the owner agree, once the requests of the
\* user are answered, although the three statements of founding or joining are each a
\* transaction of its own (org.routes.ts).
THEOREM MembershipCorrect == OrgSpec => []MembershipHolds
<1>1. OrgInv => MembershipHolds
  <2>. SUFFICES ASSUME OrgInv
                PROVE  MembershipHolds
    OBVIOUS
  <2>1. HomeIsMembership
    BY DEF OrgInv, HomePart, HomeIsMembership, Busy
  <2>2. ASSUME ofaults = 0, NEW o \in Org
        PROVE  founder[o] = NoOrg \/ Busy(founder[o]) \/ role[<<founder[o], o>>] = "OWNER"
    <3>1. CASE \E r \in Request : Step(r, "owner") /\ OrgOf(r) = o
      <4>1. PICK r \in Request : Step(r, "owner") /\ OrgOf(r) = o
        BY <3>1
      <4>2. founder[o] = Who(r)
        BY <4>1 DEF OrgInv, RequestPart, HandlerSound, Step, OrgOf, Who
      <4>. QED BY <4>2 DEF Busy
    <3>2. CASE founder[o] = NoOrg \/ Owned(o)
      BY <3>2 DEF Owned
    <3>. QED BY <2>2, <3>1, <3>2 DEF OrgInv, OwnerPart
  <2>3. OrgHasOwner
    BY <2>2 DEF OrgHasOwner
  <2>. QED BY <2>1, <2>3 DEF OrgInv, MembershipHolds
<1>. QED BY <1>1, OrgInvHolds, PTL

\* An invite admits one person when its requests come one after the other, and gives that
\* person the role it names: the status is checked in the first statement of the join and
\* written in its last (org.routes.ts).
THEOREM InviteCorrect == OrgSpec => []InviteHolds
<1>1. OrgInv => InviteHolds
  <2>. SUFFICES ASSUME OrgInv
                PROVE  InviteHolds
    OBVIOUS
  <2>1. ASSUME NEW i \in Invite, ofaults = 0, i \notin overlap
        PROVE  Cardinality(invite[i].by) <= 1
    <3>1. \A p, q \in invite[i].by : p = q
      BY <2>1 DEF OrgInv, AlonePart, Alone
    <3>2. CASE invite[i].by = {}
      BY <3>2, FS_EmptySet
    <3>3. CASE invite[i].by # {}
      <4>1. PICK p : invite[i].by = {p}
        BY <3>1, <3>3
      <4>. QED BY <4>1, FS_Singleton
    <3>. QED BY <3>2, <3>3
  <2>2. InviteAdmitsOne
    BY <2>1 DEF InviteAdmitsOne
  <2>. QED BY <2>2 DEF OrgInv, InviteHolds
<1>. QED BY <1>1, OrgInvHolds, PTL

-----------------------------------------------------------------------------
(* Guest trials: the invariant                                             *)

Pc == {"used", "incr", "expire", "user", "lock", "held", "session", "event", "unlock", "mark"}

Call == [pc: Pc, guest: Guest, trial: Trial, sid: TSession]

\* Past the check of the trial's use, before its session is there.
Checked == {"incr", "expire", "user", "lock", "held", "session"}

\* What holds of a request under every fault: its session's id is its own; it counts for
\* the limit once; the hour begins after the first attempt is counted; and a trial that
\* is to be marked used was created and announced.
CallSound(v) ==
    /\ v.pc # "none" => v \in Call /\ v.sid <= tried
    /\ v.pc = "none" => v = NoCall
    /\ v.pc \in {"used", "incr", "expire"} => v.sid \notin admittedIn
    /\ v.pc = "expire" => ~counterTTL /\ attempts > 0
    /\ v.pc = "mark" => v.sid \in started /\ <<v.guest, v.trial, v.sid>> \in labs

CallPart == caller \in [Caller -> Call \cup {NoCall}] /\ \A c \in Caller : CallSound(caller[c])

\* Two requests have sessions of their own, do not both begin the hour, and are of two
\* guests unless that one's requests coincide.
ApartPart ==
    \A c, d \in Caller : c # d /\ caller[c].pc # "none" /\ caller[d].pc # "none" =>
        /\ caller[c].sid # caller[d].sid
        /\ caller[c].pc # "expire" \/ caller[d].pc # "expire"
        /\ caller[c].guest = caller[d].guest => caller[c].guest \in coincide

\* The requests that were counted, or were turned away before it.
Counted == {s \in 1 .. tried : \A c \in Caller : caller[c].pc \in {"used", "incr"} => caller[c].sid # s}

CountPart == admittedIn \subseteq 1 .. tried /\ attempts <= Cardinality(Counted)

\* Those that passed the limit, and the one that begins the hour.
Passing == admittedIn \cup {s \in TSession : \E c \in Caller : caller[c].pc = "expire" /\ caller[c].sid = s}

LimitPart == Cardinality(Passing) <= attempts /\ Cardinality(Passing) <= PerHour

\* What the lock adds for a request as long as nothing fails: who creates a session, or
\* marks it, holds the lock; and whose check of the trial's use came too early will meet
\* the lock of the request that was first.
CallCalm(v) ==
    /\ v.pc # "unlock"
    /\ v.pc \in {"session", "mark"} => tlock[<<v.guest, v.trial>>] = v.sid
    /\ v.pc = "held" => tlock[<<v.guest, v.trial>>] # 0
    /\ v.pc = "session" => \A s \in TSession : <<v.guest, v.trial, s>> \notin labs
    /\ v.pc \in Checked /\ (\E s \in TSession : <<v.guest, v.trial, s>> \in labs)
           => tlock[<<v.guest, v.trial>>] # 0
    /\ v.pc \in Checked /\ v.guest \notin coincide
           => \A t \in Trial, s \in TSession : <<v.guest, t, s>> \notin labs

OneLab ==
    /\ \A g \in Guest, t \in Trial, r, s \in TSession :
           <<g, t, r>> \in labs /\ <<g, t, s>> \in labs => r = s
    /\ \A g \in Guest \ coincide, t, u \in Trial, r, s \in TSession :
           <<g, t, r>> \in labs /\ <<g, u, s>> \in labs => t = u

\* A session that is there is marked, or about to be.
LabsMarked ==
    \A g \in Guest, t \in Trial, s \in TSession : <<g, t, s>> \in labs =>
        used[g] # 0 \/ \E c \in Caller : caller[c].pc = "mark" /\ caller[c].guest = g /\ caller[c].trial = t

\* A request that creates session s for the key.
Creates(c, g, t, s) == caller[c] = [pc |-> "session", guest |-> g, trial |-> t, sid |-> s]

Coming(g, t, s) == <<g, t, s>> \in labs \/ \E c \in Caller : Creates(c, g, t, s)

LocksKept == \A g \in Guest, t \in Trial : tlock[<<g, t>>] # 0 => Coming(g, t, tlock[<<g, t>>])

AnswersKept == \A g \in Guest, t \in Trial, s \in TSession : <<g, t, s>> \in answered => Coming(g, t, s)

CalmPart ==
    tfaults = 0 => /\ \A c \in Caller : CallCalm(caller[c])
                   /\ OneLab /\ LabsMarked /\ LocksKept /\ AnswersKept

TrialInv ==
    /\ TrialTypeOK /\ CallPart /\ ApartPart /\ CountPart /\ LimitPart
    /\ UsedWasStarted /\ LimitEnds /\ CalmPart

-----------------------------------------------------------------------------
(* Guest trials: what a step of a request keeps                            *)

\* A key and a session, in one tuple.
LEMMA KeySid ==
    ASSUME NEW g, NEW t, NEW s
    PROVE  <<g, t>> \o <<s>> = <<g, t, s>>
<1>. DEFINE S == {g, t, s}
<1>1. PICK a \in Seq(S), b \in Seq(S), e \in Seq(S) : a = <<g, t>> /\ b = <<s>> /\ e = <<g, t, s>>
  <2>1. <<g, t>> \in Seq(S) /\ <<s>> \in Seq(S) /\ <<g, t, s>> \in Seq(S)
    OBVIOUS
  <2>. QED BY <2>1
<1>2. /\ Len(a) = 2 /\ Len(b) = 1 /\ Len(e) = 3
      /\ a[1] = g /\ a[2] = t /\ b[1] = s /\ e[1] = g /\ e[2] = t /\ e[3] = s
  BY <1>1
<1>. HIDE DEF S
<1>3. a \o b \in Seq(S) /\ Len(a \o b) = 3
  BY <1>1, <1>2, ConcatProperties
<1>4. (a \o b)[1] = g /\ (a \o b)[2] = t /\ (a \o b)[3] = s
  BY <1>1, <1>2, ConcatProperties
<1>5. a \o b = e
  <2>1. \A i \in 1 .. 3 : i = 1 \/ i = 2 \/ i = 3
    OBVIOUS
  <2>2. \A i \in 1 .. Len(a \o b) : (a \o b)[i] = e[i]
    BY <1>2, <1>3, <1>4, <2>1
  <2>. QED BY <1>1, <1>2, <1>3, <2>2, SeqEqual
<1>. QED BY <1>1, <1>5

LEMMA IdleCall == NoCall.pc = "none" /\ NoCall.sid = 0 /\ NoCall.guest = 0 /\ NoCall.trial = 0
BY DEF NoCall

\* The request of caller c that is at work.
LEMMA CallOf ==
    ASSUME TrialInv, NEW c \in Caller, caller[c].pc # "none"
    PROVE  \E g \in Guest, t \in Trial, s \in TSession :
               /\ caller[c] = [pc |-> caller[c].pc, guest |-> g, trial |-> t, sid |-> s]
               /\ caller[c].guest = g /\ caller[c].trial = t /\ Sid(c) = s /\ Key(c) = <<g, t>>
               /\ caller[c].sid = s
               /\ s <= tried /\ s # 0
<1>1. caller[c] \in Call /\ caller[c].sid <= tried
  BY DEF TrialInv, CallPart, CallSound
<1>2. PICK g \in Guest, t \in Trial, s \in TSession :
          caller[c].guest = g /\ caller[c].trial = t /\ caller[c].sid = s
  BY <1>1 DEF Call
<1>3. caller[c] = [pc |-> caller[c].pc, guest |-> g, trial |-> t, sid |-> s]
  BY <1>1, <1>2 DEF Call
<1>4. s # 0
  BY DEF TSession
<1>. QED BY <1>1, <1>2, <1>3, <1>4 DEF Sid, Key

\* A request that goes on, and one that ends.
LEMMA GoesTo ==
    ASSUME TrialInv, NEW c \in Caller, NEW g \in Guest, NEW t \in Trial, NEW s \in TSession,
           NEW pc \in Pc, To(c, pc),
           caller[c] = [pc |-> caller[c].pc, guest |-> g, trial |-> t, sid |-> s]
    PROVE  \E v \in Call : /\ caller' = [caller EXCEPT ![c] = v]
                           /\ v = [pc |-> pc, guest |-> g, trial |-> t, sid |-> s]
                           /\ v.pc = pc /\ v.guest = g /\ v.trial = t /\ v.sid = s
<1>. DEFINE v == [pc |-> pc, guest |-> g, trial |-> t, sid |-> s]
<1>1. v \in Call /\ v.pc = pc /\ v.guest = g /\ v.trial = t /\ v.sid = s
  BY DEF Call
<1>2. [caller[c] EXCEPT !.pc = pc] = v
  OBVIOUS
<1>3. caller' = [caller EXCEPT ![c] = v]
  BY <1>2 DEF To
<1>. QED BY <1>1, <1>3

LEMMA RepliesTo ==
    ASSUME NEW c \in Caller, Reply4(c)
    PROVE  \E v \in Call \cup {NoCall} : /\ caller' = [caller EXCEPT ![c] = v] /\ v = NoCall
                                         /\ v.pc = "none" /\ CallSound(v)' /\ CallCalm(v)'
<1>1. PICK v \in Call \cup {NoCall} : v = NoCall /\ v.pc = "none"
  BY IdleCall
<1>2. CallSound(v)'
  BY <1>1 DEF CallSound
<1>3. CallCalm(v)'
  BY <1>1 DEF CallCalm, Checked
<1>. QED BY <1>1, <1>2, <1>3 DEF Reply4

\* Caller c's step leaves its request in state v.
LEMMA CallsStay ==
    ASSUME TrialInv, NEW c \in Caller, NEW v \in Call \cup {NoCall}, caller' = [caller EXCEPT ![c] = v],
           CallSound(v)', tried <= tried', tried' \in 0 .. MaxTrials,
           started \subseteq started', labs \subseteq labs',
           admittedIn' \subseteq admittedIn \/
               (caller[c].pc # "none" /\ admittedIn' \subseteq admittedIn \cup {caller[c].sid}),
           \A d \in Caller \ {c} : caller[d].pc = "expire" => ~counterTTL' /\ attempts' > 0
    PROVE  CallPart'
<1>1. caller \in [Caller -> Call \cup {NoCall}]
  BY DEF TrialInv, CallPart
<1>2. caller' \in [Caller -> Call \cup {NoCall}]
  BY <1>1
<1>3. ASSUME NEW d \in Caller
      PROVE  CallSound(caller[d])'
  <2>1. CASE d = c
    BY <1>1, <2>1
  <2>2. CASE d # c
    <3>1. PICK u \in Call \cup {NoCall} : u = caller[d] /\ CallSound(u)
      BY DEF TrialInv, CallPart
    <3>2. caller'[d] = u
      BY <1>1, <2>2, <3>1
    <3>3. u.pc # "none" => u \in Call /\ u.sid <= tried'
      <4>1. tried \in Nat /\ tried' \in Nat /\ (u \in Call => u.sid \in Nat)
        BY TrialAssumption DEF TrialInv, TrialTypeOK, Call, TSession
      <4>. QED BY <3>1, <4>1 DEF CallSound
    <3>4. u.pc \in {"used", "incr", "expire"} => u.sid \notin admittedIn'
      <4>1. u.pc # "none" /\ caller[c].pc # "none" => u.sid # caller[c].sid
        BY <2>2, <3>1 DEF TrialInv, ApartPart
      <4>. QED BY <3>1, <4>1 DEF CallSound
    <3>5. u.pc = "expire" => ~counterTTL' /\ attempts' > 0
      BY <2>2, <3>1
    <3>6. CallSound(u)'
      BY <3>1, <3>3, <3>4, <3>5 DEF CallSound
    <3>. QED BY <3>2, <3>6
  <2>. QED BY <2>1, <2>2
<1>. QED BY <1>2, <1>3 DEF CallPart

LEMMA ApartKept ==
    ASSUME TrialInv, NEW c \in Caller, NEW v, caller' = [caller EXCEPT ![c] = v],
           coincide \subseteq coincide',
           \/ v.pc = "none"
           \/ caller[c].pc # "none" /\ v.sid = caller[c].sid /\ v.guest = caller[c].guest,
           v.pc = "expire" => \A d \in Caller \ {c} : caller[d].pc # "expire"
    PROVE  ApartPart'
<1>1. \A d \in Caller : caller'[d] = IF d = c THEN v ELSE caller[d]
  BY DEF TrialInv, CallPart
<1>. SUFFICES ASSUME NEW d \in Caller, NEW e \in Caller, d # e, caller'[d].pc # "none",
                     caller'[e].pc # "none"
              PROVE  /\ caller'[d].sid # caller'[e].sid
                     /\ caller'[d].pc # "expire" \/ caller'[e].pc # "expire"
                     /\ caller'[d].guest = caller'[e].guest => caller'[d].guest \in coincide'
  BY DEF ApartPart
<1>2. caller[d].pc # "none" /\ caller[e].pc # "none"
  BY <1>1
<1>3. /\ caller[d].sid # caller[e].sid
      /\ caller[d].pc # "expire" \/ caller[e].pc # "expire"
      /\ caller[d].guest = caller[e].guest => caller[d].guest \in coincide
  BY <1>2 DEF TrialInv, ApartPart
<1>4. /\ caller'[d].sid = caller[d].sid /\ caller'[e].sid = caller[e].sid
      /\ caller'[d].guest = caller[d].guest /\ caller'[e].guest = caller[e].guest
  BY <1>1
<1>5. caller'[d].pc # "expire" \/ caller'[e].pc # "expire"
  BY <1>1, <1>3
<1>. QED BY <1>3, <1>4, <1>5

\* The requests counted are not more than those made.
LEMMA CountedFinite ==
    ASSUME TrialInv
    PROVE  /\ IsFiniteSet(Counted) /\ Cardinality(Counted) <= tried
           /\ Cardinality(Counted) \in Nat /\ tried \in Nat /\ attempts \in Nat
<1>1. tried \in Nat /\ attempts \in Nat
  BY TrialAssumption DEF TrialInv, TrialTypeOK
<1>2. IsFiniteSet(1 .. tried) /\ Cardinality(1 .. tried) = tried
  BY <1>1, FS_Interval
<1>3. Counted \subseteq 1 .. tried
  BY DEF Counted
<1>. QED BY <1>1, <1>2, <1>3, FS_Subset, FS_CardinalityType

\* A step that counts no attempt.
LEMMA CountKept ==
    ASSUME TrialInv, NEW c \in Caller, NEW v, caller' = [caller EXCEPT ![c] = v],
           attempts' <= attempts, attempts' \in Nat, UNCHANGED tried, admittedIn' \subseteq 1 .. tried,
           v.pc \in {"used", "incr"} => caller[c].pc \in {"used", "incr"} /\ v.sid = caller[c].sid
    PROVE  CountPart'
<1>1. Counted \subseteq Counted'
  BY DEF Counted, TrialInv, CallPart
<1>2. Counted' \subseteq 1 .. tried
  BY DEF Counted
<1>3. IsFiniteSet(Counted')
  <2>1. IsFiniteSet(1 .. tried)
    BY CountedFinite, FS_Interval
  <2>. QED BY <1>2, <2>1, FS_Subset
<1>4. Cardinality(Counted) <= Cardinality(Counted') /\ Cardinality(Counted') \in Nat
  BY <1>1, <1>3, FS_Subset, FS_CardinalityType
<1>5. attempts <= Cardinality(Counted)
  BY DEF TrialInv, CountPart
<1>. QED BY <1>4, <1>5, CountedFinite DEF CountPart

LEMMA PassingFinite ==
    ASSUME TrialInv
    PROVE  IsFiniteSet(Passing) /\ Cardinality(Passing) \in Nat /\ Passing \subseteq TSession
<1>1. IsFiniteSet(TSession)
  BY TrialAssumption, FS_Interval DEF TSession
<1>2. Passing \subseteq TSession
  BY DEF Passing, TrialInv, TrialTypeOK
<1>. QED BY <1>1, <1>2, FS_Subset, FS_CardinalityType

\* A step that admits nobody and counts no attempt.
LEMMA LimitKept ==
    ASSUME TrialInv, Passing' \subseteq Passing, attempts <= attempts', attempts' \in Nat
    PROVE  LimitPart'
<1>1. Cardinality(Passing') <= Cardinality(Passing) /\ Cardinality(Passing') \in Nat
  BY PassingFinite, FS_Subset, FS_CardinalityType
<1>2. Cardinality(Passing) <= attempts /\ Cardinality(Passing) <= PerHour
  BY DEF TrialInv, LimitPart
<1>. QED BY <1>1, <1>2, PassingFinite, CountedFinite, TrialAssumption DEF LimitPart

LEMMA PassingShrinks ==
    ASSUME TrialInv, NEW c \in Caller, NEW v, caller' = [caller EXCEPT ![c] = v], v.pc # "expire",
           admittedIn' \subseteq admittedIn
    PROVE  Passing' \subseteq Passing
BY DEF Passing, TrialInv, CallPart

\* A step that leaves the uses alone, or marks one.
LEMMA UsedKept ==
    ASSUME TrialInv, UNCHANGED used, started \subseteq started', labs \subseteq labs'
    PROVE  UsedWasStarted'
BY DEF TrialInv, UsedWasStarted

\* A step that leaves the counter alone.
LEMMA LimitEndsKept ==
    ASSUME TrialInv, NEW c \in Caller, NEW v, caller' = [caller EXCEPT ![c] = v],
           UNCHANGED <<attempts, counterTTL>>, tfaults' \in Nat, tfaults' >= tfaults,
           caller[c].pc = "expire" => tfaults' > 0
    PROVE  LimitEnds'
<1>. SUFFICES ASSUME attempts > 0, ~counterTTL, ~(tfaults' > 0)
              PROVE  \E d \in Caller : In(d, "expire")'
  BY DEF LimitEnds
<1>1. ~(tfaults > 0)
  BY TrialAssumption DEF TrialInv, TrialTypeOK
<1>2. PICK d \in Caller : In(d, "expire")
  BY <1>1 DEF TrialInv, LimitEnds
<1>3. d # c
  BY <1>2 DEF In
<1>. QED BY <1>2, <1>3 DEF In, TrialInv, CallPart

\* What the lock guards stays guarded in a step that leaves locks, sessions, uses and
\* answers alone, other than that of a request that creates or marks a session.
LEMMA CalmMoves ==
    ASSUME TrialInv, NEW c \in Caller, NEW v, caller' = [caller EXCEPT ![c] = v],
           coincide \subseteq coincide', UNCHANGED <<tlock, labs, used, answered>>,
           tfaults' = 0 => tfaults = 0 /\ CallCalm(v)' /\ caller[c].pc \notin {"session", "mark"}
    PROVE  CalmPart'
<1>. SUFFICES ASSUME tfaults' = 0
              PROVE  /\ \A d \in Caller : CallCalm(caller[d])'
                     /\ OneLab' /\ LabsMarked' /\ LocksKept' /\ AnswersKept'
  BY DEF CalmPart
<1>1. /\ \A d \in Caller : CallCalm(caller[d])
      /\ OneLab /\ LabsMarked /\ LocksKept /\ AnswersKept
  BY DEF TrialInv, CalmPart
<1>2. \A d \in Caller : caller'[d] = IF d = c THEN v ELSE caller[d]
  BY DEF TrialInv, CallPart
<1>3. ASSUME NEW d \in Caller
      PROVE  CallCalm(caller[d])'
  <2>1. CASE d = c
    BY <1>2, <2>1
  <2>2. CASE d # c
    <3>1. PICK u : u = caller[d] /\ CallCalm(u)
      BY <1>1
    <3>2. CallCalm(u)'
      BY <3>1 DEF CallCalm
    <3>. QED BY <1>2, <2>2, <3>1, <3>2
  <2>. QED BY <2>1, <2>2
<1>4. OneLab'
  BY <1>1 DEF OneLab
<1>5. LabsMarked'
  <2>1. \A d \in Caller : caller[d].pc = "mark" => caller'[d] = caller[d]
    BY <1>2
  <2>. QED BY <1>1, <2>1 DEF LabsMarked
<1>6. \A g \in Guest, t \in Trial, s \in TSession : Coming(g, t, s) => Coming(g, t, s)'
  <2>1. \A d \in Caller, g \in Guest, t \in Trial, s \in TSession :
            Creates(d, g, t, s) => caller'[d] = caller[d]
    BY <1>2 DEF Creates
  <2>. QED BY <2>1 DEF Coming, Creates
<1>7. LocksKept'
  BY <1>1, <1>6 DEF LocksKept, TrialInv, TrialTypeOK
<1>8. AnswersKept'
  BY <1>1, <1>6 DEF AnswersKept
<1>. QED BY <1>3, <1>4, <1>5, <1>7, <1>8

\* A step of a request that only the request itself remembers.
LEMMA MoveSound ==
    ASSUME TrialInv, NEW c \in Caller, caller[c].pc # "none",
           NEW v \in Call \cup {NoCall}, caller' = [caller EXCEPT ![c] = v],
           UNCHANGED <<used, attempts, counterTTL, labs, started, tried, admittedIn, coincide>>,
           v.pc = "none" \/ (v.sid = caller[c].sid /\ v.guest = caller[c].guest),
           v.pc # "expire", v.pc \in {"used", "incr"} => caller[c].pc \in {"used", "incr"},
           CallSound(v)', CalmPart',
           tlock' \in [Guest \X Trial -> {0} \cup TSession],
           answered' \subseteq Guest \X Trial \X TSession,
           tfaults' \in 0 .. MaxTFaults, tfaults' >= tfaults,
           caller[c].pc = "expire" => tfaults' > 0
    PROVE  TrialInv'
<1>1. CallPart'
  <2>1. tried \in 0 .. MaxTrials /\ tried <= tried
    BY TrialAssumption DEF TrialInv, TrialTypeOK
  <2>2. \A d \in Caller : caller[d].pc = "expire" => ~counterTTL /\ attempts > 0
    BY DEF TrialInv, CallPart, CallSound
  <2>. QED BY <2>1, <2>2, CallsStay
<1>2. ApartPart'
  BY ApartKept
<1>3. CountPart'
  <2>1. attempts \in Nat /\ attempts <= attempts
    BY CountedFinite
  <2>2. v.pc \in {"used", "incr"} => v.sid = caller[c].sid
    OBVIOUS
  <2>3. admittedIn' \subseteq 1 .. tried
    BY DEF TrialInv, CountPart
  <2>. QED BY <2>1, <2>2, <2>3, CountKept
<1>4. LimitPart'
  <2>1. Passing' \subseteq Passing
    BY PassingShrinks
  <2>2. attempts <= attempts' /\ attempts' \in Nat
    BY CountedFinite
  <2>. QED BY <2>1, <2>2, LimitKept
<1>5. UsedWasStarted'
  BY UsedKept
<1>6. LimitEnds'
  <2>1. tfaults' \in Nat
    BY TrialAssumption
  <2>. QED BY <2>1, LimitEndsKept
<1>7. TrialTypeOK'
  <2>1. \A d \in Caller :
               \/ caller'[d] = NoCall
               \/ caller'[d] \in [pc: {"used", "incr", "expire", "user", "lock", "held", "session",
                                       "event", "unlock", "mark"},
                                  guest: Guest, trial: Trial, sid: TSession]
    BY <1>1 DEF CallPart, Call, Pc
  <2>. QED BY <2>1 DEF TrialInv, TrialTypeOK
<1>. QED BY <1>1, <1>2, <1>3, <1>4, <1>5, <1>6, <1>7 DEF TrialInv

\* A request that ends and leaves everything else alone.
LEMMA ReplySound ==
    ASSUME TrialInv, NEW c \in Caller, caller[c].pc # "none", Reply4(c),
           UNCHANGED <<used, attempts, counterTTL, tlock, labs, started, tried, admittedIn,
                       answered, coincide>>,
           tfaults' \in 0 .. MaxTFaults, tfaults' >= tfaults,
           caller[c].pc \in {"expire", "session", "mark"} => tfaults' > 0
    PROVE  TrialInv'
<1>1. PICK v \in Call \cup {NoCall} : /\ caller' = [caller EXCEPT ![c] = v] /\ v = NoCall
                                      /\ v.pc = "none" /\ CallSound(v)' /\ CallCalm(v)'
  BY RepliesTo
<1>2. tfaults' = 0 => tfaults = 0
  BY TrialAssumption DEF TrialInv, TrialTypeOK
<1>3. CalmPart'
  <2>1. tfaults' = 0 => tfaults = 0 /\ CallCalm(v)' /\ caller[c].pc \notin {"session", "mark"}
    BY <1>1, <1>2
  <2>. QED BY <1>1, <2>1, CalmMoves
<1>4. tlock' \in [Guest \X Trial -> {0} \cup TSession] /\ answered' \subseteq Guest \X Trial \X TSession
  BY DEF TrialInv, TrialTypeOK
<1>. QED BY <1>1, <1>3, <1>4, MoveSound

LEMMA TFaultType ==
    ASSUME TrialInv, TFault
    PROVE  tfaults' \in 0 .. MaxTFaults /\ tfaults' >= tfaults /\ tfaults' > 0
BY TrialAssumption DEF TFault, TrialInv, TrialTypeOK

LEMMA NoFaultType ==
    ASSUME TrialInv, UNCHANGED tfaults
    PROVE  tfaults' \in 0 .. MaxTFaults /\ tfaults' >= tfaults
BY TrialAssumption DEF TrialInv, TrialTypeOK

-----------------------------------------------------------------------------
(* Guest trials: the steps                                                 *)

LEMMA CheckUsedSound ==
    ASSUME TrialInv, NEW c \in Caller, CheckUsed(c)
    PROVE  TrialInv'
<1>1. caller[c].pc = "used"
  BY DEF CheckUsed, In
<1>2. UNCHANGED <<used, attempts, counterTTL, tlock, labs, started, tried, admittedIn, answered,
                  coincide, tfaults>>
  BY DEF CheckUsed
<1>3. PICK g \in Guest, t \in Trial, s \in TSession :
          /\ caller[c] = [pc |-> caller[c].pc, guest |-> g, trial |-> t, sid |-> s]
          /\ caller[c].guest = g /\ caller[c].trial = t /\ Sid(c) = s /\ Key(c) = <<g, t>>
          /\ caller[c].sid = s /\ s <= tried /\ s # 0
  BY <1>1, CallOf
<1>4. CASE used[g] # 0
  <2>1. Reply4(c)
    BY <1>3, <1>4 DEF CheckUsed
  <2>. QED BY <1>1, <1>2, <2>1, NoFaultType, ReplySound
<1>5. CASE used[g] = 0
  <2>1. To(c, "incr")
    BY <1>3, <1>5 DEF CheckUsed
  <2>2. PICK v \in Call : /\ caller' = [caller EXCEPT ![c] = v]
                          /\ v.pc = "incr" /\ v.guest = g /\ v.trial = t /\ v.sid = s
    BY <1>3, <2>1, GoesTo DEF Pc
  <2>3. CallSound(v)'
    BY <1>1, <1>2, <1>3, <2>2 DEF CallSound, TrialInv, CallPart
  <2>4. CalmPart'
    <3>1. ASSUME tfaults = 0
          PROVE  CallCalm(v)'
      <4>1. \A r \in TSession : <<g, t, r>> \in labs => tlock[<<g, t>>] # 0
        <5>. SUFFICES ASSUME NEW r \in TSession, <<g, t, r>> \in labs
                      PROVE  tlock[<<g, t>>] # 0
          OBVIOUS
        <5>1. PICK d \in Caller : caller[d].pc = "mark" /\ caller[d].guest = g /\ caller[d].trial = t
          BY <1>5, <3>1 DEF TrialInv, CalmPart, LabsMarked
        <5>2. tlock[<<g, t>>] = caller[d].sid
          BY <3>1, <5>1 DEF TrialInv, CalmPart, CallCalm
        <5>. QED BY <5>1, <5>2, CallOf
      <4>2. ASSUME g \notin coincide, NEW u \in Trial, NEW r \in TSession, <<g, u, r>> \in labs
            PROVE  FALSE
        <5>1. PICK d \in Caller : caller[d].pc = "mark" /\ caller[d].guest = g
          BY <1>5, <3>1, <4>2 DEF TrialInv, CalmPart, LabsMarked
        <5>. QED BY <1>1, <1>3, <4>2, <5>1 DEF TrialInv, ApartPart
      <4>. QED BY <1>2, <2>2, <4>1, <4>2 DEF CallCalm
    <3>. QED BY <1>1, <1>2, <2>2, <3>1, CalmMoves
  <2>5. tlock' \in [Guest \X Trial -> {0} \cup TSession] /\ answered' \subseteq Guest \X Trial \X TSession
    BY <1>2 DEF TrialInv, TrialTypeOK
  <2>. QED BY <1>1, <1>2, <1>3, <2>2, <2>3, <2>4, <2>5, NoFaultType, MoveSound
<1>. QED BY <1>4, <1>5

\* A request that passes from one statement to the next, none of which is about a session.
LEMMA CalmOn ==
    ASSUME TrialInv, NEW c \in Caller, NEW g \in Guest, NEW t \in Trial, NEW s \in TSession,
           caller[c].pc \in {"incr", "expire", "user", "lock"},
           caller[c].guest = g, caller[c].trial = t, tfaults = 0,
           NEW v, v.pc \in {"expire", "user", "lock"}, v.guest = g, v.trial = t,
           UNCHANGED <<tlock, labs, coincide>>
    PROVE  CallCalm(v)'
<1>1. PICK u : u = caller[c] /\ CallCalm(u) /\ u.pc \in Checked
  BY DEF TrialInv, CalmPart, Checked
<1>. QED BY <1>1 DEF CallCalm, Checked

LEMMA UpsertGuestSound ==
    ASSUME TrialInv, NEW c \in Caller, UpsertGuest(c)
    PROVE  TrialInv'
<1>1. caller[c].pc = "user" /\ To(c, "lock")
  BY DEF UpsertGuest, In
<1>2. UNCHANGED <<used, attempts, counterTTL, tlock, labs, started, tried, admittedIn, answered,
                  coincide, tfaults>>
  BY DEF UpsertGuest
<1>3. PICK g \in Guest, t \in Trial, s \in TSession :
          /\ caller[c] = [pc |-> caller[c].pc, guest |-> g, trial |-> t, sid |-> s]
          /\ caller[c].guest = g /\ caller[c].trial = t /\ Sid(c) = s /\ Key(c) = <<g, t>>
          /\ caller[c].sid = s /\ s <= tried /\ s # 0
  BY <1>1, CallOf
<1>4. PICK v \in Call : /\ caller' = [caller EXCEPT ![c] = v]
                        /\ v.pc = "lock" /\ v.guest = g /\ v.trial = t /\ v.sid = s
  BY <1>1, <1>3, GoesTo DEF Pc
<1>5. CallSound(v)'
  BY <1>2, <1>3, <1>4 DEF CallSound
<1>6. CalmPart'
  <2>1. tfaults = 0 => CallCalm(v)'
    BY <1>1, <1>2, <1>3, <1>4, CalmOn
  <2>. QED BY <1>1, <1>2, <1>4, <2>1, CalmMoves
<1>7. tlock' \in [Guest \X Trial -> {0} \cup TSession] /\ answered' \subseteq Guest \X Trial \X TSession
  BY <1>2 DEF TrialInv, TrialTypeOK
<1>. QED BY <1>1, <1>2, <1>3, <1>4, <1>5, <1>6, <1>7, NoFaultType, MoveSound

LEMMA TrialFailsSound ==
    ASSUME TrialInv, NEW c \in Caller, TrialFails(c)
    PROVE  TrialInv'
<1>1. /\ caller[c].pc # "none" /\ TFault /\ Reply4(c)
      /\ UNCHANGED <<used, attempts, counterTTL, tlock, labs, started, tried, admittedIn, answered,
                     coincide>>
  BY DEF TrialFails, In
<1>. QED BY <1>1, TFaultType, ReplySound

\* The request's answer to a trial is the session of the lock, if that is there.
LEMMA LockSound ==
    ASSUME TrialInv, NEW c \in Caller, Lock(c)
    PROVE  TrialInv'
<1>1. caller[c].pc = "lock"
  BY DEF Lock, In
<1>2. UNCHANGED <<used, attempts, counterTTL, labs, started, tried, admittedIn, answered,
                  coincide, tfaults>>
  BY DEF Lock
<1>3. PICK g \in Guest, t \in Trial, s \in TSession :
          /\ caller[c] = [pc |-> caller[c].pc, guest |-> g, trial |-> t, sid |-> s]
          /\ caller[c].guest = g /\ caller[c].trial = t /\ Sid(c) = s /\ Key(c) = <<g, t>>
          /\ caller[c].sid = s /\ s <= tried /\ s # 0
  BY <1>1, CallOf
<1>4. answered' \subseteq Guest \X Trial \X TSession
  BY <1>2 DEF TrialInv, TrialTypeOK
<1>5. CASE tlock[<<g, t>>] # 0
  <2>1. To(c, "held") /\ UNCHANGED tlock
    BY <1>3, <1>5 DEF Lock
  <2>2. PICK v \in Call : /\ caller' = [caller EXCEPT ![c] = v]
                          /\ v.pc = "held" /\ v.guest = g /\ v.trial = t /\ v.sid = s
    BY <1>3, <2>1, GoesTo DEF Pc
  <2>3. CallSound(v)'
    BY <1>2, <1>3, <2>2 DEF CallSound
  <2>4. CalmPart'
    <3>1. ASSUME tfaults = 0
          PROVE  CallCalm(v)'
      <4>1. PICK u : u = caller[c] /\ CallCalm(u) /\ u.pc \in Checked
        BY <1>1, <3>1 DEF TrialInv, CalmPart, Checked
      <4>. QED BY <1>2, <1>3, <1>5, <2>1, <2>2, <4>1 DEF CallCalm, Checked
    <3>. QED BY <1>1, <1>2, <2>1, <2>2, <3>1, CalmMoves
  <2>5. tlock' \in [Guest \X Trial -> {0} \cup TSession]
    BY <2>1 DEF TrialInv, TrialTypeOK
  <2>. QED BY <1>1, <1>2, <1>3, <1>4, <2>2, <2>3, <2>4, <2>5, NoFaultType, MoveSound
<1>6. CASE tlock[<<g, t>>] = 0
  <2>1. To(c, "session") /\ tlock' = [tlock EXCEPT ![<<g, t>>] = s]
    BY <1>3, <1>6 DEF Lock
  <2>2. PICK v \in Call : /\ caller' = [caller EXCEPT ![c] = v]
                          /\ v = [pc |-> "session", guest |-> g, trial |-> t, sid |-> s]
                          /\ v.pc = "session" /\ v.guest = g /\ v.trial = t /\ v.sid = s
    BY <1>3, <2>1, GoesTo DEF Pc
  <2>3. CallSound(v)'
    BY <1>2, <1>3, <2>2 DEF CallSound
  <2>4. /\ tlock' \in [Guest \X Trial -> {0} \cup TSession]
        /\ \A k \in Guest \X Trial : tlock'[k] = IF k = <<g, t>> THEN s ELSE tlock[k]
    BY <2>1 DEF TrialInv, TrialTypeOK
  <2>5. CalmPart'
    <3>. SUFFICES ASSUME tfaults = 0
                  PROVE  /\ \A d \in Caller : CallCalm(caller[d])'
                         /\ OneLab' /\ LabsMarked' /\ LocksKept' /\ AnswersKept'
      BY <1>2 DEF CalmPart
    <3>1. /\ \A d \in Caller : CallCalm(caller[d])
          /\ OneLab /\ LabsMarked /\ LocksKept /\ AnswersKept
      BY DEF TrialInv, CalmPart
    <3>2. \A d \in Caller : caller'[d] = IF d = c THEN v ELSE caller[d]
      BY <2>2 DEF TrialInv, CallPart
    <3>3. CallCalm(v)'
      <4>1. PICK u : u = caller[c] /\ CallCalm(u) /\ u.pc \in Checked
        BY <1>1, <3>1 DEF Checked
      <4>2. \A r \in TSession : <<g, t, r>> \notin labs
        BY <1>3, <1>6, <4>1 DEF CallCalm
      <4>3. tlock'[<<g, t>>] = s
        BY <2>4
      <4>. QED BY <1>2, <1>3, <2>2, <4>1, <4>2, <4>3 DEF CallCalm
    <3>4. ASSUME NEW d \in Caller, d # c
          PROVE  CallCalm(caller[d])'
      <4>1. PICK u \in Call \cup {NoCall} : u = caller[d] /\ CallCalm(u)
        BY <3>1 DEF TrialInv, CallPart
      <4>2. CASE u.pc = "none"
        <5>1. CallCalm(u)'
          BY <4>2 DEF CallCalm, Checked
        <5>. QED BY <3>2, <3>4, <4>1, <5>1
      <4>3. CASE u.pc # "none"
        <5>1. u \in Call
          BY <4>1, <4>3, IdleCall
        <5>2. <<u.guest, u.trial>> \in Guest \X Trial /\ u.sid # 0
          BY <5>1 DEF Call, TSession
        <5>3. CASE <<u.guest, u.trial>> = <<g, t>>
          <6>1. u.pc \notin {"session", "mark", "held"}
            BY <1>6, <4>1, <5>2, <5>3 DEF CallCalm
          <6>2. tlock'[<<u.guest, u.trial>>] # 0
            BY <1>3, <2>4, <5>3
          <6>3. CallCalm(u)'
            BY <1>2, <4>1, <6>1, <6>2 DEF CallCalm
          <6>. QED BY <3>2, <3>4, <4>1, <6>3
        <5>4. CASE <<u.guest, u.trial>> # <<g, t>>
          <6>1. tlock'[<<u.guest, u.trial>>] = tlock[<<u.guest, u.trial>>]
            BY <2>4, <5>2, <5>4
          <6>2. CallCalm(u)'
            BY <1>2, <4>1, <6>1 DEF CallCalm
          <6>. QED BY <3>2, <3>4, <4>1, <6>2
        <5>. QED BY <5>3, <5>4
      <4>. QED BY <4>2, <4>3
    <3>5. \A d \in Caller : CallCalm(caller[d])'
      <4>1. CallCalm(caller[c])'
        BY <3>2, <3>3
      <4>. QED BY <3>4, <4>1
    <3>6. OneLab'
      BY <1>2, <3>1 DEF OneLab
    <3>7. LabsMarked'
      <4>1. \A d \in Caller : caller[d].pc = "mark" => caller'[d] = caller[d]
        BY <1>1, <3>2
      <4>. QED BY <1>2, <3>1, <4>1 DEF LabsMarked
    <3>8. \A h \in Guest, u \in Trial, r \in TSession : Coming(h, u, r) => Coming(h, u, r)'
      <4>1. \A d \in Caller, h \in Guest, u \in Trial, r \in TSession :
                Creates(d, h, u, r) => caller'[d] = caller[d]
        BY <1>1, <3>2 DEF Creates
      <4>. QED BY <1>2, <4>1 DEF Coming, Creates
    <3>9. Coming(g, t, s)'
      BY <2>2, <3>2 DEF Coming, Creates
    <3>10. LocksKept'
      <4>. SUFFICES ASSUME NEW h \in Guest, NEW u \in Trial, tlock'[<<h, u>>] # 0
                    PROVE  \E r \in TSession : r = tlock'[<<h, u>>] /\ Coming(h, u, r)'
        BY DEF LocksKept
      <4>1. CASE <<h, u>> = <<g, t>>
        BY <2>4, <3>9, <4>1
      <4>2. CASE <<h, u>> # <<g, t>>
        <5>1. PICK r \in TSession : r = tlock[<<h, u>>] /\ tlock'[<<h, u>>] = r
          BY <2>4, <4>2 DEF TrialInv, TrialTypeOK
        <5>. QED BY <3>1, <3>8, <4>2, <5>1 DEF LocksKept
      <4>. QED BY <4>1, <4>2
    <3>11. AnswersKept'
      BY <1>2, <3>1, <3>8 DEF AnswersKept
    <3>. QED BY <3>5, <3>6, <3>7, <3>10, <3>11
  <2>. QED BY <1>1, <1>2, <1>3, <1>4, <2>2, <2>3, <2>4, <2>5, NoFaultType, MoveSound
<1>. QED BY <1>5, <1>6

\* The session answered is the lock's; the lock is gone only after a fault.
LEMMA HeldSound ==
    ASSUME TrialInv, NEW c \in Caller, Held(c)
    PROVE  TrialInv'
<1>1. caller[c].pc = "held"
  BY DEF Held, In
<1>2. UNCHANGED <<used, attempts, counterTTL, tlock, labs, started, tried, admittedIn, coincide,
                  tfaults>>
  BY DEF Held
<1>3. PICK g \in Guest, t \in Trial, s \in TSession :
          /\ caller[c] = [pc |-> caller[c].pc, guest |-> g, trial |-> t, sid |-> s]
          /\ caller[c].guest = g /\ caller[c].trial = t /\ Sid(c) = s /\ Key(c) = <<g, t>>
          /\ caller[c].sid = s /\ s <= tried /\ s # 0
  BY <1>1, CallOf
<1>4. tlock' \in [Guest \X Trial -> {0} \cup TSession]
  BY <1>2 DEF TrialInv, TrialTypeOK
<1>5. CASE tlock[<<g, t>>] = 0
  <2>1. To(c, "session") /\ UNCHANGED answered
    BY <1>3, <1>5 DEF Held
  <2>2. PICK v \in Call : /\ caller' = [caller EXCEPT ![c] = v]
                          /\ v.pc = "session" /\ v.guest = g /\ v.trial = t /\ v.sid = s
    BY <1>3, <2>1, GoesTo DEF Pc
  <2>3. CallSound(v)'
    BY <1>2, <1>3, <2>2 DEF CallSound
  <2>4. tfaults # 0
    BY <1>1, <1>3, <1>5 DEF TrialInv, CalmPart, CallCalm
  <2>5. CalmPart'
    BY <1>2, <2>4 DEF CalmPart
  <2>6. answered' \subseteq Guest \X Trial \X TSession
    BY <2>1 DEF TrialInv, TrialTypeOK
  <2>. QED BY <1>1, <1>2, <1>3, <1>4, <2>2, <2>3, <2>5, <2>6, NoFaultType, MoveSound
<1>6. CASE tlock[<<g, t>>] # 0
  <2>1. PICK r \in TSession : r = tlock[<<g, t>>]
    BY <1>6 DEF TrialInv, TrialTypeOK
  <2>2. answered' = answered \cup {<<g, t, r>>} /\ Reply4(c)
    BY <1>3, <1>6, <2>1, KeySid DEF Held
  <2>3. PICK v \in Call \cup {NoCall} : /\ caller' = [caller EXCEPT ![c] = v] /\ v = NoCall
                                        /\ v.pc = "none" /\ CallSound(v)' /\ CallCalm(v)'
    BY <2>2, RepliesTo
  <2>4. answered' \subseteq Guest \X Trial \X TSession
    BY <2>2 DEF TrialInv, TrialTypeOK
  <2>5. CalmPart'
    <3>. SUFFICES ASSUME tfaults = 0
                  PROVE  /\ \A d \in Caller : CallCalm(caller[d])'
                         /\ OneLab' /\ LabsMarked' /\ LocksKept' /\ AnswersKept'
      BY <1>2 DEF CalmPart
    <3>1. /\ \A d \in Caller : CallCalm(caller[d])
          /\ OneLab /\ LabsMarked /\ LocksKept /\ AnswersKept
      BY DEF TrialInv, CalmPart
    <3>2. \A d \in Caller : caller'[d] = IF d = c THEN v ELSE caller[d]
      BY <2>3 DEF TrialInv, CallPart
    <3>3. ASSUME NEW d \in Caller
          PROVE  CallCalm(caller[d])'
      <4>1. CASE d = c
        BY <2>3, <3>2, <4>1
      <4>2. CASE d # c
        <5>1. PICK u : u = caller[d] /\ CallCalm(u)
          BY <3>1
        <5>2. CallCalm(u)'
          BY <1>2, <5>1 DEF CallCalm
        <5>. QED BY <3>2, <4>2, <5>1, <5>2
      <4>. QED BY <4>1, <4>2
    <3>4. OneLab'
      BY <1>2, <3>1 DEF OneLab
    <3>5. LabsMarked'
      <4>1. \A d \in Caller : caller[d].pc = "mark" => caller'[d] = caller[d]
        BY <1>1, <3>2
      <4>. QED BY <1>2, <3>1, <4>1 DEF LabsMarked
    <3>6. \A h \in Guest, u \in Trial, q \in TSession : Coming(h, u, q) => Coming(h, u, q)'
      <4>1. \A d \in Caller, h \in Guest, u \in Trial, q \in TSession :
                Creates(d, h, u, q) => caller'[d] = caller[d]
        BY <1>1, <3>2 DEF Creates
      <4>. QED BY <1>2, <4>1 DEF Coming, Creates
    <3>7. LocksKept'
      BY <1>2, <3>1, <3>6 DEF LocksKept, TrialInv, TrialTypeOK
    <3>8. AnswersKept'
      <4>1. Coming(g, t, r)
        BY <1>6, <2>1, <3>1 DEF LocksKept
      <4>2. Coming(g, t, r)'
        BY <3>6, <4>1
      <4>. QED BY <2>2, <3>1, <3>6, <4>2 DEF AnswersKept
    <3>. QED BY <3>3, <3>4, <3>5, <3>7, <3>8
  <2>. QED BY <1>1, <1>2, <1>3, <1>4, <2>3, <2>4, <2>5, NoFaultType, MoveSound
<1>. QED BY <1>5, <1>6

\* What the parts of the invariant say together of a step of a request.
LEMMA StepSound ==
    ASSUME TrialInv, CallPart', ApartPart', CountPart', LimitPart', UsedWasStarted', LimitEnds',
           CalmPart',
           used' \in [Guest -> {0} \cup TSession], attempts' \in 0 .. MaxTrials,
           counterTTL' => attempts' > 0,
           tlock' \in [Guest \X Trial -> {0} \cup TSession],
           labs' \subseteq Guest \X Trial \X TSession, started' \subseteq TSession,
           tried' \in 0 .. MaxTrials, admittedIn' \subseteq TSession,
           answered' \subseteq Guest \X Trial \X TSession, coincide' \subseteq Guest,
           tfaults' \in 0 .. MaxTFaults
    PROVE  TrialInv'
<1>1. \A d \in Caller :
           \/ caller'[d] = NoCall
           \/ caller'[d] \in [pc: {"used", "incr", "expire", "user", "lock", "held", "session",
                                   "event", "unlock", "mark"},
                              guest: Guest, trial: Trial, sid: TSession]
  BY DEF CallPart, Call, Pc
<1>. QED BY <1>1 DEF TrialInv, TrialTypeOK

LEMMA UnlockSound ==
    ASSUME TrialInv, NEW c \in Caller, Unlock(c)
    PROVE  TrialInv'
<1>1. caller[c].pc = "unlock" /\ Reply4(c)
  BY DEF Unlock, In
<1>2. UNCHANGED <<used, attempts, counterTTL, labs, started, tried, admittedIn, answered, coincide,
                  tfaults>>
  BY DEF Unlock
<1>3. PICK v \in Call \cup {NoCall} : /\ caller' = [caller EXCEPT ![c] = v] /\ v = NoCall
                                      /\ v.pc = "none" /\ CallSound(v)' /\ CallCalm(v)'
  BY <1>1, RepliesTo
<1>4. tfaults # 0
  BY <1>1 DEF TrialInv, CalmPart, CallCalm
<1>5. CalmPart'
  BY <1>2, <1>4 DEF CalmPart
<1>6. tlock' \in [Guest \X Trial -> {0} \cup TSession] /\ answered' \subseteq Guest \X Trial \X TSession
  BY <1>2 DEF Unlock, TrialInv, TrialTypeOK
<1>. QED BY <1>1, <1>2, <1>3, <1>5, <1>6, NoFaultType, MoveSound

LEMMA MarkUsedSound ==
    ASSUME TrialInv, NEW c \in Caller, MarkUsed(c)
    PROVE  TrialInv'
<1>1. caller[c].pc = "mark" /\ Reply4(c)
  BY DEF MarkUsed, In
<1>2. UNCHANGED <<attempts, counterTTL, tlock, labs, started, tried, admittedIn, answered, coincide,
                  tfaults>>
  BY DEF MarkUsed
<1>3. PICK g \in Guest, t \in Trial, s \in TSession :
          /\ caller[c] = [pc |-> caller[c].pc, guest |-> g, trial |-> t, sid |-> s]
          /\ caller[c].guest = g /\ caller[c].trial = t /\ Sid(c) = s /\ Key(c) = <<g, t>>
          /\ caller[c].sid = s /\ s <= tried /\ s # 0
  BY <1>1, CallOf
<1>4. used' = [used EXCEPT ![g] = s]
  BY <1>3 DEF MarkUsed
<1>5. /\ used' \in [Guest -> {0} \cup TSession]
      /\ \A h \in Guest : used'[h] = IF h = g THEN s ELSE used[h]
  BY <1>4 DEF TrialInv, TrialTypeOK
<1>6. PICK v \in Call \cup {NoCall} : /\ caller' = [caller EXCEPT ![c] = v] /\ v = NoCall
                                      /\ v.pc = "none" /\ CallSound(v)' /\ CallCalm(v)'
  BY <1>1, RepliesTo
<1>7. CallPart' /\ ApartPart'
  <2>1. tried \in 0 .. MaxTrials /\ tried <= tried
    BY TrialAssumption DEF TrialInv, TrialTypeOK
  <2>2. \A d \in Caller : caller[d].pc = "expire" => ~counterTTL /\ attempts > 0
    BY DEF TrialInv, CallPart, CallSound
  <2>. QED BY <1>2, <1>6, <2>1, <2>2, CallsStay, ApartKept
<1>8. CountPart'
  <2>1. attempts \in Nat /\ attempts <= attempts
    BY CountedFinite
  <2>2. admittedIn' \subseteq 1 .. tried
    BY <1>2 DEF TrialInv, CountPart
  <2>. QED BY <1>2, <1>6, <2>1, <2>2, CountKept
<1>9. LimitPart'
  <2>1. Passing' \subseteq Passing
    BY <1>2, <1>6, PassingShrinks
  <2>2. attempts <= attempts' /\ attempts' \in Nat
    BY <1>2, CountedFinite
  <2>. QED BY <2>1, <2>2, LimitKept
<1>10. UsedWasStarted'
  <2>. SUFFICES ASSUME NEW h \in Guest, used'[h] # 0
                PROVE  used'[h] \in started /\ \E u \in Trial : <<h, u, used'[h]>> \in labs
    BY <1>2 DEF UsedWasStarted
  <2>1. CASE h = g
    <3>1. s \in started /\ <<g, t, s>> \in labs
      BY <1>1, <1>3 DEF TrialInv, CallPart, CallSound
    <3>. QED BY <1>5, <2>1, <3>1
  <2>2. CASE h # g
    BY <1>5, <2>2 DEF TrialInv, UsedWasStarted
  <2>. QED BY <2>1, <2>2
<1>11. LimitEnds'
  <2>1. tfaults' \in Nat /\ tfaults' >= tfaults
    BY <1>2, TrialAssumption DEF TrialInv, TrialTypeOK
  <2>. QED BY <1>1, <1>2, <1>6, <2>1, LimitEndsKept
<1>12. CalmPart'
  <2>. SUFFICES ASSUME tfaults = 0
                PROVE  /\ \A d \in Caller : CallCalm(caller[d])'
                       /\ OneLab' /\ LabsMarked' /\ LocksKept' /\ AnswersKept'
    BY <1>2 DEF CalmPart
  <2>1. /\ \A d \in Caller : CallCalm(caller[d])
        /\ OneLab /\ LabsMarked /\ LocksKept /\ AnswersKept
    BY DEF TrialInv, CalmPart
  <2>2. \A d \in Caller : caller'[d] = IF d = c THEN v ELSE caller[d]
    BY <1>6 DEF TrialInv, CallPart
  <2>3. ASSUME NEW d \in Caller
        PROVE  CallCalm(caller[d])'
    <3>1. CASE d = c
      BY <1>6, <2>2, <3>1
    <3>2. CASE d # c
      <4>1. PICK u : u = caller[d] /\ CallCalm(u)
        BY <2>1
      <4>2. CallCalm(u)'
        BY <1>2, <4>1 DEF CallCalm
      <4>. QED BY <2>2, <3>2, <4>1, <4>2
    <3>. QED BY <3>1, <3>2
  <2>4. OneLab'
    BY <1>2, <2>1 DEF OneLab
  <2>5. LabsMarked'
    <3>. SUFFICES ASSUME NEW h \in Guest, NEW u \in Trial, NEW r \in TSession, <<h, u, r>> \in labs,
                         used'[h] = 0
                  PROVE  \E d \in Caller : (caller[d].pc = "mark" /\ caller[d].guest = h
                                            /\ caller[d].trial = u)'
      BY <1>2 DEF LabsMarked
    <3>1. h # g /\ used[h] = 0
      BY <1>3, <1>5
    <3>2. PICK d \in Caller : caller[d].pc = "mark" /\ caller[d].guest = h /\ caller[d].trial = u
      BY <2>1, <3>1 DEF LabsMarked
    <3>3. d # c
      BY <1>3, <3>1, <3>2
    <3>. QED BY <2>2, <3>2, <3>3
  <2>6. \A h \in Guest, u \in Trial, r \in TSession : Coming(h, u, r) => Coming(h, u, r)'
    <3>1. \A d \in Caller, h \in Guest, u \in Trial, r \in TSession :
              Creates(d, h, u, r) => caller'[d] = caller[d]
      BY <1>1, <2>2 DEF Creates
    <3>. QED BY <1>2, <3>1 DEF Coming, Creates
  <2>7. LocksKept'
    BY <1>2, <2>1, <2>6 DEF LocksKept, TrialInv, TrialTypeOK
  <2>8. AnswersKept'
    BY <1>2, <2>1, <2>6 DEF AnswersKept
  <2>. QED BY <2>3, <2>4, <2>5, <2>7, <2>8
<1>. QED BY <1>2, <1>5, <1>7, <1>8, <1>9, <1>10, <1>11, <1>12, StepSound DEF TrialInv, TrialTypeOK

\* A session is created and announced: only for a request that holds the lock, and only
\* the first for its key.
LEMMA CreateSound ==
    ASSUME TrialInv, NEW c \in Caller, Create(c)
    PROVE  TrialInv'
<1>1. caller[c].pc = "session"
  BY DEF Create, In
<1>2. UNCHANGED <<used, attempts, counterTTL, tlock, tried, admittedIn, answered, coincide>>
  BY DEF Create
<1>3. PICK g \in Guest, t \in Trial, s \in TSession :
          /\ caller[c] = [pc |-> caller[c].pc, guest |-> g, trial |-> t, sid |-> s]
          /\ caller[c].guest = g /\ caller[c].trial = t /\ Sid(c) = s /\ Key(c) = <<g, t>>
          /\ caller[c].sid = s /\ s <= tried /\ s # 0
  BY <1>1, CallOf
<1>4. PICK written \in SUBSET {"row", "event"} :
          /\ labs' = IF "row" \in written THEN labs \cup {<<g, t, s>>} ELSE labs
          /\ started' = IF "event" \in written THEN started \cup {s} ELSE started
          /\ IF written = {"row", "event"} THEN To(c, "mark") /\ UNCHANGED tfaults
             ELSE TFault /\ To(c, "unlock")
  <2>1. PICK written \in SUBSET {"row", "event"} :
            /\ labs' = IF "row" \in written THEN labs \cup {Key(c) \o <<Sid(c)>>} ELSE labs
            /\ started' = IF "event" \in written THEN started \cup {Sid(c)} ELSE started
            /\ IF written = {"row", "event"} THEN To(c, "mark") /\ UNCHANGED tfaults
               ELSE TFault /\ To(c, "unlock")
    BY Zenon DEF Create
  <2>2. Key(c) \o <<Sid(c)>> = <<g, t, s>> /\ Sid(c) = s
    BY <1>3, KeySid
  <2>. QED BY <2>1, <2>2
<1>5. PICK v \in Call :
          /\ caller' = [caller EXCEPT ![c] = v]
          /\ v.guest = g /\ v.trial = t /\ v.sid = s
          /\ \/ v.pc = "mark" /\ UNCHANGED tfaults
                /\ labs' = labs \cup {<<g, t, s>>} /\ started' = started \cup {s}
             \/ v.pc = "unlock" /\ TFault
  <2>1. CASE written = {"row", "event"}
    <3>1. To(c, "mark") /\ UNCHANGED tfaults
      BY <1>4, <2>1, Zenon
    <3>2. labs' = labs \cup {<<g, t, s>>} /\ started' = started \cup {s}
      BY <1>4, <2>1
    <3>. QED BY <1>3, <3>1, <3>2, GoesTo DEF Pc
  <2>2. CASE written # {"row", "event"}
    <3>1. TFault /\ To(c, "unlock")
      BY <1>4, <2>2, Zenon
    <3>. QED BY <1>3, <3>1, GoesTo DEF Pc
  <2>. QED BY <2>1, <2>2
<1>6. /\ labs \subseteq labs' /\ labs' \subseteq labs \cup {<<g, t, s>>}
      /\ started \subseteq started' /\ started' \subseteq TSession
      /\ labs' \subseteq Guest \X Trial \X TSession
  BY <1>4 DEF TrialInv, TrialTypeOK
<1>7. tfaults' \in 0 .. MaxTFaults /\ tfaults' >= tfaults /\ tfaults' \in Nat
  BY <1>5, TFaultType, NoFaultType, TrialAssumption
<1>8. CallPart' /\ ApartPart'
  <2>1. tried \in 0 .. MaxTrials /\ tried <= tried
    BY TrialAssumption DEF TrialInv, TrialTypeOK
  <2>2. \A d \in Caller : caller[d].pc = "expire" => ~counterTTL /\ attempts > 0
    BY DEF TrialInv, CallPart, CallSound
  <2>3. CallSound(v)'
    BY <1>2, <1>3, <1>5 DEF CallSound
  <2>. QED BY <1>1, <1>2, <1>3, <1>5, <1>6, <2>1, <2>2, <2>3, CallsStay, ApartKept
<1>9. CountPart'
  <2>1. attempts \in Nat /\ attempts <= attempts
    BY CountedFinite
  <2>2. admittedIn' \subseteq 1 .. tried
    BY <1>2 DEF TrialInv, CountPart
  <2>. QED BY <1>2, <1>5, <2>1, <2>2, CountKept
<1>10. LimitPart'
  <2>1. Passing' \subseteq Passing
    BY <1>2, <1>5, PassingShrinks
  <2>2. attempts <= attempts' /\ attempts' \in Nat
    BY <1>2, CountedFinite
  <2>. QED BY <2>1, <2>2, LimitKept
<1>11. UsedWasStarted'
  BY <1>2, <1>6, UsedKept
<1>12. LimitEnds'
  BY <1>1, <1>2, <1>5, <1>7, LimitEndsKept
<1>13. CalmPart'
  <2>. SUFFICES ASSUME tfaults' = 0
                PROVE  /\ \A d \in Caller : CallCalm(caller[d])'
                       /\ OneLab' /\ LabsMarked' /\ LocksKept' /\ AnswersKept'
    BY DEF CalmPart
  <2>1. /\ v.pc = "mark" /\ tfaults = 0
        /\ labs' = labs \cup {<<g, t, s>>} /\ started' = started \cup {s}
    BY <1>5, TFaultType
  <2>2. /\ \A d \in Caller : CallCalm(caller[d])
        /\ OneLab /\ LabsMarked /\ LocksKept /\ AnswersKept
    BY <2>1 DEF TrialInv, CalmPart
  <2>3. \A d \in Caller : caller'[d] = IF d = c THEN v ELSE caller[d]
    BY <1>5 DEF TrialInv, CallPart
  <2>4. /\ tlock[<<g, t>>] = s
        /\ \A r \in TSession : <<g, t, r>> \notin labs
        /\ g \notin coincide => \A u \in Trial, r \in TSession : <<g, u, r>> \notin labs
    BY <1>1, <1>3, <2>2 DEF CallCalm, Checked
  <2>5. ASSUME NEW d \in Caller
        PROVE  CallCalm(caller[d])'
    <3>1. CASE d = c
      <4>1. CallCalm(v)'
        BY <1>2, <1>5, <2>1, <2>4 DEF CallCalm, Checked
      <4>. QED BY <2>3, <3>1, <4>1
    <3>2. CASE d # c
      <4>1. PICK u \in Call \cup {NoCall} : u = caller[d] /\ CallCalm(u)
        BY <2>2 DEF TrialInv, CallPart
      <4>2. CASE u.pc = "none"
        <5>1. CallCalm(u)'
          BY <4>2 DEF CallCalm, Checked
        <5>. QED BY <2>3, <3>2, <4>1, <5>1
      <4>3. CASE u.pc # "none"
        <5>1. u.sid # s /\ (u.guest = g => g \in coincide)
          BY <1>1, <1>3, <3>2, <4>1, <4>3 DEF TrialInv, ApartPart
        <5>2. <<u.guest, u.trial>> = <<g, t>> => u.pc \notin {"session", "mark"}
          BY <2>4, <4>1, <5>1 DEF CallCalm
        <5>3. u.pc = "session" => \A r \in TSession : <<u.guest, u.trial, r>> \notin labs'
          BY <2>1, <4>1, <5>2 DEF CallCalm
        <5>4. u.pc \in Checked /\ (\E r \in TSession : <<u.guest, u.trial, r>> \in labs')
                  => tlock[<<u.guest, u.trial>>] # 0
          <6>1. CASE <<u.guest, u.trial>> = <<g, t>>
            BY <1>3, <2>4, <6>1
          <6>2. CASE <<u.guest, u.trial>> # <<g, t>>
            BY <2>1, <4>1, <6>2 DEF CallCalm
          <6>. QED BY <6>1, <6>2
        <5>5. u.pc \in Checked /\ u.guest \notin coincide
                  => \A w \in Trial, r \in TSession : <<u.guest, w, r>> \notin labs'
          BY <2>1, <4>1, <5>1 DEF CallCalm
        <5>6. CallCalm(u)'
          BY <1>2, <4>1, <5>3, <5>4, <5>5 DEF CallCalm
        <5>. QED BY <2>3, <3>2, <4>1, <5>6
      <4>. QED BY <4>2, <4>3
    <3>. QED BY <3>1, <3>2
  <2>6. OneLab'
    <3>1. \A h \in Guest, u \in Trial, q, r \in TSession :
              <<h, u, q>> \in labs' /\ <<h, u, r>> \in labs' => q = r
      BY <2>1, <2>2, <2>4 DEF OneLab
    <3>2. \A h \in Guest \ coincide, u, w \in Trial, q, r \in TSession :
              <<h, u, q>> \in labs' /\ <<h, w, r>> \in labs' => u = w
      BY <2>1, <2>2, <2>4 DEF OneLab
    <3>. QED BY <1>2, <3>1, <3>2 DEF OneLab
  <2>7. LabsMarked'
    <3>. SUFFICES ASSUME NEW h \in Guest, NEW u \in Trial, NEW r \in TSession, <<h, u, r>> \in labs',
                         used[h] = 0
                  PROVE  \E d \in Caller : (caller[d].pc = "mark" /\ caller[d].guest = h
                                            /\ caller[d].trial = u)'
      BY <1>2 DEF LabsMarked
    <3>1. CASE <<h, u, r>> = <<g, t, s>>
      BY <1>5, <2>1, <2>3, <3>1
    <3>2. CASE <<h, u, r>> # <<g, t, s>>
      <4>1. PICK d \in Caller : caller[d].pc = "mark" /\ caller[d].guest = h /\ caller[d].trial = u
        BY <2>1, <2>2, <3>2 DEF LabsMarked
      <4>2. d # c
        BY <1>1, <4>1
      <4>. QED BY <2>3, <4>1, <4>2
    <3>. QED BY <3>1, <3>2
  <2>8. ASSUME NEW h \in Guest, NEW u \in Trial, NEW r \in TSession, Coming(h, u, r)
        PROVE  Coming(h, u, r)'
    <3>1. CASE <<h, u, r>> = <<g, t, s>>
      <4>1. <<h, u, r>> \in labs'
        BY <2>1, <3>1
      <4>. QED BY <4>1 DEF Coming
    <3>2. CASE <<h, u, r>> # <<g, t, s>>
      <4>1. ASSUME NEW d \in Caller, Creates(d, h, u, r)
            PROVE  Creates(d, h, u, r)'
        <5>1. d # c
          BY <1>3, <3>2, <4>1 DEF Creates
        <5>. QED BY <2>3, <4>1, <5>1 DEF Creates
      <4>. QED BY <1>6, <2>8, <4>1 DEF Coming
    <3>. QED BY <3>1, <3>2
  <2>9. LocksKept'
    BY <1>2, <2>2, <2>8 DEF LocksKept, TrialInv, TrialTypeOK
  <2>10. AnswersKept'
    BY <1>2, <2>2, <2>8 DEF AnswersKept
  <2>. QED BY <2>5, <2>6, <2>7, <2>9, <2>10
<1>. QED BY <1>2, <1>6, <1>7, <1>8, <1>9, <1>10, <1>11, <1>12, <1>13, StepSound
         DEF TrialInv, TrialTypeOK

\* The first attempt of an hour goes on to begin it; the others are admitted up to the
\* limit.
LEMMA CountTrialSound ==
    ASSUME TrialInv, NEW c \in Caller, CountTrial(c)
    PROVE  TrialInv'
<1>1. caller[c].pc = "incr" /\ attempts' = attempts + 1
  BY DEF CountTrial, In
<1>2. UNCHANGED <<used, counterTTL, tlock, labs, started, tried, answered, coincide, tfaults>>
  BY DEF CountTrial
<1>3. PICK g \in Guest, t \in Trial, s \in TSession :
          /\ caller[c] = [pc |-> caller[c].pc, guest |-> g, trial |-> t, sid |-> s]
          /\ caller[c].guest = g /\ caller[c].trial = t /\ Sid(c) = s /\ Key(c) = <<g, t>>
          /\ caller[c].sid = s /\ s <= tried /\ s # 0
  BY <1>1, CallOf
<1>4. attempts \in Nat /\ tried \in Nat /\ tried <= MaxTrials /\ PerHour \in Nat /\ PerHour # 0
  BY TrialAssumption DEF TrialInv, TrialTypeOK
<1>5. PICK v \in Call \cup {NoCall} :
          /\ caller' = [caller EXCEPT ![c] = v]
          /\ \/ v = NoCall /\ v.pc = "none"
             \/ v \in Call /\ v.guest = g /\ v.trial = t /\ v.sid = s
          /\ \/ v.pc = "expire" /\ attempts = 0 /\ UNCHANGED admittedIn
             \/ v.pc = "none" /\ attempts # 0 /\ UNCHANGED admittedIn
             \/ v.pc = "user" /\ attempts # 0 /\ attempts + 1 <= PerHour
                /\ admittedIn' = admittedIn \cup {s}
  <2>1. CASE attempts = 0
    <3>1. To(c, "expire") /\ UNCHANGED admittedIn
      BY <1>1, <2>1 DEF CountTrial
    <3>. QED BY <1>3, <2>1, <3>1, GoesTo DEF Pc
  <2>2. CASE attempts # 0 /\ attempts + 1 > PerHour
    <3>1. Reply4(c) /\ UNCHANGED admittedIn
      BY <1>1, <1>4, <2>2 DEF CountTrial
    <3>. QED BY <2>2, <3>1, RepliesTo
  <2>3. CASE attempts # 0 /\ attempts + 1 <= PerHour
    <3>1. To(c, "user") /\ admittedIn' = admittedIn \cup {s}
      BY <1>1, <1>3, <1>4, <2>3 DEF CountTrial
    <3>. QED BY <1>3, <2>3, <3>1, GoesTo DEF Pc
  <2>. QED BY <1>4, <2>1, <2>2, <2>3
<1>6. s \in 1 .. tried /\ admittedIn \subseteq 1 .. tried /\ s \notin admittedIn
  <2>1. s \in Nat
    BY DEF TSession
  <2>2. s \notin admittedIn
    BY <1>1, <1>3 DEF TrialInv, CallPart, CallSound
  <2>. QED BY <1>3, <1>4, <2>1, <2>2 DEF TrialInv, CountPart
<1>7. \A d \in Caller : caller[d].pc = "expire" => ~counterTTL /\ attempts > 0
  BY DEF TrialInv, CallPart, CallSound
<1>8. CallSound(v)'
  <2>1. attempts = 0 => ~counterTTL
    BY DEF TrialInv, TrialTypeOK
  <2>2. attempts' > 0
    BY <1>1, <1>4
  <2>3. CASE v.pc = "none"
    BY <1>5, <2>3 DEF CallSound, Call, Pc
  <2>4. CASE v.pc # "none"
    BY <1>2, <1>3, <1>5, <1>6, <2>1, <2>2, <2>4 DEF CallSound
  <2>. QED BY <2>3, <2>4
<1>9. CallPart'
  <2>1. tried \in 0 .. MaxTrials /\ tried <= tried
    BY <1>4
  <2>2. \A d \in Caller : caller[d].pc = "expire" => ~counterTTL' /\ attempts' > 0
    BY <1>1, <1>2, <1>4, <1>7
  <2>3. admittedIn' \subseteq admittedIn \cup {caller[c].sid}
    BY <1>3, <1>5
  <2>. QED BY <1>1, <1>2, <1>5, <1>8, <2>1, <2>2, <2>3, CallsStay
<1>10. ApartPart'
  <2>1. v.pc = "expire" => \A d \in Caller : caller[d].pc # "expire"
    BY <1>4, <1>5, <1>7
  <2>. QED BY <1>1, <1>2, <1>3, <1>5, <2>1, ApartKept
<1>11. CountPart' /\ attempts' \in 0 .. MaxTrials
  <2>1. s \notin Counted
    BY <1>1, <1>3 DEF Counted
  <2>2. Counted' = Counted \cup {s}
    <3>1. \A d \in Caller \ {c} : caller'[d] = caller[d] /\ (caller[d].pc \in {"used", "incr"} => caller[d].sid # s)
      BY <1>1, <1>3, <1>5 DEF TrialInv, CallPart, ApartPart
    <3>2. caller'[c] = v /\ v.pc \notin {"used", "incr"}
      BY <1>5 DEF TrialInv, CallPart
    <3>. QED BY <1>1, <1>2, <1>3, <1>6, <3>1, <3>2 DEF Counted
  <2>3. Cardinality(Counted') = Cardinality(Counted) + 1
    BY <2>1, <2>2, CountedFinite, FS_AddElement
  <2>4. Counted' \subseteq 1 .. tried
    BY <1>2 DEF Counted
  <2>5. IsFiniteSet(1 .. tried) /\ Cardinality(1 .. tried) = tried
    BY <1>4, FS_Interval
  <2>6. Cardinality(Counted') <= tried
    BY <2>4, <2>5, FS_Subset
  <2>7. attempts <= Cardinality(Counted) /\ Cardinality(Counted) \in Nat
    BY CountedFinite DEF TrialInv, CountPart
  <2>8. attempts' <= Cardinality(Counted') /\ attempts' \in 0 .. MaxTrials
    <3>. HIDE DEF Counted
    <3>1. Cardinality(Counted') \in Nat
      BY <2>3, <2>7
    <3>. QED BY <1>1, <1>4, <2>3, <2>6, <2>7, <3>1, TrialAssumption
  <2>. QED BY <1>2, <1>5, <1>6, <2>8 DEF CountPart
<1>12. LimitPart'
  <2>. DEFINE n == Cardinality(Passing)
              m == Cardinality(Passing')
  <2>1. n <= attempts /\ n <= PerHour /\ n \in Nat
    BY PassingFinite DEF TrialInv, LimitPart
  <2>2. CASE v.pc = "none"
    <3>1. Passing' \subseteq Passing
      BY <1>5, <2>2, PassingShrinks
    <3>. QED BY <1>1, <1>4, <3>1, LimitKept
  <2>3. CASE v.pc # "none"
    <3>1. s \notin Passing
      <4>1. \A d \in Caller : caller[d].pc = "expire" => caller[d].sid # s
        BY <1>1, <1>3 DEF TrialInv, ApartPart
      <4>. QED BY <1>6, <4>1 DEF Passing
    <3>2. Passing' = Passing \cup {s}
      <4>1. \A d \in Caller : caller'[d] = IF d = c THEN v ELSE caller[d]
        BY <1>5 DEF TrialInv, CallPart
      <4>2. v.sid = s
        BY <1>5, <2>3
      <4>3. CASE v.pc = "expire"
        BY <1>1, <1>5, <4>1, <4>2, <4>3 DEF Passing
      <4>4. CASE v.pc # "expire"
        <5>1. admittedIn' = admittedIn \cup {s}
          BY <1>5, <2>3, <4>4
        <5>. QED BY <1>1, <4>1, <4>4, <5>1 DEF Passing
      <4>. QED BY <4>3, <4>4
    <3>3. m = n + 1
      BY <3>1, <3>2, PassingFinite, FS_AddElement
    <3>4. n + 1 <= PerHour
      <4>1. CASE attempts = 0
        BY <1>4, <2>1, <4>1
      <4>2. CASE attempts # 0
        <5>1. attempts + 1 <= PerHour
          BY <1>5, <2>3, <4>2
        <5>. QED BY <1>4, <2>1, <5>1
      <4>. QED BY <4>1, <4>2
    <3>5. m <= attempts' /\ m <= PerHour
      <4>. HIDE DEF n, m
      <4>. QED BY <1>1, <1>4, <2>1, <3>3, <3>4
    <3>. QED BY <3>5 DEF LimitPart
  <2>. QED BY <2>2, <2>3
<1>13. UsedWasStarted'
  BY <1>2, UsedKept
<1>14. LimitEnds'
  <2>1. CASE v.pc = "expire"
    <3>1. caller'[c] = v
      BY <1>5 DEF TrialInv, CallPart
    <3>. QED BY <2>1, <3>1 DEF LimitEnds, In
  <2>2. CASE v.pc # "expire"
    <3>1. attempts > 0
      BY <1>4, <1>5, <2>2
    <3>2. ~counterTTL => tfaults > 0 \/ \E d \in Caller : caller'[d].pc = "expire"
      <4>. SUFFICES ASSUME ~counterTTL, ~(tfaults > 0)
                    PROVE  \E d \in Caller : caller'[d].pc = "expire"
        OBVIOUS
      <4>1. PICK d \in Caller : caller[d].pc = "expire"
        BY <3>1 DEF TrialInv, LimitEnds, In
      <4>. QED BY <1>1, <1>5, <4>1 DEF TrialInv, CallPart
    <3>. QED BY <1>2, <3>2 DEF LimitEnds, In
  <2>. QED BY <2>1, <2>2
<1>15. CalmPart'
  <2>1. ASSUME tfaults = 0
        PROVE  CallCalm(v)'
    <3>1. CASE v.pc = "none"
      BY <3>1 DEF CallCalm, Checked
    <3>2. CASE v.pc # "none"
      BY <1>1, <1>2, <1>3, <1>5, <2>1, <3>2, CalmOn
    <3>. QED BY <3>1, <3>2
  <2>. QED BY <1>1, <1>2, <1>5, <2>1, CalmMoves
<1>16. counterTTL' => attempts' > 0
  BY <1>1, <1>4
<1>17. admittedIn' \subseteq TSession
  BY <1>5 DEF TrialInv, TrialTypeOK
<1>. QED BY <1>2, <1>9, <1>10, <1>11, <1>12, <1>13, <1>14, <1>15, <1>16, <1>17, StepSound
         DEF TrialInv, TrialTypeOK

LEMMA SetHourSound ==
    ASSUME TrialInv, NEW c \in Caller, SetHour(c)
    PROVE  TrialInv'
<1>1. caller[c].pc = "expire" /\ To(c, "user")
  BY DEF SetHour, In
<1>2. UNCHANGED <<used, attempts, tlock, labs, started, tried, answered, coincide, tfaults>>
  BY DEF SetHour
<1>3. PICK g \in Guest, t \in Trial, s \in TSession :
          /\ caller[c] = [pc |-> caller[c].pc, guest |-> g, trial |-> t, sid |-> s]
          /\ caller[c].guest = g /\ caller[c].trial = t /\ Sid(c) = s /\ Key(c) = <<g, t>>
          /\ caller[c].sid = s /\ s <= tried /\ s # 0
  BY <1>1, CallOf
<1>4. PICK v \in Call : /\ caller' = [caller EXCEPT ![c] = v]
                        /\ v.pc = "user" /\ v.guest = g /\ v.trial = t /\ v.sid = s
  BY <1>1, <1>3, GoesTo DEF Pc
<1>5. attempts > 0 /\ counterTTL' = TRUE /\ admittedIn' = admittedIn \cup {s}
  BY <1>1, <1>3 DEF SetHour, TrialInv, CallPart, CallSound
<1>6. s \in 1 .. tried
  BY <1>3 DEF TSession, TrialInv, TrialTypeOK
<1>7. CallPart'
  <2>1. tried \in 0 .. MaxTrials /\ tried <= tried
    BY TrialAssumption DEF TrialInv, TrialTypeOK
  <2>2. \A d \in Caller \ {c} : caller[d].pc # "expire"
    BY <1>1 DEF TrialInv, ApartPart
  <2>3. CallSound(v)'
    BY <1>2, <1>3, <1>4 DEF CallSound
  <2>. QED BY <1>1, <1>2, <1>3, <1>4, <1>5, <2>1, <2>2, <2>3, CallsStay
<1>8. ApartPart'
  BY <1>1, <1>2, <1>3, <1>4, ApartKept
<1>9. CountPart'
  <2>1. attempts \in Nat /\ attempts <= attempts
    BY CountedFinite
  <2>2. admittedIn' \subseteq 1 .. tried
    BY <1>5, <1>6 DEF TrialInv, CountPart
  <2>. QED BY <1>2, <1>4, <2>1, <2>2, CountKept
<1>10. LimitPart'
  <2>1. Passing' \subseteq Passing
    <3>1. s \in Passing
      BY <1>1, <1>3 DEF Passing
    <3>. QED BY <1>4, <1>5, <3>1 DEF Passing, TrialInv, CallPart
  <2>2. attempts <= attempts' /\ attempts' \in Nat
    BY <1>2, CountedFinite
  <2>. QED BY <2>1, <2>2, LimitKept
<1>11. UsedWasStarted'
  BY <1>2, UsedKept
<1>12. LimitEnds'
  BY <1>5 DEF LimitEnds
<1>13. CalmPart'
  <2>1. tfaults = 0 => CallCalm(v)'
    BY <1>1, <1>2, <1>3, <1>4, CalmOn
  <2>. QED BY <1>1, <1>2, <1>4, <2>1, CalmMoves
<1>14. admittedIn' \subseteq TSession
  BY <1>5 DEF TrialInv, TrialTypeOK
<1>. QED BY <1>2, <1>5, <1>7, <1>8, <1>9, <1>10, <1>11, <1>12, <1>13, <1>14, StepSound
         DEF TrialInv, TrialTypeOK

\* A request's session is its own.
LEMMA AskSound ==
    ASSUME TrialInv, NEW c \in Caller, NEW g \in Guest, NEW t \in Trial, Ask(c, g, t)
    PROVE  TrialInv'
<1>1. /\ caller[c].pc = "none" /\ tried < MaxTrials /\ tried' = tried + 1
      /\ coincide' = IF \E d \in Caller : caller[d].guest = g THEN coincide \cup {g} ELSE coincide
      /\ UNCHANGED <<used, attempts, counterTTL, tlock, labs, started, admittedIn, answered, tfaults>>
  BY DEF Ask, In
<1>2. attempts \in Nat /\ tried \in Nat /\ tried' \in 0 .. MaxTrials /\ tried + 1 \in TSession
  BY <1>1, TrialAssumption DEF TrialInv, TrialTypeOK, TSession
<1>3. PICK s \in TSession : s = tried + 1
  BY <1>2
<1>4. PICK v \in Call : /\ caller' = [caller EXCEPT ![c] = v]
                        /\ v.pc = "used" /\ v.guest = g /\ v.trial = t /\ v.sid = s
  <2>. DEFINE v == [pc |-> "used", guest |-> g, trial |-> t, sid |-> s]
  <2>1. v \in Call /\ v.pc = "used" /\ v.guest = g /\ v.trial = t /\ v.sid = s
    BY DEF Call, Pc
  <2>2. caller' = [caller EXCEPT ![c] = v]
    BY <1>3 DEF Ask
  <2>. QED BY <2>1, <2>2
<1>5. \A d \in Caller : caller'[d] = IF d = c THEN v ELSE caller[d]
  BY <1>4 DEF TrialInv, CallPart
<1>6. coincide \subseteq coincide' /\ coincide' \subseteq Guest
  BY <1>1 DEF TrialInv, TrialTypeOK
<1>7. admittedIn \subseteq 1 .. tried /\ s \notin admittedIn
  BY <1>2, <1>3 DEF TrialInv, CountPart
<1>8. CallPart'
  <2>1. \A d \in Caller : caller[d].pc = "expire" => ~counterTTL /\ attempts > 0
    BY DEF TrialInv, CallPart, CallSound
  <2>2. s <= tried'
    BY <1>1, <1>2, <1>3
  <2>3. CallSound(v)'
    BY <1>1, <1>4, <1>7, <2>2 DEF CallSound
  <2>4. tried <= tried'
    BY <1>1, <1>2
  <2>. QED BY <1>1, <1>2, <1>4, <2>1, <2>3, <2>4, CallsStay
<1>9. ApartPart'
  <2>1. ASSUME NEW d \in Caller \ {c}, caller[d].pc # "none"
        PROVE  caller[d].sid # s /\ (caller[d].guest = g => g \in coincide')
    <3>1. PICK r \in TSession : caller[d].sid = r /\ r <= tried
      BY <2>1, CallOf
    <3>2. r # s
      BY <1>2, <1>3, <3>1 DEF TSession
    <3>. QED BY <1>1, <3>1, <3>2
  <2>. SUFFICES ASSUME NEW d \in Caller, NEW e \in Caller, d # e, caller'[d].pc # "none",
                       caller'[e].pc # "none"
                PROVE  /\ caller'[d].sid # caller'[e].sid
                       /\ caller'[d].pc # "expire" \/ caller'[e].pc # "expire"
                       /\ caller'[d].guest = caller'[e].guest => caller'[d].guest \in coincide'
    BY DEF ApartPart
  <2>2. CASE d = c
    BY <1>4, <1>5, <2>1, <2>2
  <2>3. CASE e = c
    BY <1>4, <1>5, <2>1, <2>3
  <2>4. CASE d # c /\ e # c
    <3>1. caller'[d] = caller[d] /\ caller'[e] = caller[e]
      BY <1>5, <2>4
    <3>. QED BY <1>6, <3>1 DEF TrialInv, ApartPart
  <2>. QED BY <2>2, <2>3, <2>4
<1>10. CountPart'
  <2>1. Counted' = Counted
    <3>1. \A d \in Caller : caller[d].pc \in {"used", "incr"} => caller[d].sid # s
      <4>. SUFFICES ASSUME NEW d \in Caller, caller[d].pc \in {"used", "incr"}
                    PROVE  caller[d].sid # s
        OBVIOUS
      <4>1. PICK r \in TSession : caller[d].sid = r /\ r <= tried
        BY CallOf
      <4>. QED BY <1>2, <1>3, <4>1 DEF TSession
    <3>2. \A r : r \in 1 .. tried' <=> r \in 1 .. tried \/ r = s
      BY <1>1, <1>2, <1>3
    <3>3. s \notin 1 .. tried
      BY <1>2, <1>3
    <3>4. \A r \in 1 .. tried : (\A d \in Caller : caller'[d].pc \in {"used", "incr"} => caller'[d].sid # r)
              <=> (\A d \in Caller : caller[d].pc \in {"used", "incr"} => caller[d].sid # r)
      BY <1>1, <1>4, <1>5, <3>3
    <3>5. s \notin Counted'
      BY <1>4, <1>5 DEF Counted
    <3>. QED BY <3>2, <3>3, <3>4, <3>5 DEF Counted
  <2>2. admittedIn \subseteq 1 .. tried'
    BY <1>1, <1>2, <1>7
  <2>. QED BY <1>1, <2>1, <2>2 DEF TrialInv, CountPart
<1>11. LimitPart'
  <2>1. Passing' \subseteq Passing
    BY <1>1, <1>4, PassingShrinks
  <2>. QED BY <1>1, <1>2, <2>1, LimitKept
<1>12. UsedWasStarted'
  BY <1>1, UsedKept
<1>13. LimitEnds'
  <2>1. tfaults' \in Nat /\ tfaults' >= tfaults
    BY <1>1, TrialAssumption DEF TrialInv, TrialTypeOK
  <2>. QED BY <1>1, <1>4, <2>1, LimitEndsKept
<1>14. CalmPart'
  <2>1. CallCalm(v)'
    BY <1>4 DEF CallCalm, Checked
  <2>. QED BY <1>1, <1>4, <1>6, <2>1, CalmMoves
<1>. QED BY <1>1, <1>2, <1>6, <1>8, <1>9, <1>10, <1>11, <1>12, <1>13, <1>14, StepSound
         DEF TrialInv, TrialTypeOK

\* A lock that expires while nobody of the guest is at work guards nothing.
LEMMA LockExpiresSound ==
    ASSUME TrialInv, NEW g \in Guest, NEW t \in Trial, LockExpires(<<g, t>>)
    PROVE  TrialInv'
<1>1. /\ tlock' = [tlock EXCEPT ![<<g, t>>] = 0]
      /\ UNCHANGED <<used, attempts, counterTTL, labs, started, caller, tried, admittedIn, answered,
                     coincide>>
  BY DEF LockExpires
<1>2. \/ TFault
      \/ UNCHANGED tfaults /\ \A d \in Caller : caller[d].guest # g
  BY DEF LockExpires
<1>3. tfaults' \in 0 .. MaxTFaults /\ tfaults' >= tfaults /\ tfaults' \in Nat
  BY <1>2, TFaultType, NoFaultType, TrialAssumption
<1>4. /\ tlock' \in [Guest \X Trial -> {0} \cup TSession]
      /\ \A k \in Guest \X Trial : tlock'[k] = IF k = <<g, t>> THEN 0 ELSE tlock[k]
  BY <1>1 DEF TrialInv, TrialTypeOK
<1>5. CallPart' /\ ApartPart'
  BY <1>1 DEF TrialInv, CallPart, CallSound, ApartPart
<1>6. CountPart' /\ LimitPart'
  <2>1. Counted' = Counted /\ Passing' = Passing
    BY <1>1 DEF Counted, Passing
  <2>. QED BY <1>1, <2>1 DEF TrialInv, CountPart, LimitPart
<1>7. UsedWasStarted'
  BY <1>1, UsedKept
<1>8. LimitEnds'
  <2>1. tfaults > 0 => tfaults' > 0
    BY <1>3, TrialAssumption DEF TrialInv, TrialTypeOK
  <2>. QED BY <1>1, <2>1 DEF TrialInv, LimitEnds, In
<1>9. CalmPart'
  <2>. SUFFICES ASSUME tfaults' = 0
                PROVE  /\ \A d \in Caller : CallCalm(caller[d])'
                       /\ OneLab' /\ LabsMarked' /\ LocksKept' /\ AnswersKept'
    BY DEF CalmPart
  <2>1. tfaults = 0 /\ \A d \in Caller : caller[d].guest # g
    BY <1>2, TFaultType
  <2>2. /\ \A d \in Caller : CallCalm(caller[d])
        /\ OneLab /\ LabsMarked /\ LocksKept /\ AnswersKept
    BY <2>1 DEF TrialInv, CalmPart
  <2>3. ASSUME NEW d \in Caller
        PROVE  CallCalm(caller[d])'
    <3>1. PICK u \in Call \cup {NoCall} : u = caller[d] /\ CallCalm(u) /\ u.guest # g
      BY <2>1, <2>2 DEF TrialInv, CallPart
    <3>2. CASE u.pc = "none"
      <4>1. CallCalm(u)'
        BY <3>2 DEF CallCalm, Checked
      <4>. QED BY <1>1, <3>1, <4>1
    <3>3. CASE u.pc # "none"
      <4>1. <<u.guest, u.trial>> \in Guest \X Trial /\ <<u.guest, u.trial>> # <<g, t>>
        BY <3>1, <3>3, IdleCall DEF Call
      <4>2. tlock'[<<u.guest, u.trial>>] = tlock[<<u.guest, u.trial>>]
        BY <1>4, <4>1
      <4>3. CallCalm(u)'
        BY <1>1, <3>1, <4>2 DEF CallCalm
      <4>. QED BY <1>1, <3>1, <4>3
    <3>. QED BY <3>2, <3>3
  <2>4. OneLab' /\ LabsMarked'
    BY <1>1, <2>2 DEF OneLab, LabsMarked
  <2>5. \A h \in Guest, u \in Trial, r \in TSession : Coming(h, u, r) => Coming(h, u, r)'
    BY <1>1 DEF Coming, Creates
  <2>6. LocksKept'
    <3>. SUFFICES ASSUME NEW h \in Guest, NEW u \in Trial, tlock'[<<h, u>>] # 0
                  PROVE  \E r \in TSession : r = tlock'[<<h, u>>] /\ Coming(h, u, r)'
      BY DEF LocksKept
    <3>1. tlock'[<<h, u>>] = tlock[<<h, u>>]
      BY <1>4
    <3>2. PICK r \in TSession : r = tlock[<<h, u>>]
      BY <3>1 DEF TrialInv, TrialTypeOK
    <3>. QED BY <2>2, <2>5, <3>1, <3>2 DEF LocksKept
  <2>7. AnswersKept'
    BY <1>1, <2>2, <2>5 DEF AnswersKept
  <2>. QED BY <2>3, <2>4, <2>6, <2>7
<1>. QED BY <1>1, <1>3, <1>4, <1>5, <1>6, <1>7, <1>8, <1>9, StepSound DEF TrialInv, TrialTypeOK

\* The counter of the address expires only when no request is about to begin the hour.
LEMMA HourEndsSound ==
    ASSUME TrialInv, HourEnds
    PROVE  TrialInv'
<1>1. /\ counterTTL /\ attempts' = 0 /\ counterTTL' = FALSE /\ admittedIn' = {}
      /\ UNCHANGED <<used, tlock, labs, started, caller, tried, answered, coincide, tfaults>>
  BY DEF HourEnds
<1>2. \A d \in Caller : caller[d].pc # "expire"
  BY <1>1 DEF TrialInv, CallPart, CallSound
<1>3. CallPart' /\ ApartPart'
  BY <1>1, <1>2 DEF TrialInv, CallPart, CallSound, ApartPart
<1>4. CountPart'
  <2>1. Counted' = Counted
    BY <1>1 DEF Counted
  <2>. QED BY <1>1, <2>1, CountedFinite DEF CountPart
<1>5. LimitPart'
  <2>1. Passing' = {}
    BY <1>1, <1>2 DEF Passing
  <2>. QED BY <1>1, <2>1, FS_EmptySet, TrialAssumption DEF LimitPart
<1>6. UsedWasStarted'
  BY <1>1, UsedKept
<1>7. LimitEnds'
  BY <1>1 DEF LimitEnds
<1>8. CalmPart'
  BY <1>1 DEF TrialInv, CalmPart, CallCalm, OneLab, LabsMarked, LocksKept, AnswersKept, Coming, Creates
<1>. QED BY <1>1, <1>3, <1>4, <1>5, <1>6, <1>7, <1>8, StepSound, TrialAssumption
         DEF TrialInv, TrialTypeOK

-----------------------------------------------------------------------------
(* Guest trials: the theorem                                               *)

LEMMA TrialInvInit ==
    ASSUME TrialInit
    PROVE  TrialInv
<1>1. PICK v \in Call \cup {NoCall} : v = NoCall /\ v.pc = "none"
  BY IdleCall
<1>2. \A c \in Caller : caller[c] = v
  BY <1>1 DEF TrialInit
<1>3. TrialTypeOK
  BY TrialAssumption DEF TrialInit, TrialTypeOK
<1>4. CallPart /\ ApartPart
  BY <1>1, <1>2 DEF CallPart, CallSound, ApartPart, TrialInit
<1>5. CountPart
  <2>1. Counted \subseteq {}
    BY DEF TrialInit, Counted
  <2>. QED BY <2>1, FS_EmptySet DEF TrialInit, CountPart
<1>6. LimitPart
  <2>1. Passing = {}
    BY <1>1, <1>2 DEF TrialInit, Passing
  <2>. QED BY <2>1, FS_EmptySet, TrialAssumption DEF TrialInit, LimitPart
<1>7. UsedWasStarted /\ LimitEnds
  BY DEF TrialInit, UsedWasStarted, LimitEnds
<1>8. CalmPart
  BY <1>1, <1>2 DEF TrialInit, CalmPart, CallCalm, Checked, OneLab, LabsMarked, LocksKept, AnswersKept
<1>. QED BY <1>3, <1>4, <1>5, <1>6, <1>7, <1>8 DEF TrialInv

LEMMA TrialInvStutters ==
    ASSUME TrialInv, UNCHANGED trialVars
    PROVE  TrialInv'
<1>1. CallPart' /\ ApartPart'
  BY DEF trialVars, TrialInv, CallPart, CallSound, ApartPart
<1>2. CountPart' /\ LimitPart'
  BY DEF trialVars, TrialInv, CountPart, LimitPart, Counted, Passing
<1>3. UsedWasStarted' /\ LimitEnds'
  BY DEF trialVars, TrialInv, UsedWasStarted, LimitEnds, In
<1>4. CalmPart'
  BY DEF trialVars, TrialInv, CalmPart, CallCalm, OneLab, LabsMarked, LocksKept, AnswersKept,
         Coming, Creates
<1>. QED BY <1>1, <1>2, <1>3, <1>4 DEF trialVars, TrialInv, TrialTypeOK

LEMMA TrialInvStep ==
    ASSUME TrialInv, [TrialNext]_trialVars
    PROVE  TrialInv'
<1>. SUFFICES ASSUME TrialNext
              PROVE  TrialInv'
  BY TrialInvStutters
<1>1. ASSUME NEW c \in Caller, NEW g \in Guest, NEW t \in Trial, Ask(c, g, t)
      PROVE  TrialInv'
  BY <1>1, AskSound
<1>2. ASSUME NEW c \in Caller, CheckUsed(c) \/ CountTrial(c) \/ SetHour(c) \/ UpsertGuest(c)
      PROVE  TrialInv'
  BY <1>2, CheckUsedSound, CountTrialSound, SetHourSound, UpsertGuestSound
<1>3. ASSUME NEW c \in Caller, Lock(c) \/ Held(c) \/ Create(c)
      PROVE  TrialInv'
  BY <1>3, LockSound, HeldSound, CreateSound
<1>4. ASSUME NEW c \in Caller, Unlock(c) \/ MarkUsed(c) \/ TrialFails(c)
      PROVE  TrialInv'
  BY <1>4, UnlockSound, MarkUsedSound, TrialFailsSound
<1>5. ASSUME NEW k \in Guest \X Trial, LockExpires(k)
      PROVE  TrialInv'
  BY <1>5, LockExpiresSound
<1>. QED BY <1>1, <1>2, <1>3, <1>4, <1>5, HourEndsSound DEF TrialNext

LEMMA TrialInvHolds == TrialSpec => []TrialInv
<1>1. TrialInit => TrialInv
  BY TrialInvInit
<1>2. TrialInv /\ [TrialNext]_trialVars => TrialInv'
  BY TrialInvStep
<1>. QED BY <1>1, <1>2, PTL DEF TrialSpec

\* A set of sessions that are all the same one has at most one member.
LEMMA AtMostOne ==
    ASSUME NEW S, \A l, m \in S : l = m
    PROVE  Cardinality(S) <= 1
<1>1. CASE S = {}
  BY <1>1, FS_EmptySet
<1>2. CASE S # {}
  <2>1. PICK l \in S : TRUE
    BY <1>2
  <2>2. S = {l}
    BY <2>1
  <2>3. Cardinality({l}) = 1
    BY FS_Singleton
  <2>. QED BY <2>2, <2>3
<1>. QED BY <1>1, <1>2

\* The trial is guarded by its lock, its mark and its counter, however the requests of
\* the replicas interleave at Redis and the database (sessions.routes.ts).
THEOREM TrialCorrect == TrialSpec => []TrialGuarded
<1>1. TrialInv => TrialGuarded
  <2>. SUFFICES ASSUME TrialInv
                PROVE  TrialGuarded
    OBVIOUS
  <2>1. labs \subseteq Guest \X Trial \X TSession /\ answered \subseteq Guest \X Trial \X TSession
    BY DEF TrialInv, TrialTypeOK
  <2>2. OneTrial
    <3>. SUFFICES ASSUME tfaults = 0, NEW g \in Guest \ coincide
                  PROVE  Cardinality({l \in labs : l[1] = g}) <= 1
      BY DEF OneTrial
    <3>1. ASSUME NEW l \in labs, NEW m \in labs, l[1] = g, m[1] = g
          PROVE  l = m
      <4>1. PICK t \in Trial, r \in TSession : l = <<g, t, r>>
        BY <2>1, <3>1
      <4>2. PICK u \in Trial, s \in TSession : m = <<g, u, s>>
        BY <2>1, <3>1
      <4>3. t = u
        BY <4>1, <4>2 DEF TrialInv, CalmPart, OneLab
      <4>4. r = s
        BY <4>1, <4>2, <4>3 DEF TrialInv, CalmPart, OneLab
      <4>. QED BY <4>1, <4>2, <4>3, <4>4
    <3>. QED BY <3>1, AtMostOne
  <2>3. LockGuards
    <3>. SUFFICES ASSUME tfaults = 0, NEW g \in Guest, NEW t \in Trial
                  PROVE  Cardinality({l \in labs : <<l[1], l[2]>> = <<g, t>>}) <= 1
      BY DEF LockGuards
    <3>1. ASSUME NEW l \in labs, NEW m \in labs, <<l[1], l[2]>> = <<g, t>>, <<m[1], m[2]>> = <<g, t>>
          PROVE  l = m
      <4>1. PICK r \in TSession : l = <<g, t, r>>
        BY <2>1, <3>1
      <4>2. PICK s \in TSession : m = <<g, t, s>>
        BY <2>1, <3>1
      <4>. QED BY <4>1, <4>2 DEF TrialInv, CalmPart, OneLab
    <3>. QED BY <3>1, AtMostOne
  <2>4. AnsweredExists
    <3>. SUFFICES ASSUME tfaults = 0, NEW a \in answered
                  PROVE  a \in labs \/ \E c \in Caller : In(c, "session") /\ Sid(c) = a[3]
      BY DEF AnsweredExists
    <3>1. PICK g \in Guest, t \in Trial, s \in TSession : a = <<g, t, s>>
      BY <2>1
    <3>2. Coming(g, t, s)
      BY <3>1 DEF TrialInv, CalmPart, AnswersKept
    <3>. QED BY <3>1, <3>2 DEF Coming, Creates, In, Sid
  <2>5. AddressLimited
    <3>1. admittedIn \subseteq Passing
      BY DEF Passing
    <3>2. Cardinality(admittedIn) <= Cardinality(Passing) /\ Cardinality(admittedIn) \in Nat
      BY <3>1, PassingFinite, FS_Subset, FS_CardinalityType
    <3>3. Cardinality(Passing) <= PerHour
      BY DEF TrialInv, LimitPart
    <3>. QED BY <3>2, <3>3, PassingFinite, TrialAssumption DEF AddressLimited
  <2>. QED BY <2>2, <2>3, <2>4, <2>5 DEF TrialInv, TrialGuarded
<1>. QED BY <1>1, TrialInvHolds, PTL

-----------------------------------------------------------------------------
(* What users keep about content                                            *)

\* The list is in order, and who adds the next item has counted all of them; nobody else
\* adds one.
ListPart ==
    ~reordered =>
        /\ {list[i] : i \in OnList} = 0 .. Cardinality(OnList) - 1
        /\ \A h \in Adding : http[h].count = Cardinality(OnList)
        /\ \A g, h \in Adding : g = h

Underway == {h \in Http : http[h] # NoHttp}

\* No row is written more often than requests have come, those under way left out.
FlipPart == IsFiniteSet(Underway) /\ \A r \in Row : flips[r] + Cardinality(Underway) <= served

CommunityInv ==
    /\ CommunityTypeOK /\ FlipPart /\ http = [h \in Http |-> http[h]]
    /\ \A h \in Adding : http[h].count <= Cardinality(Item)
    /\ TogglesAlternate /\ ListPart /\ QuizCompletedForCause

\* The items of a list are finitely many.
LEMMA ListFinite ==
    ASSUME CommunityInv
    PROVE  /\ IsFiniteSet(OnList) /\ Cardinality(OnList) \in Nat
           /\ Cardinality(OnList) <= Cardinality(Item) /\ Cardinality(Item) \in Nat
BY CommunityAssumption, FS_Subset, FS_CardinalityType DEF OnList

\* The invariant holds before the first request.
LEMMA CommunityStart == CommunityInit => CommunityInv
<1>. SUFFICES ASSUME CommunityInit PROVE CommunityInv
  OBVIOUS
<1>1. CommunityTypeOK /\ http = [h \in Http |-> http[h]]
  <2>1. Cardinality(Item) \in Nat
    BY CommunityAssumption, FS_CardinalityType
  <2>2. list \in [Item -> -1 .. Cardinality(Item)]
    BY <2>1 DEF CommunityInit
  <2>3. flips \in [Row -> 0 .. MaxHttp] /\ best \in [Visitor -> -1 .. Questions] /\ served \in 0 .. MaxHttp
    BY CommunityAssumption DEF CommunityInit
  <2>4. \A h \in Http : http[h] = NoHttp
    BY DEF CommunityInit
  <2>. QED BY <2>2, <2>3, <2>4 DEF CommunityInit, CommunityTypeOK
<1>2. OnList = {} /\ Adding = {}
  BY DEF CommunityInit, OnList, Adding, NoHttp
<1>3. ListPart
  <2>1. Cardinality(OnList) = 0
    BY <1>2, FS_EmptySet
  <2>. QED BY <1>2, <2>1 DEF ListPart
<1>4. TogglesAlternate
  BY DEF CommunityInit, TogglesAlternate
<1>5. QuizCompletedForCause
  BY CommunityAssumption DEF CommunityInit, QuizCompletedForCause
<1>6. FlipPart
  <2>1. Underway = {}
    BY DEF Underway, CommunityInit
  <2>. QED BY <2>1, FS_EmptySet DEF FlipPart, CommunityInit
<1>. QED BY <1>1, <1>2, <1>3, <1>4, <1>5, <1>6 DEF CommunityInv

\* A step that leaves the toggled rows alone.
LEMMA RowsFrame == TogglesAlternate /\ UNCHANGED <<rows, flips>> => TogglesAlternate'
BY DEF TogglesAlternate

\* The same of the quizzes.
LEMMA QuizFrame ==
    QuizCompletedForCause /\ UNCHANGED <<best, quizDone, unrecorded>> => QuizCompletedForCause'
BY DEF QuizCompletedForCause

\* A request that adds no item, and none is added or removed.
LEMMA ListFrame ==
    ASSUME CommunityInv, UNCHANGED <<list, reordered>>, Adding' \subseteq Adding,
           \A h \in Adding' : http'[h] = http[h]
    PROVE  ListPart' /\ \A h \in Adding' : http'[h].count <= Cardinality(Item)
<1>1. OnList' = OnList
  BY DEF OnList
<1>. QED BY <1>1 DEF ListPart, CommunityInv

\* The handlers after a step of one of them.
LEMMA HandlerStep ==
    ASSUME CommunityInv, NEW h \in Http, NEW q, http' = [http EXCEPT ![h] = q]
    PROVE  /\ http'[h] = q /\ \A g \in Http \ {h} : http'[g] = http[g]
           /\ http' = [g \in Http |-> http'[g]]
           /\ q.pc # "add" => Adding' = Adding \ {h}
           /\ q.pc = "add" => Adding' = Adding \cup {h}
           /\ q = NoHttp => Underway' = Underway \ {h}
           /\ q # NoHttp => Underway' = Underway \cup {h}
<1>1. /\ http'[h] = q /\ \A g \in Http \ {h} : http'[g] = http[g]
      /\ http' = [g \in Http |-> http'[g]]
  BY DEF CommunityInv
<1>. QED BY <1>1 DEF Adding, Underway

\* A request comes, or is answered: at most one row is written then.
LEMMA FlipKeeps ==
    ASSUME CommunityInv, CommunityTypeOK', NEW h \in Http,
           \/ http[h] = NoHttp /\ Underway' = Underway \cup {h} /\ served' = served + 1 /\ flips' = flips
           \/ http[h] = NoHttp /\ Underway' = Underway /\ served' = served + 1 /\ flips' = flips
           \/ /\ http[h] # NoHttp /\ Underway' = Underway \ {h} /\ served' = served
              /\ \A r \in Row : flips'[r] <= flips[r] + 1
    PROVE  FlipPart'
<1>1. /\ IsFiniteSet(Underway) /\ Cardinality(Underway) \in Nat /\ served \in Nat
      /\ \A r \in Row : flips[r] \in Nat /\ flips'[r] \in Nat
      /\ \A r \in Row : flips[r] + Cardinality(Underway) <= served
  BY CommunityAssumption, FS_CardinalityType DEF CommunityInv, FlipPart, CommunityTypeOK
<1>2. CASE http[h] = NoHttp /\ Underway' = Underway \cup {h} /\ served' = served + 1 /\ flips' = flips
  <2>0. h \notin Underway
    BY <1>2 DEF Underway
  <2>1. IsFiniteSet(Underway') /\ Cardinality(Underway') = Cardinality(Underway) + 1
    BY <1>1, <1>2, <2>0, FS_AddElement
  <2>2. ASSUME NEW r \in Row PROVE flips'[r] + Cardinality(Underway') <= served'
    BY <1>1, <1>2, <2>1
  <2>. QED BY <2>1, <2>2 DEF FlipPart
<1>3. CASE http[h] = NoHttp /\ Underway' = Underway /\ served' = served + 1 /\ flips' = flips
  BY <1>1, <1>3 DEF FlipPart
<1>4. CASE /\ http[h] # NoHttp /\ Underway' = Underway \ {h} /\ served' = served
           /\ \A r \in Row : flips'[r] <= flips[r] + 1
  <2>1. IsFiniteSet(Underway') /\ Cardinality(Underway') = Cardinality(Underway) - 1
    BY <1>1, <1>4, FS_RemoveElement DEF Underway
  <2>2. ASSUME NEW r \in Row PROVE flips'[r] + Cardinality(Underway') <= served'
    BY <1>1, <1>4, <2>1
  <2>. QED BY <2>1, <2>2 DEF FlipPart
<1>. QED BY <1>2, <1>3, <1>4

\* A row is looked up.
LEMMA LookKeeps ==
    ASSUME CommunityInv, NEW h \in Http, NEW row \in Row, Look(h, row)
    PROVE  CommunityInv'
<1>. DEFINE q == [pc |-> "toggle", row |-> row, found |-> row \in rows]
<1>1. http' = [http EXCEPT ![h] = q] /\ q.pc # "add" /\ q # NoHttp
  BY DEF Look, NoHttp
<1>2. /\ http'[h] = q /\ \A g \in Http \ {h} : http'[g] = http[g]
      /\ http' = [g \in Http |-> http'[g]] /\ Adding' = Adding \ {h} /\ Underway' = Underway \cup {h}
  BY <1>1, HandlerStep
<1>3. ListPart' /\ \A g \in Adding' : http'[g].count <= Cardinality(Item)
  BY <1>2, ListFrame DEF Look, Adding
<1>4. CommunityTypeOK'
  <2>1. http'[h] \in Toggling
    BY <1>2 DEF Toggling
  <2>. QED BY <1>2, <2>1, CommunityAssumption DEF Look, Arrives, CommunityInv, CommunityTypeOK
<1>5. FlipPart'
  BY <1>2, <1>4, FlipKeeps DEF Look, Arrives
<1>. QED BY <1>2, <1>3, <1>4, <1>5, RowsFrame, QuizFrame DEF CommunityInv, Look

\* A row is written as it was found, or the answer is an error.
LEMMA WriteKeeps ==
    ASSUME CommunityInv, NEW h \in Http, Write(h)
    PROVE  CommunityInv'
<1>1. /\ http'[h] = NoHttp /\ \A g \in Http \ {h} : http'[g] = http[g]
      /\ http' = [g \in Http |-> http'[g]] /\ Adding' = Adding \ {h} /\ Underway' = Underway \ {h}
  BY HandlerStep DEF Write, NoHttp
<1>2. http[h] \in Toggling /\ http[h] # NoHttp
  BY DEF Write, CommunityInv, CommunityTypeOK, NoHttp, AddingItem, Toggling
<1>. DEFINE row == http[h].row
<1>3. row \in Row /\ flips[row] \in 0 .. MaxHttp /\ DOMAIN flips = Row
  BY <1>2 DEF Toggling, CommunityInv, CommunityTypeOK
<1>4. ListPart' /\ \A g \in Adding' : http'[g].count <= Cardinality(Item)
  BY <1>1, ListFrame DEF Write, Adding
<1>5. \/ UNCHANGED <<rows, flips>>
      \/ /\ rows' \subseteq rows \cup {row} /\ (row \in rows' <=> row \notin rows)
         /\ \A r \in Row \ {row} : r \in rows' <=> r \in rows
         /\ flips' = [flips EXCEPT ![row] = @ + 1]
  BY <1>2 DEF Write, Toggling
<1>6. \A r \in Row : flips'[r] = flips[r] \/ (r = row /\ flips'[r] = flips[r] + 1)
  BY <1>3, <1>5
<1>7. TogglesAlternate'
  <2>1. CASE UNCHANGED <<rows, flips>>
    BY <2>1, RowsFrame DEF CommunityInv
  <2>2. CASE ~UNCHANGED <<rows, flips>>
    <3>1. /\ flips'[row] = flips[row] + 1 /\ flips[row] \in Nat
          /\ \A r \in Row \ {row} : flips'[r] = flips[r]
      BY <1>3, <1>5, <2>2, CommunityAssumption
    <3>2. flips'[row] % 2 = 1 <=> flips[row] % 2 # 1
      BY <3>1
    <3>. QED BY <1>5, <2>2, <3>1, <3>2 DEF TogglesAlternate, CommunityInv
  <2>. QED BY <2>1, <2>2
<1>8. CommunityTypeOK'
  <2>1. served \in Nat /\ \A r \in Row : flips[r] \in Nat
    BY CommunityAssumption DEF CommunityInv, CommunityTypeOK
  <2>2. \A r \in Row : flips[r] + 1 <= served
    <3>1. h \in Underway /\ IsFiniteSet(Underway)
      BY <1>2 DEF Underway, CommunityInv, FlipPart
    <3>2. Cardinality(Underway) \in Nat /\ Cardinality(Underway) # 0
      BY <3>1, FS_EmptySet, FS_CardinalityType
    <3>. QED BY <2>1, <3>2 DEF CommunityInv, FlipPart
  <2>3. served <= MaxHttp
    BY CommunityAssumption DEF CommunityInv, CommunityTypeOK
  <2>4. flips' \in [Row -> 0 .. MaxHttp]
    <3>1. flips' = [r \in Row |-> flips'[r]]
      BY <1>3, <1>5 DEF CommunityInv, CommunityTypeOK
    <3>2. \A r \in Row : flips'[r] \in 0 .. MaxHttp
      BY <1>6, <2>1, <2>2, <2>3, CommunityAssumption
    <3>. QED BY <3>1, <3>2
  <2>5. rows' \subseteq Row
    BY <1>3, <1>5 DEF CommunityInv, CommunityTypeOK
  <2>. QED BY <1>1, <2>4, <2>5 DEF Write, CommunityInv, CommunityTypeOK
<1>9. FlipPart'
  <2>1. \A r \in Row : flips'[r] <= flips[r] + 1
    BY <1>6, CommunityAssumption DEF CommunityInv, CommunityTypeOK
  <2>. QED BY <1>1, <1>2, <1>8, <2>1, FlipKeeps DEF Write
<1>. QED BY <1>1, <1>4, <1>7, <1>8, <1>9, QuizFrame DEF CommunityInv, Write

\* The items are counted.
LEMMA AddKeeps ==
    ASSUME CommunityInv, NEW h \in Http, NEW i \in Item, AddItem(h, i)
    PROVE  CommunityInv'
<1>. DEFINE q == [pc |-> "add", item |-> i, count |-> Cardinality(OnList)]
<1>1. http' = [http EXCEPT ![h] = q] /\ q.pc = "add" /\ q # NoHttp
  BY DEF AddItem, NoHttp
<1>2. /\ http'[h] = q /\ \A g \in Http \ {h} : http'[g] = http[g]
      /\ http' = [g \in Http |-> http'[g]] /\ Adding' = Adding \cup {h} /\ Underway' = Underway \cup {h}
  BY <1>1, HandlerStep
<1>3. /\ IsFiniteSet(OnList) /\ Cardinality(OnList) \in Nat
      /\ Cardinality(OnList) <= Cardinality(Item) /\ OnList' = OnList /\ list' = list
  BY ListFinite DEF AddItem, OnList
<1>4. CommunityTypeOK'
  <2>1. http'[h] \in AddingItem
    BY <1>2, <1>3 DEF AddingItem
  <2>2. reordered' \in BOOLEAN
    BY DEF AddItem
  <2>. QED BY <1>2, <2>1, <2>2, CommunityAssumption DEF AddItem, Arrives, CommunityInv, CommunityTypeOK
<1>5. \A g \in Adding' : http'[g].count <= Cardinality(Item)
  BY <1>2, <1>3 DEF CommunityInv, Adding
<1>6. ListPart'
  <2>. SUFFICES ASSUME ~reordered'
                PROVE  /\ {list'[j] : j \in OnList'} = 0 .. Cardinality(OnList') - 1
                       /\ \A g \in Adding' : http'[g].count = Cardinality(OnList')
                       /\ \A f, g \in Adding' : f = g
    BY DEF ListPart
  <2>1. ~reordered /\ Adding = {}
    BY DEF AddItem
  <2>. QED BY <1>2, <1>3, <2>1 DEF CommunityInv, ListPart
<1>7. FlipPart'
  BY <1>2, <1>4, FlipKeeps DEF AddItem, Arrives
<1>. QED BY <1>2, <1>4, <1>5, <1>6, <1>7, RowsFrame, QuizFrame DEF CommunityInv, AddItem

\* A new item gets the count; one that is there keeps its order.
LEMMA UpsertKeeps ==
    ASSUME CommunityInv, NEW h \in Http, UpsertItem(h)
    PROVE  CommunityInv'
<1>1. /\ http'[h] = NoHttp /\ \A g \in Http \ {h} : http'[g] = http[g]
      /\ http' = [g \in Http |-> http'[g]] /\ Adding' = Adding \ {h} /\ Underway' = Underway \ {h}
  BY HandlerStep DEF UpsertItem, NoHttp
<1>2. http[h] \in AddingItem /\ http[h] # NoHttp /\ h \in Adding
  BY DEF UpsertItem, CommunityInv, CommunityTypeOK, NoHttp, AddingItem, Toggling, Adding
<1>. DEFINE i == http[h].item
            n == http[h].count
<1>3. i \in Item /\ n \in Nat /\ n <= Cardinality(Item) /\ list \in [Item -> -1 .. Cardinality(Item)]
  BY <1>2 DEF AddingItem, CommunityInv, CommunityTypeOK
<1>4. /\ IsFiniteSet(OnList) /\ Cardinality(OnList) \in Nat /\ Cardinality(Item) \in Nat
  BY ListFinite
<1>5. list' = [list EXCEPT ![i] = IF list[i] = -1 THEN n ELSE list[i]]
  BY DEF UpsertItem
<1>6. /\ list' \in [Item -> -1 .. Cardinality(Item)]
      /\ \A j \in Item \ {i} : list'[j] = list[j]
      /\ list'[i] = IF list[i] = -1 THEN n ELSE list[i]
  BY <1>3, <1>4, <1>5
<1>7. CommunityTypeOK'
  BY <1>1, <1>6 DEF UpsertItem, CommunityInv, CommunityTypeOK
<1>8. ListPart'
  <2>. SUFFICES ASSUME ~reordered'
                PROVE  /\ {list'[j] : j \in OnList'} = 0 .. Cardinality(OnList') - 1
                       /\ \A g \in Adding' : http'[g].count = Cardinality(OnList')
                       /\ \A f, g \in Adding' : f = g
    BY DEF ListPart
  <2>1. /\ {list[j] : j \in OnList} = 0 .. Cardinality(OnList) - 1
        /\ n = Cardinality(OnList) /\ Adding = {h}
    BY <1>2 DEF UpsertItem, CommunityInv, ListPart
  <2>2. Adding' = {}
    BY <1>1, <2>1
  <2>3. CASE list[i] = -1
    <3>1. OnList' = OnList \cup {i} /\ i \notin OnList
      BY <1>3, <1>6, <2>3 DEF OnList
    <3>2. Cardinality(OnList') = Cardinality(OnList) + 1
      BY <1>4, <3>1, FS_AddElement
    <3>3. {list'[j] : j \in OnList'} = {list[j] : j \in OnList} \cup {n}
      <4>1. \A j \in OnList : j \in Item /\ list'[j] = list[j]
        BY <1>6, <3>1 DEF OnList
      <4>. QED BY <1>6, <2>3, <3>1, <4>1
    <3>. QED BY <1>4, <2>1, <2>2, <3>2, <3>3
  <2>4. CASE list[i] # -1
    <3>1. list' = list
      BY <1>3, <1>5, <2>4
    <3>2. OnList' = OnList
      BY <3>1 DEF OnList
    <3>. QED BY <2>1, <2>2, <3>1, <3>2
  <2>. QED BY <2>3, <2>4
<1>9. FlipPart'
  <2>1. \A r \in Row : flips'[r] <= flips[r] + 1
    BY CommunityAssumption DEF UpsertItem, CommunityInv, CommunityTypeOK
  <2>. QED BY <1>1, <1>2, <1>7, <2>1, FlipKeeps DEF UpsertItem
<1>10. \A g \in Adding' : http'[g].count <= Cardinality(Item)
  BY <1>1 DEF CommunityInv, Adding
<1>. QED BY <1>1, <1>7, <1>8, <1>9, <1>10, RowsFrame, QuizFrame DEF CommunityInv, UpsertItem

\* An item is removed, and the list may have gaps from then on.
LEMMA RemoveKeeps ==
    ASSUME CommunityInv, NEW h \in Http, NEW i \in Item, RemoveItem(h, i)
    PROVE  CommunityInv'
<1>1. Adding' = Adding /\ Underway' = Underway
  BY DEF RemoveItem, Adding, Underway
<1>2. CommunityTypeOK'
  <2>1. list' \in [Item -> -1 .. Cardinality(Item)]
    BY ListFinite DEF RemoveItem, CommunityInv, CommunityTypeOK
  <2>. QED BY <2>1, CommunityAssumption DEF RemoveItem, Arrives, CommunityInv, CommunityTypeOK
<1>3. FlipPart'
  BY <1>1, <1>2, FlipKeeps DEF RemoveItem, Arrives
<1>4. ListPart'
  BY DEF ListPart, RemoveItem
<1>. QED BY <1>1, <1>2, <1>3, <1>4, RowsFrame, QuizFrame DEF CommunityInv, RemoveItem

\* A quiz is graded: it is completed by a score of seven tenths, and the best one is kept.
LEMMA QuizKeeps ==
    ASSUME CommunityInv, NEW h \in Http, NEW v \in Visitor, NEW score \in 0 .. Questions,
           SubmitQuiz(h, v, score)
    PROVE  CommunityInv'
<1>1. Adding' = Adding /\ Underway' = Underway
  BY DEF SubmitQuiz, Adding, Underway
<1>2. CommunityTypeOK'
  BY CommunityAssumption DEF SubmitQuiz, Arrives, CommunityInv, CommunityTypeOK
<1>3. FlipPart'
  BY <1>1, <1>2, FlipKeeps DEF SubmitQuiz, Arrives
<1>4. ListPart' /\ \A g \in Adding' : http'[g].count <= Cardinality(Item)
  BY <1>1, ListFrame DEF SubmitQuiz
<1>5. QuizCompletedForCause'
  <2>. SUFFICES ASSUME NEW u \in Visitor \ unrecorded'
                PROVE  u \in quizDone' <=> Questions > 0 /\ 10 * best'[u] >= 7 * Questions
    BY DEF QuizCompletedForCause
  <2>1. /\ u \in quizDone <=> Questions > 0 /\ 10 * best[u] >= 7 * Questions
        /\ best \in [Visitor -> -1 .. Questions]
    BY DEF SubmitQuiz, CommunityInv, CommunityTypeOK, QuizCompletedForCause
  <2>2. CASE u = v
    <3>1. best'[v] = IF score > best[v] THEN score ELSE best[v]
      BY <2>1, <2>2 DEF SubmitQuiz
    <3>2. u \in quizDone' <=> u \in quizDone \/ (Questions > 0 /\ 10 * score >= 7 * Questions)
      BY <2>2 DEF SubmitQuiz, Passed
    <3>. QED BY <2>1, <2>2, <3>1, <3>2, CommunityAssumption
  <2>3. CASE u # v
    BY <2>1, <2>3 DEF SubmitQuiz
  <2>. QED BY <2>2, <2>3
<1>. QED BY <1>1, <1>2, <1>3, <1>4, <1>5, RowsFrame DEF CommunityInv, SubmitQuiz

\* The invariant is inductive.
LEMMA CommunityStep == CommunityInv /\ [CommunityNext]_communityVars => CommunityInv'
<1>. SUFFICES ASSUME CommunityInv, [CommunityNext]_communityVars PROVE CommunityInv'
  OBVIOUS
<1>1. CASE UNCHANGED communityVars
  BY <1>1 DEF communityVars, CommunityInv, CommunityTypeOK, FlipPart, Underway, Adding, OnList,
              TogglesAlternate, ListPart, QuizCompletedForCause
<1>2. CASE CommunityNext
  <2>1. PICK h \in Http :
          \/ \E row \in Row : Look(h, row)
          \/ \E i \in Item : AddItem(h, i) \/ RemoveItem(h, i)
          \/ \E v \in Visitor, score \in 0 .. Questions : SubmitQuiz(h, v, score)
          \/ Write(h) \/ UpsertItem(h)
    BY <1>2 DEF CommunityNext, LikeArticle, BookmarkArticle, LikeChallenge, BookmarkChallenge,
                Follow, Row, Kind
  <2>. QED BY <2>1, LookKeeps, AddKeeps, RemoveKeeps, QuizKeeps, WriteKeeps, UpsertKeeps
<1>. QED BY <1>1, <1>2

\* Rows that are looked up and then written, by any number of requests at once, keep their
\* meaning: toggles alternate, a list is in order, a quiz is completed by a score.
THEOREM CommunityCorrect == CommunitySpec => []CommunitySound
<1>1. CommunityInv => CommunitySound
  BY DEF CommunityInv, ListPart, ListIsOrdered, CommunitySound
<1>. QED BY <1>1, CommunityStart, CommunityStep, PTL DEF CommunitySpec
-----------------------------------------------------------------------------
(* What is written about a solved challenge                                 *)

\* The steps at which the completion of the handler's challenge is there.
Past == {"check", "read", "award", "end", "submit", "milestones", "path"}

\* A handler has a message of its own that is not consumed, and what its earlier steps wrote.
Holds(w) ==
    /\ work[w].pc # "idle" =>
          /\ work[w].msg \in Message /\ message[work[w].msg].at = "waiting"
          /\ \A v \in Worker : work[v].msg = work[w].msg => v = w
    /\ work[w].pc \notin {"idle", "find"} => Solver(w) \in Learner
    /\ work[w].pc \in Past \/ (work[w].pc = "complete" /\ ~work[w].first) => Solved(w) \in completed
    /\ work[w].pc \in {"milestones", "path"} => work[w].first /\ history[work[w].msg] > 0
    /\ work[w].pc = "award" => work[w].next.last \in 1 .. today

WorkPart == \A w \in Worker : Holds(w)

WorksFor(w, u) == work[w].pc # "idle" /\ Solver(w) = u

\* A learner of whom two handlers never worked at once has one handler at a time.
OnePart ==
    \A u \in Learner \ clash : \A v, w \in Worker : WorksFor(v, u) /\ WorksFor(w, u) => v = w

\* A first solve that is to be counted is not counted yet; a completion that is not
\* counted has a handler that will.
ToAward(w) == work[w].pc \in {"complete", "check", "read", "award"} /\ work[w].first
WillAward(w, p) == work[w].pc \in {"check", "read", "award"} /\ work[w].first /\ Solved(w) = p

AwardPart ==
    /\ \A p \in Pair : /\ awards[p] > 0 => p \in completed
                       /\ p[1] \notin clash => awards[p] <= 1
    /\ \A w \in Worker : ToAward(w) /\ Solver(w) \notin clash => awards[Solved(w)] = 0
    /\ LWithout({"db", "crash"}) =>
          \A p \in completed : awards[p] > 0 \/ \E w \in Worker : WillAward(w, p)

\* The session of a completed challenge is completed, or has a handler that will complete
\* it; and of the handlers that complete a path the last one finds it complete.
CompletedIn(s, p) == <<UserOf[s], ChallengeOf[s]>> = p /\ status[s] = "COMPLETED"
WillEnd(w, p) == work[w].pc \in {"check", "read", "award", "end"} /\ work[w].first /\ Solved(w) = p
WillLook(w, u) == work[w].pc \in Past /\ work[w].first /\ Solver(w) = u /\ Solved(w)[2] \in Path

BadgePart ==
    /\ \A s \in Session : status[s] = "COMPLETED" /\ UserOf[s] \in Learner =>
          <<UserOf[s], ChallengeOf[s]>> \in completed
    /\ PathBadgeEarned
    /\ LWithout({"ended"}) => \A s \in Session : status[s] # "TERMINATED"
    /\ LWithout({"db", "crash", "ended"}) =>
          /\ \A p \in completed : \/ \E s \in Session : CompletedIn(s, p)
                                  \/ \E w \in Worker : WillEnd(w, p)
          /\ Path # {} => \A u \in Learner : {u} \X Path \subseteq completed =>
                <<u, PathBadge>> \in badge \/ \E w \in Worker : WillLook(w, u)

SolveInv == LearnTypeOK /\ WorkPart /\ OnePart /\ AwardPart /\ SolveIsKept /\ BadgePart

\* The handlers that a step leaves alone.
Same(v) ==
    /\ work'[v] = work[v]
    /\ work[v].pc # "idle" =>
          /\ message'[work[v].msg] = message[work[v].msg]
          /\ Solver(v)' = Solver(v) /\ Solved(v)' = Solved(v)

\* A handler goes on with its message, or is idle.
Moved(w) ==
    /\ work[w].pc # "idle"
    /\ \A v \in Worker \ {w} : Same(v)
    /\ \/ /\ work'[w].pc # "idle" /\ work'[w].msg = work[w].msg /\ message' = message
          /\ Solver(w)' = Solver(w) /\ Solved(w)' = Solved(w)
       \/ work'[w] = Idle

\* The types of what a handler works on.
LEMMA WorkTypes ==
    ASSUME LearnTypeOK, NEW w \in Worker
    PROVE  /\ work[w] \in [pc: {"idle", "find", "complete", "check", "read", "award", "end",
                                "submit", "milestones", "path"},
                           msg: 0 .. MaxSolves, first: BOOLEAN, next: Streak]
           /\ work[w].pc = "idle" <=> work[w].msg = 0
           /\ work[w].pc # "idle" => /\ work[w].msg \in Message
                                     /\ MsgSession(w) \in Session
                                     /\ Solver(w) \in User
                                     /\ Solved(w)[1] = Solver(w) /\ Solved(w)[2] \in Challenge
                                     /\ (Solver(w) \in Learner => Solved(w) \in Pair)
<1>1. /\ work[w] \in [pc: {"idle", "find", "complete", "check", "read", "award", "end",
                           "submit", "milestones", "path"},
                      msg: 0 .. MaxSolves, first: BOOLEAN, next: Streak]
      /\ work[w].pc = "idle" <=> work[w].msg = 0
  BY DEF LearnTypeOK
<1>2. ASSUME work[w].pc # "idle"
      PROVE  work[w].msg \in Message /\ MsgSession(w) \in Session
  <2>1. work[w].msg \in Message
    BY <1>1, <1>2, LearningAssumption DEF Message
  <2>. QED BY <2>1 DEF LearnTypeOK, MsgSession
<1>. QED BY <1>1, <1>2 DEF Solver, Solved, User, Challenge, Pair

\* What a handler writes of itself: that it goes on,
LEMMA GoesOn ==
    ASSUME LearnTypeOK, NEW w \in Worker, NEW h, work[w].pc # "idle", message' = message,
           work' = [work EXCEPT ![w] = h], h.pc # "idle", h.msg = work[w].msg
    PROVE  Moved(w) /\ work'[w] = h
<1>1. work'[w] = h /\ \A v \in Worker \ {w} : work'[v] = work[v]
  BY DEF LearnTypeOK
<1>. QED BY <1>1 DEF Moved, Same, Solver, Solved, MsgSession

\* that it goes to its next statement,
LEMMA GoesIs ==
    ASSUME LearnTypeOK, NEW w \in Worker, NEW pc, work[w].pc # "idle", pc # "idle",
           message' = message, Goes(w, pc)
    PROVE  /\ Moved(w)
           /\ work'[w] = [work[w] EXCEPT !.pc = pc] /\ work'[w].pc = pc
           /\ work'[w].first = work[w].first /\ work'[w].next = work[w].next
<1>. DEFINE h == [work[w] EXCEPT !.pc = pc]
<1>1. h.pc = pc /\ h.msg = work[w].msg /\ h.first = work[w].first /\ h.next = work[w].next
  BY WorkTypes
<1>2. work' = [work EXCEPT ![w] = h]
  BY DEF Goes
<1>. HIDE DEF h
<1>3. Moved(w) /\ work'[w] = h
  BY <1>1, <1>2, GoesOn
<1>. QED BY <1>1, <1>3 DEF h

\* that it ends,
LEMMA EndsIs ==
    ASSUME LearnTypeOK, WorkPart, NEW w \in Worker, work[w].pc # "idle", work' = [work EXCEPT ![w] = Idle],
           \/ message' = message
           \/ message' = [message EXCEPT ![work[w].msg].at = "consumed"]
    PROVE  /\ Moved(w) /\ work'[w] = Idle
           /\ message' \in [Message -> [session: Session, at: {"none", "waiting", "consumed"}]]
           /\ \A m \in Message : /\ message'[m].session = message[m].session
                                 /\ m # work[w].msg => message'[m] = message[m]
<1>1. work'[w] = Idle /\ \A v \in Worker \ {w} : work'[v] = work[v]
  BY DEF LearnTypeOK
<1>2. work[w].msg \in Message /\ message \in [Message -> [session: Session, at: {"none", "waiting", "consumed"}]]
  BY WorkTypes DEF LearnTypeOK
<1>3. /\ message' \in [Message -> [session: Session, at: {"none", "waiting", "consumed"}]]
      /\ \A m \in Message : /\ message'[m].session = message[m].session
                            /\ m # work[w].msg => message'[m] = message[m]
  BY <1>2
<1>4. \A v \in Worker \ {w} : work[v].pc # "idle" => work[v].msg \in Message /\ work[v].msg # work[w].msg
  BY WorkTypes DEF WorkPart, Holds
<1>5. \A v \in Worker \ {w} : Same(v)
  BY <1>1, <1>3, <1>4 DEF Same, Solver, Solved, MsgSession
<1>. QED BY <1>1, <1>3, <1>5 DEF Moved

\* What an idle handler holds,
LEMMA IdleIs == Idle.pc = "idle" /\ Idle.msg = 0 /\ Idle.first = FALSE /\ Idle.next = NoStreak
BY DEF Idle

\* A statement fails.
LEMMA FailsIs ==
    ASSUME LearnTypeOK, WorkPart, NEW w \in Worker, work[w].pc # "idle", Fails(w)
    PROVE  /\ Moved(w) /\ work'[w] = Idle
           /\ message' \in [Message -> [session: Session, at: {"none", "waiting", "consumed"}]]
           /\ \A m \in Message : /\ message'[m].session = message[m].session
                                 /\ m # work[w].msg => message'[m] = message[m]
           /\ lfaults' \in [n: Nat, kinds: SUBSET LFaults]
           /\ lfaults.kinds \subseteq lfaults'.kinds /\ "db" \in lfaults'.kinds
<1>1. /\ lfaults' \in [n: Nat, kinds: SUBSET LFaults]
      /\ lfaults.kinds \subseteq lfaults'.kinds /\ "db" \in lfaults'.kinds
  BY DEF Fails, LFault, LearnTypeOK
<1>. QED BY <1>1, EndsIs DEF Fails, Finish

\* What calculateStreak returns.
LEMMA StreakIs ==
    ASSUME NEW s \in Streak, NEW day \in Nat
    PROVE  /\ CalculateStreak(s, day) \in Streak
           /\ CalculateStreak(s, day).last = IF s.last > day THEN s.last ELSE day
BY DEF CalculateStreak, Streak, Larger

Job == [pc: {"idle", "find", "complete", "check", "read", "award", "end", "submit",
             "milestones", "path"},
        msg: 0 .. MaxSolves, first: BOOLEAN, next: Streak]

\* and its type.
LEMMA IdleJob == Idle \in Job
BY LearningAssumption DEF Idle, Job, NoStreak, Streak

\* The types of what a handler keeps of itself,
LEMMA JobTypes ==
    ASSUME LearnTypeOK, WorkPart, NEW w \in Worker, work[w].pc # "idle",
           \/ /\ message' = message
              /\ \E h \in Job : work' = [work EXCEPT ![w] = h] /\ (h.pc = "idle" <=> h.msg = 0)
           \/ Finish(w) \/ Fails(w)
    PROVE  /\ message' \in [Message -> [session: Session, at: {"none", "waiting", "consumed"}]]
           /\ work' \in [Worker -> Job]
           /\ \A v \in Worker : work'[v].pc = "idle" <=> work'[v].msg = 0
<1>1. message \in [Message -> [session: Session, at: {"none", "waiting", "consumed"}]]
      /\ work \in [Worker -> Job] /\ \A v \in Worker : work[v].pc = "idle" <=> work[v].msg = 0
  BY DEF LearnTypeOK, Job
<1>2. Idle \in Job
  BY IdleJob
<1>3. CASE /\ message' = message
           /\ \E h \in Job : work' = [work EXCEPT ![w] = h] /\ (h.pc = "idle" <=> h.msg = 0)
  BY <1>1, <1>3
<1>4. CASE Finish(w) \/ Fails(w)
  <2>1. work' = [work EXCEPT ![w] = Idle]
        /\ message' \in [Message -> [session: Session, at: {"none", "waiting", "consumed"}]]
    BY <1>4, EndsIs DEF Finish, Fails
  <2>. QED BY <1>1, <1>2, <2>1, IdleIs
<1>. QED BY <1>3, <1>4

\* and of everything else.
RowTypes ==
    /\ completed \subseteq Pair
    /\ awards \in [Pair -> Nat]
    /\ streak \in [Learner -> Streak]
    /\ check \in [Pair -> {"none", "PASSED", "FAILED"}]
    /\ history \in [Message -> Nat]
    /\ status \in [Session -> {"ACTIVE", "COMPLETED", "TERMINATED"}]
    /\ badge \subseteq Learner \X Badge
    /\ days \in [Learner -> SUBSET (1 .. MaxDay)]
    /\ clash \subseteq User
ClockTypes ==
    /\ today \in 1 .. MaxDay /\ lfaults \in [n: Nat, kinds: SUBSET LFaults]
    /\ \A u \in Learner : streak[u].last <= today

WorkTypeOK ==
    /\ message \in [Message -> [session: Session, at: {"none", "waiting", "consumed"}]]
    /\ work \in [Worker -> Job]
    /\ \A v \in Worker : work[v].pc = "idle" <=> work[v].msg = 0

\* The types, taken apart.
LEMMA TypeParts ==
    /\ LearnTypeOK <=> WorkTypeOK /\ RowTypes /\ ClockTypes
    /\ LearnTypeOK' <=> WorkTypeOK' /\ RowTypes' /\ ClockTypes'
BY Zenon DEF LearnTypeOK, Job, WorkTypeOK, RowTypes, ClockTypes

\* A handler's step keeps its own types.
LEMMA HandleTypes ==
    ASSUME LearnTypeOK, WorkPart, NEW w \in Worker, Handle(w) \/ LearnCrash(w)
    PROVE  WorkTypeOK'
<1>1. WorkTypeOK /\ RowTypes /\ ClockTypes /\ work[w] \in Job
  BY TypeParts DEF WorkTypeOK
<1>2. ASSUME work[w].pc # "idle", NEW h \in Job, h.pc # "idle", h.msg # 0,
             work' = [work EXCEPT ![w] = h], message' = message
      PROVE  WorkTypeOK'
  BY <1>2, JobTypes DEF WorkTypeOK
<1>3. ASSUME work[w].pc # "idle", Finish(w) \/ Fails(w)
      PROVE  WorkTypeOK'
  BY <1>3, JobTypes DEF WorkTypeOK
<1>4. ASSUME work[w].pc # "idle", message' = message,
             NEW pc \in {"check", "read", "end", "submit", "milestones", "path"}, Goes(w, pc)
      PROVE  WorkTypeOK'
  <2>. DEFINE h == [work[w] EXCEPT !.pc = pc]
  <2>1. h \in Job /\ h.pc # "idle" /\ h.msg # 0
    BY <1>1, <1>4 DEF Job, WorkTypeOK
  <2>2. work' = [work EXCEPT ![w] = h]
    BY <1>4 DEF Goes
  <2>. HIDE DEF h
  <2>. QED BY <1>2, <1>4, <2>1, <2>2
<1>5. ASSUME NEW m \in Message, Begin(w, m)
      PROVE  WorkTypeOK'
  <2>. DEFINE h == [Idle EXCEPT !.pc = "find", !.msg = m]
  <2>2. m \in 0 .. MaxSolves /\ m # 0
    BY LearningAssumption DEF Message
  <2>3. h \in Job /\ h.pc # "idle" /\ h.msg # 0
    <3>1. h \in Job
      <4>. DEFINE i == Idle
      <4>1. i \in Job
        BY IdleJob
      <4>2. h = [i EXCEPT !.pc = "find", !.msg = m]
        OBVIOUS
      <4>. HIDE DEF i, h
      <4>. QED BY <2>2, <4>1, <4>2 DEF Job
    <3>2. h.pc # "idle"
      BY <2>2, IdleJob DEF Job
    <3>3. h.msg # 0
      BY <2>2, IdleJob DEF Job
    <3>. QED BY <3>1, <3>2, <3>3
  <2>4. work' = [work EXCEPT ![w] = h] /\ message' = message
    BY <1>5 DEF Begin
  <2>. HIDE DEF h
  <2>. QED BY <1>1, <2>3, <2>4 DEF WorkTypeOK
<1>6. CASE Complete(w) \/ Check(w) \/ Award(w) \/ EndSession(w) \/ AwardMilestones(w) \/ Submit(w)
  <2>1. /\ work[w].pc # "idle"
        /\ \/ Fails(w) \/ Finish(w)
           \/ /\ message' = message
              /\ \E pc \in {"check", "read", "end", "submit", "milestones", "path"} : Goes(w, pc)
    BY <1>6 DEF Complete, Check, Award, EndSession, AwardMilestones, Submit, At
  <2>. QED BY <1>3, <1>4, <2>1
<1>7. CASE Find(w)
  <2>. DEFINE h == [work[w] EXCEPT !.pc = "complete", !.first = IsFirst(w)]
  <2>1. /\ work[w].pc # "idle"
        /\ Fails(w) \/ (message' = message /\ work' = [work EXCEPT ![w] = h])
    BY <1>1, <1>7 DEF Find, At
  <2>2. h \in Job /\ h.pc # "idle" /\ h.msg # 0
    BY <1>1, <2>1 DEF IsFirst, Job, WorkTypeOK
  <2>. HIDE DEF h
  <2>. QED BY <1>2, <1>3, <2>1, <2>2
<1>8. CASE Read(w)
  <2>1. work[w].pc # "idle"
    BY <1>8 DEF Read, At
  <2>2. CASE Fails(w)
    BY <2>1, <2>2, <1>3
  <2>3. CASE ~Fails(w)
    <3>1. PICK day \in {today, today - 1} \ {0} :
             /\ work' = [work EXCEPT ![w].pc = "award",
                                     ![w].next = CalculateStreak(streak[Solver(w)], day)]
             /\ message' = message
      BY <1>8, <2>3 DEF Read
    <3>. DEFINE next == CalculateStreak(streak[Solver(w)], day)
                h == [work[w] EXCEPT !.pc = "award", !.next = next]
    <3>2. work' = [work EXCEPT ![w] = h]
      BY <1>1, <3>1
    <3>3. Solver(w) \in Learner /\ today \in 1 .. MaxDay /\ day \in Nat /\ streak[Solver(w)] \in Streak
      BY <1>1, <1>8, LearningAssumption DEF Read, At, WorkPart, Holds, RowTypes, ClockTypes
    <3>4. next \in Streak
      BY <3>3, StreakIs
    <3>. HIDE DEF next
    <3>5. h \in Job /\ h.pc # "idle" /\ h.msg # 0
      BY <1>1, <2>1, <3>4 DEF Job, WorkTypeOK
    <3>. HIDE DEF h
    <3>. QED BY <1>2, <2>1, <3>1, <3>2, <3>5
  <2>. QED BY <2>2, <2>3
<1>9. CASE GuestSolved(w) \/ AwardPath(w)
  BY <1>3, <1>9 DEF GuestSolved, AwardPath, At
<1>10. CASE LearnCrash(w)
  <2>1. /\ work[w].pc # "idle" /\ message' = message
        /\ \E h \in Job : work' = [work EXCEPT ![w] = h] /\ (h.pc = "idle" <=> h.msg = 0)
    BY <1>10, IdleJob, IdleIs DEF LearnCrash, At
  <2>. QED BY <2>1, JobTypes DEF WorkTypeOK
<1>. QED BY <1>5, <1>6, <1>7, <1>8, <1>9, <1>10 DEF Handle

\* The types of the rows that a handler writes.
LEMMA HandleRows ==
    ASSUME LearnTypeOK, WorkPart, NEW w \in Worker, Handle(w) \/ LearnCrash(w)
    PROVE  RowTypes' /\ ClockTypes'
<1>. USE TypeParts
<1>1. RowTypes /\ ClockTypes
  OBVIOUS
<1>2. ASSUME NEW kind, LFault(kind)
      PROVE  lfaults' \in [n: Nat, kinds: SUBSET LFaults]
  BY <1>1, <1>2 DEF LFault, ClockTypes
<1>3. ASSUME Fails(w)
      PROVE  lfaults' \in [n: Nat, kinds: SUBSET LFaults]
  BY <1>2, <1>3 DEF Fails
<1>4. ASSUME NEW m \in Message, Begin(w, m)
      PROVE  RowTypes' /\ ClockTypes'
  <2>1. UserOf[message[m].session] \in User
    BY DEF LearnTypeOK, User
  <2>. QED BY <1>1, <1>4, <2>1 DEF Begin, RowTypes, ClockTypes
<1>5. CASE GuestSolved(w) \/ EndSession(w)
  <2>1. work[w].pc # "idle"
    BY <1>5 DEF GuestSolved, EndSession, At
  <2>2. MsgSession(w) \in Session
    BY <2>1, WorkTypes
  <2>3. status' \in [Session -> {"ACTIVE", "COMPLETED", "TERMINATED"}]
    BY <1>1, <1>5, <2>2 DEF GuestSolved, EndSession, RowTypes
  <2>4. lfaults' \in [n: Nat, kinds: SUBSET LFaults]
    BY <1>1, <1>3, <1>5 DEF GuestSolved, EndSession, ClockTypes
  <2>. QED BY <1>1, <1>5, <2>3, <2>4 DEF GuestSolved, EndSession, RowTypes, ClockTypes
<1>6. CASE Find(w)
  <2>1. lfaults' \in [n: Nat, kinds: SUBSET LFaults]
    BY <1>1, <1>3, <1>6 DEF Find, ClockTypes
  <2>. QED BY <1>1, <1>6, <2>1 DEF Find, RowTypes, ClockTypes
<1>7. CASE Complete(w) \/ Check(w)
  <2>1. work[w].pc # "idle" /\ work[w].pc \notin {"idle", "find"}
    BY <1>7 DEF Complete, Check, At
  <2>2. Solved(w) \in Pair
    BY <2>1, WorkTypes DEF WorkPart, Holds
  <2>3. lfaults' \in [n: Nat, kinds: SUBSET LFaults]
    BY <1>1, <1>3, <1>7 DEF Complete, Check, ClockTypes
  <2>4. completed' \subseteq Pair /\ check' \in [Pair -> {"none", "PASSED", "FAILED"}]
    BY <1>1, <1>7, <2>2 DEF Complete, Check, RowTypes
  <2>. QED BY <1>1, <1>7, <2>3, <2>4 DEF Complete, Check, RowTypes, ClockTypes
<1>8. CASE Read(w)
  <2>1. lfaults' \in [n: Nat, kinds: SUBSET LFaults]
    BY <1>1, <1>2, <1>3, <1>8 DEF Read, ClockTypes
  <2>. QED BY <1>1, <1>8, <2>1 DEF Read, RowTypes, ClockTypes
<1>9. CASE Award(w)
  <2>1. work[w].pc # "idle" /\ work[w].pc \notin {"idle", "find"} /\ work[w].pc = "award"
    BY <1>9 DEF Award, At
  <2>2. Solved(w) \in Pair /\ Solver(w) \in Learner /\ work[w].next \in Streak
        /\ work[w].next.last \in 1 .. today
    BY <2>1, WorkTypes DEF WorkPart, Holds
  <2>3. lfaults' \in [n: Nat, kinds: SUBSET LFaults]
    BY <1>1, <1>3, <1>9 DEF Award, ClockTypes
  <2>4. work[w].next.last \in 1 .. MaxDay /\ today \in Nat
    BY <1>1, <2>2, LearningAssumption DEF ClockTypes
  <2>5. awards' \in [Pair -> Nat]
    BY <1>1, <1>9, <2>2 DEF Award, RowTypes
  <2>6. streak' \in [Learner -> Streak] /\ \A u \in Learner : streak'[u].last <= today
    BY <1>1, <1>9, <2>2, <2>4 DEF Award, RowTypes, ClockTypes
  <2>7. days' \in [Learner -> SUBSET (1 .. MaxDay)]
    BY <1>1, <1>9, <2>2, <2>4 DEF Award, RowTypes
  <2>. QED BY <1>1, <1>9, <2>3, <2>5, <2>6, <2>7 DEF Award, RowTypes, ClockTypes
<1>10. CASE Submit(w)
  <2>1. work[w].pc # "idle"
    BY <1>10 DEF Submit, At
  <2>2. work[w].msg \in Message
    BY <2>1, WorkTypes
  <2>3. lfaults' \in [n: Nat, kinds: SUBSET LFaults]
    BY <1>1, <1>3, <1>10 DEF Submit, ClockTypes
  <2>4. history' \in [Message -> Nat]
    BY <1>1, <1>10, <2>2 DEF Submit, RowTypes
  <2>. QED BY <1>1, <1>10, <2>3, <2>4 DEF Submit, RowTypes, ClockTypes
<1>11. CASE AwardMilestones(w) \/ AwardPath(w)
  <2>1. work[w].pc # "idle" /\ work[w].pc \notin {"idle", "find"}
    BY <1>11 DEF AwardMilestones, AwardPath, At
  <2>2. Solver(w) \in Learner
    BY <2>1 DEF WorkPart, Holds
  <2>3. MilestonesReached(w) \subseteq Badge /\ PathBadge \in Badge
    BY DEF MilestonesReached, Badge, PathBadge
  <2>4. badge' \subseteq Learner \X Badge
    <3>1. badge \subseteq Learner \X Badge
      BY <1>1 DEF RowTypes
    <3>2. CASE AwardMilestones(w)
      BY <3>1, <3>2, <2>2, <2>3 DEF AwardMilestones
    <3>3. CASE AwardPath(w)
      BY <3>1, <3>3, <2>2, <2>3 DEF AwardPath
    <3>. QED BY <1>11, <3>2, <3>3
  <2>5. lfaults' \in [n: Nat, kinds: SUBSET LFaults]
    BY <1>1, <1>2, <1>3, <1>11 DEF AwardMilestones, AwardPath, ClockTypes
  <2>. QED BY <1>1, <1>11, <2>4, <2>5 DEF AwardMilestones, AwardPath, RowTypes, ClockTypes
<1>12. CASE LearnCrash(w)
  <2>1. lfaults' \in [n: Nat, kinds: SUBSET LFaults]
    BY <1>2, <1>12 DEF LearnCrash
  <2>. QED BY <1>1, <1>12, <2>1 DEF LearnCrash, RowTypes, ClockTypes
<1>. QED BY <1>4, <1>5, <1>6, <1>7, <1>8, <1>9, <1>10, <1>11, <1>12 DEF Handle

\* Every step keeps the types.
LEMMA LearnTypes ==
    ASSUME LearnTypeOK, WorkPart, [LearnNext]_learnVars
    PROVE  LearnTypeOK'
<1>1. WorkTypeOK /\ RowTypes /\ ClockTypes
  BY TypeParts
<1>2. ASSUME NEW s \in Session, Solve(s)
      PROVE  LearnTypeOK'
  <2>1. WorkTypeOK' /\ RowTypes' /\ ClockTypes'
    BY <1>1, <1>2 DEF Solve, WorkTypeOK, RowTypes, ClockTypes
  <2>. QED BY <2>1, TypeParts
<1>3. ASSUME NEW s \in Session, EndedEarly(s) \/ FailedRun(s)
      PROVE  LearnTypeOK'
  <2>1. UserOf[s] \in Learner => <<UserOf[s], ChallengeOf[s]>> \in Pair
    BY DEF Pair, Challenge
  <2>2. lfaults' \in [n: Nat, kinds: SUBSET LFaults]
        /\ status' \in [Session -> {"ACTIVE", "COMPLETED", "TERMINATED"}]
        /\ check' \in [Pair -> {"none", "PASSED", "FAILED"}]
    BY <1>1, <1>3, <2>1 DEF EndedEarly, FailedRun, LFault, ClockTypes, RowTypes
  <2>3. WorkTypeOK' /\ RowTypes' /\ ClockTypes'
    BY <1>1, <1>3, <2>2 DEF EndedEarly, FailedRun, WorkTypeOK, RowTypes, ClockTypes
  <2>. QED BY <2>3, TypeParts
<1>4. CASE Midnight
  <2>1. today' \in 1 .. MaxDay /\ \A u \in Learner : streak[u].last <= today'
    <3>1. today \in Int /\ MaxDay \in Nat /\ \A u \in Learner : streak[u].last \in Nat
      BY <1>1, LearningAssumption DEF ClockTypes, RowTypes, Streak
    <3>. QED BY <1>1, <1>4, <3>1 DEF Midnight, ClockTypes
  <2>2. WorkTypeOK' /\ RowTypes' /\ ClockTypes'
    BY <1>1, <1>4, <2>1 DEF Midnight, WorkTypeOK, RowTypes, ClockTypes
  <2>. QED BY <2>2, TypeParts
<1>5. CASE UNCHANGED learnVars
  BY <1>5 DEF learnVars, LearnTypeOK
<1>6. ASSUME NEW w \in Worker, Handle(w) \/ LearnCrash(w)
      PROVE  LearnTypeOK'
  <2>1. WorkTypeOK' /\ RowTypes' /\ ClockTypes'
    BY <1>6, HandleTypes, HandleRows
  <2>. QED BY <2>1, TypeParts
<1>. QED BY <1>2, <1>3, <1>4, <1>5, <1>6 DEF LearnNext

-----------------------------------------------------------------------------
(* The handlers                                                             *)

\* What a handler that does not end has written.
Wrote(w) ==
    /\ work[w].pc \notin {"idle", "find"} => Solver(w) \in Learner
    /\ work[w].pc \in Past \/ (work[w].pc = "complete" /\ ~work[w].first) => Solved(w) \in completed
    /\ work[w].pc \in {"milestones", "path"} => work[w].first /\ history[work[w].msg] > 0
    /\ work[w].pc = "award" => work[w].next.last \in 1 .. today

\* Nothing that handlers rely on is taken back.
WritesStay ==
    /\ completed \subseteq completed' /\ today' = today
    /\ \A m \in Message : history[m] > 0 => history'[m] > 0

\* A step of one handler keeps what the others rely on, and what it relies on itself.
LEMMA WorkMoves ==
    ASSUME LearnTypeOK, WorkPart, NEW w \in Worker, Moved(w), WritesStay,
           work'[w] = Idle \/ Wrote(w)'
    PROVE  WorkPart'
<1>1. \A v \in Worker : /\ work[v].pc = "idle" <=> work[v].msg = 0
                        /\ work[v].pc # "idle" => work[v].msg \in Message
  BY WorkTypes
<1>2. 0 \notin Message
  BY DEF Message
<1>3. work'[w].msg = work[w].msg \/ work'[w].msg = 0
  BY IdleIs DEF Moved
<1>4. ASSUME NEW v \in Worker \ {w}
      PROVE  Holds(v)'
  <2>1. Same(v) /\ Holds(v)
    BY DEF Moved, WorkPart
  <2>2. ASSUME work[v].pc # "idle", NEW x \in Worker, work'[x].msg = work'[v].msg
        PROVE  x = v
    <3>1. work'[v].msg = work[v].msg /\ work[v].msg \in Message
      BY <1>1, <2>1, <2>2 DEF Same
    <3>2. CASE x = w
      BY <1>2, <1>3, <2>1, <2>2, <3>1, <3>2 DEF Holds
    <3>3. CASE x # w
      BY <2>1, <2>2, <3>1, <3>3 DEF Moved, Same, Holds
    <3>. QED BY <3>2, <3>3
  <2>3. work'[v] = work[v]
    BY <2>1 DEF Same
  <2>4. CASE work[v].pc = "idle"
    BY <2>3, <2>4 DEF Holds, Past
  <2>5. CASE work[v].pc # "idle"
    <3>1. /\ Solver(v)' = Solver(v) /\ Solved(v)' = Solved(v)
          /\ work[v].msg \in Message /\ message'[work[v].msg] = message[work[v].msg]
      BY <1>1, <2>1, <2>5 DEF Same
    <3>. QED BY <2>1, <2>2, <2>3, <2>5, <3>1 DEF Holds, WritesStay
  <2>. QED BY <2>4, <2>5
<1>5. Holds(w)'
  <2>1. CASE work'[w] = Idle
    BY <2>1, IdleIs DEF Holds, Past
  <2>2. CASE work'[w] # Idle
    <3>1. /\ work'[w].pc # "idle" /\ work'[w].msg = work[w].msg /\ message' = message
          /\ work[w].pc # "idle" /\ Holds(w)
      BY <2>2 DEF Moved, WorkPart
    <3>2. ASSUME NEW x \in Worker, work'[x].msg = work'[w].msg
          PROVE  x = w
      BY <3>1, <3>2 DEF Moved, Same, Holds
    <3>. QED BY <2>2, <3>1, <3>2 DEF Holds, Wrote
  <2>. QED BY <2>1, <2>2
<1>. QED BY <1>4, <1>5 DEF WorkPart

\* What handlers rely on stays with a handler's step.
LEMMA HandleWork ==
    ASSUME LearnTypeOK, WorkPart, NEW w \in Worker, Handle(w) \/ LearnCrash(w)
    PROVE  WorkPart'
<1>1. work \in [Worker -> Job] /\ work[w] \in Job /\ history \in [Message -> Nat]
  BY DEF LearnTypeOK, Job
<1>2. ASSUME work[w].pc # "idle", Finish(w) \/ Fails(w) \/ LearnCrash(w), WritesStay
      PROVE  WorkPart'
  BY <1>2, EndsIs, WorkMoves DEF Finish, Fails, LearnCrash
<1>3. ASSUME work[w].pc # "idle", message' = message, WritesStay,
             NEW pc \in {"check", "read", "end", "submit", "path"}, Goes(w, pc),
             work[w].pc \in {"complete"} \cup Past, Solved(w) \in completed',
             pc = "path" => work[w].pc = "milestones"
      PROVE  WorkPart'
  <2>1. Moved(w) /\ work'[w] = [work[w] EXCEPT !.pc = pc] /\ work'[w].pc = pc
        /\ work'[w].first = work[w].first
    BY <1>3, GoesIs
  <2>2. work'[w].msg = work[w].msg /\ work'[w] # Idle /\ work[w].msg \in Message
    BY <1>1, <1>3, <2>1, IdleIs, WorkTypes DEF Job
  <2>3. Solver(w)' = Solver(w) /\ Solved(w)' = Solved(w) /\ Solver(w) \in Learner
    BY <1>3, <2>1, <2>2 DEF Moved, WorkPart, Holds, Past
  <2>4. Wrote(w)'
    BY <1>3, <2>1, <2>2, <2>3 DEF Wrote, WorkPart, Holds, WritesStay
  <2>. QED BY <1>3, <2>1, <2>4, WorkMoves
<1>4. ASSUME NEW m \in Message, Begin(w, m)
      PROVE  WorkPart'
  <2>. DEFINE h == [Idle EXCEPT !.pc = "find", !.msg = m]
  <2>1. h.pc = "find" /\ h.msg = m
    BY IdleJob DEF Job
  <2>2. work' = [work EXCEPT ![w] = h] /\ message' = message /\ work[w].pc = "idle"
        /\ message[m].at = "waiting" /\ \A v \in Worker : work[v].msg # m
        /\ UNCHANGED <<completed, history, today>>
    BY <1>4 DEF Begin, At
  <2>. HIDE DEF h
  <2>3. work'[w] = h /\ \A v \in Worker \ {w} : work'[v] = work[v]
    BY <1>1, <2>2
  <2>4. Holds(w)'
    BY <2>1, <2>2, <2>3 DEF Holds, Past
  <2>5. ASSUME NEW v \in Worker \ {w} PROVE Holds(v)'
    <3>1. Holds(v) /\ Solver(v)' = Solver(v) /\ Solved(v)' = Solved(v)
      BY <2>2, <2>3 DEF WorkPart, Solver, Solved, MsgSession
    <3>. QED BY <2>1, <2>2, <2>3, <3>1 DEF Holds
  <2>. QED BY <2>4, <2>5 DEF WorkPart
<1>5. CASE GuestSolved(w) \/ LearnCrash(w)
  BY <1>2, <1>5 DEF GuestSolved, LearnCrash, At, WritesStay
<1>6. CASE Find(w)
  <2>1. work[w].pc = "find" /\ WritesStay /\ Solver(w) \in Learner
    BY <1>6 DEF Find, At, WritesStay
  <2>2. CASE Fails(w)
    BY <1>2, <2>1, <2>2
  <2>3. CASE ~Fails(w)
    <3>. DEFINE h == [work[w] EXCEPT !.pc = "complete", !.first = IsFirst(w)]
    <3>1. work' = [work EXCEPT ![w] = h] /\ message' = message /\ completed' = completed
      BY <1>1, <1>6, <2>3 DEF Find
    <3>2. h.pc = "complete" /\ h.msg = work[w].msg /\ h.first = IsFirst(w)
      BY <1>1 DEF Job
    <3>. HIDE DEF h
    <3>3. Moved(w) /\ work'[w] = h
      BY <2>1, <3>1, <3>2, GoesOn
    <3>4. Solver(w)' = Solver(w) /\ Solved(w)' = Solved(w)
      BY <3>2, <3>3, IdleIs DEF Moved
    <3>5. Wrote(w)'
      BY <2>1, <3>1, <3>2, <3>3, <3>4 DEF Wrote, IsFirst, Past
    <3>. QED BY <2>1, <3>3, <3>5, WorkMoves
  <2>. QED BY <2>2, <2>3
<1>7. CASE Complete(w)
  <2>1. work[w].pc = "complete" /\ WritesStay
    BY <1>7 DEF Complete, At, WritesStay
  <2>2. Fails(w) \/ (Goes(w, "check") /\ message' = message /\ Solved(w) \in completed')
    BY <1>7 DEF Complete
  <2>. QED BY <1>2, <1>3, <2>1, <2>2
<1>8. CASE Check(w) \/ Award(w) \/ EndSession(w) \/ AwardMilestones(w)
  <2>1. work[w].pc \in Past /\ WritesStay /\ work[w].pc # "idle" /\ Solved(w) \in completed'
    BY <1>8 DEF Check, Award, EndSession, AwardMilestones, At, WritesStay, Past, WorkPart, Holds
  <2>2. \/ Fails(w)
        \/ /\ message' = message
           /\ \E pc \in {"check", "read", "end", "submit", "path"} :
                 Goes(w, pc) /\ (pc = "path" => work[w].pc = "milestones")
    BY <1>8 DEF Check, Award, EndSession, AwardMilestones, At
  <2>. QED BY <1>2, <1>3, <2>1, <2>2
<1>9. CASE Read(w)
  <2>1. work[w].pc = "read" /\ WritesStay
    BY <1>9 DEF Read, At, WritesStay
  <2>2. CASE Fails(w)
    BY <1>2, <2>1, <2>2
  <2>3. CASE ~Fails(w)
    <3>1. PICK day \in {today, today - 1} \ {0} :
             /\ work' = [work EXCEPT ![w].pc = "award",
                                     ![w].next = CalculateStreak(streak[Solver(w)], day)]
             /\ message' = message
      BY <1>9, <2>3 DEF Read
    <3>. DEFINE next == CalculateStreak(streak[Solver(w)], day)
                h == [work[w] EXCEPT !.pc = "award", !.next = next]
    <3>2. work' = [work EXCEPT ![w] = h]
      BY <1>1, <3>1
    <3>3. /\ Solver(w) \in Learner /\ Solved(w) \in completed
          /\ today \in Nat /\ day \in 1 .. today
          /\ streak[Solver(w)] \in Streak /\ streak[Solver(w)].last <= today
      BY <2>1, LearningAssumption DEF WorkPart, Holds, Past, LearnTypeOK
    <3>4. next.last \in 1 .. today
      <4>1. next.last = IF streak[Solver(w)].last > day THEN streak[Solver(w)].last ELSE day
        <5>1. day \in Nat /\ streak[Solver(w)] \in Streak
          BY <3>3
        <5>. QED BY <5>1, StreakIs
      <4>2. streak[Solver(w)].last \in Nat
        BY <3>3 DEF Streak
      <4>. HIDE DEF next
      <4>. QED BY <3>3, <4>1, <4>2
    <3>. HIDE DEF next
    <3>5. h.pc = "award" /\ h.msg = work[w].msg /\ h.next = next
      BY <1>1 DEF Job
    <3>. HIDE DEF h
    <3>6. Moved(w) /\ work'[w] = h
      BY <2>1, <3>1, <3>2, <3>5, GoesOn
    <3>7. Solver(w)' = Solver(w) /\ Solved(w)' = Solved(w)
      BY <3>5, <3>6, IdleIs DEF Moved
    <3>8. Wrote(w)'
      BY <2>1, <3>3, <3>4, <3>5, <3>6, <3>7 DEF Wrote, WritesStay
    <3>. QED BY <2>1, <3>6, <3>8, WorkMoves
  <2>. QED BY <2>2, <2>3
<1>10. CASE Submit(w)
  <2>1. work[w].pc = "submit" /\ work[w].msg \in Message
    BY <1>10, WorkTypes DEF Submit, At
  <2>2. WritesStay
    BY <1>1, <1>10, <2>1 DEF Submit, WritesStay
  <2>3. CASE Finish(w) \/ Fails(w)
    BY <1>2, <2>1, <2>2, <2>3
  <2>4. CASE Goes(w, "milestones") /\ message' = message /\ work[w].first /\ history'[work[w].msg] > 0
    <3>1. Moved(w) /\ work'[w] = [work[w] EXCEPT !.pc = "milestones"] /\ work'[w].pc = "milestones"
          /\ work'[w].first = work[w].first
      BY <2>1, <2>4, GoesIs
    <3>2. work'[w].msg = work[w].msg /\ work'[w] # Idle
      BY <1>1, <3>1, IdleIs DEF Job
    <3>3. Solver(w)' = Solver(w) /\ Solved(w)' = Solved(w) /\ Solver(w) \in Learner
          /\ Solved(w) \in completed'
      BY <2>1, <2>2, <3>1, <3>2 DEF Moved, WorkPart, Holds, Past, WritesStay
    <3>4. Wrote(w)'
      BY <2>4, <3>1, <3>2, <3>3 DEF Wrote
    <3>. QED BY <2>2, <3>1, <3>4, WorkMoves
  <2>. QED BY <1>1, <1>10, <2>1, <2>3, <2>4 DEF Submit
<1>11. CASE AwardPath(w)
  <2>1. work[w].pc = "path" /\ WritesStay /\ (Finish(w) \/ Fails(w))
    BY <1>11 DEF AwardPath, At, WritesStay
  <2>. QED BY <1>2, <2>1
<1>. QED BY <1>4, <1>5, <1>6, <1>7, <1>8, <1>9, <1>10, <1>11 DEF Handle

\* How a handler that has begun goes on: to its next statement, or to its end, which comes
\* early only with a fault.
Next(w) ==
    /\ work'[w].pc # "idle" /\ message' = message
    /\ \/ work[w].pc = "find" /\ work'[w].pc = "complete" /\ Solver(w) \in Learner
          /\ work'[w].first = IsFirst(w)
       \/ /\ work'[w].first = work[w].first
          /\ \/ work[w].pc = "complete" /\ work'[w].pc = "check"
             \/ work[w].pc = "check" /\ work'[w].pc = "read"
             \/ work[w].pc = "read" /\ work'[w].pc = "award"
             \/ work[w].pc = "award" /\ work'[w].pc = "end"
             \/ work[w].pc = "end" /\ work'[w].pc = "submit"
             \/ work[w].pc = "submit" /\ work'[w].pc = "milestones" /\ work[w].first
             \/ work[w].pc = "milestones" /\ work'[w].pc = "path"
Ends(w) ==
    /\ work'[w] = Idle
    /\ \A m \in Message : /\ message'[m].session = message[m].session
                          /\ m # work[w].msg => message'[m] = message[m]
    /\ \/ "db" \in lfaults'.kinds
       \/ "crash" \in lfaults'.kinds /\ message' = message
       \/ work[w].pc = "path"
       \/ work[w].pc = "submit" /\ ~work[w].first
       \/ work[w].pc = "find" /\ Solver(w) \notin Learner

\* A step of a handler that has begun is one of these.
LEMMA HandlerGoesOn ==
    ASSUME LearnTypeOK, WorkPart, NEW w \in Worker, Handle(w) \/ LearnCrash(w), work[w].pc # "idle"
    PROVE  Moved(w) /\ lfaults.kinds \subseteq lfaults'.kinds /\ (Next(w) \/ Ends(w))
<1>1. work \in [Worker -> Job] /\ work[w] \in Job
  BY DEF LearnTypeOK, Job
<1>2. ASSUME Fails(w)
      PROVE  Moved(w) /\ lfaults.kinds \subseteq lfaults'.kinds /\ Ends(w)
  BY <1>2, FailsIs DEF Ends
<1>3. ASSUME NEW pc \in {"check", "read", "award", "end", "submit", "milestones", "path"},
             Goes(w, pc), message' = message
      PROVE  Moved(w) /\ work'[w].pc = pc /\ work'[w].first = work[w].first
  BY <1>3, GoesIs
<1>4. ASSUME Finish(w), lfaults' = lfaults
      PROVE  /\ Moved(w) /\ lfaults.kinds \subseteq lfaults'.kinds /\ work'[w] = Idle
             /\ \A m \in Message : /\ message'[m].session = message[m].session
                                   /\ m # work[w].msg => message'[m] = message[m]
  BY <1>4, EndsIs DEF Finish
<1>5. ASSUME NEW kind, LFault(kind)
      PROVE  lfaults.kinds \subseteq lfaults'.kinds /\ kind \in lfaults'.kinds
  BY <1>5 DEF LFault, LearnTypeOK
<1>6. CASE LearnCrash(w)
  <2>1. work' = [work EXCEPT ![w] = Idle] /\ message' = message
        /\ lfaults.kinds \subseteq lfaults'.kinds /\ "crash" \in lfaults'.kinds
    BY <1>5, <1>6 DEF LearnCrash
  <2>. QED BY <2>1, EndsIs DEF Ends
<1>7. CASE GuestSolved(w)
  BY <1>2, <1>4, <1>7 DEF GuestSolved, At, Ends
<1>8. CASE Find(w)
  <2>1. CASE Fails(w)
    BY <1>2, <2>1
  <2>2. CASE ~Fails(w)
    <3>. DEFINE h == [work[w] EXCEPT !.pc = "complete", !.first = IsFirst(w)]
    <3>1. work' = [work EXCEPT ![w] = h] /\ message' = message /\ lfaults' = lfaults
          /\ work[w].pc = "find" /\ Solver(w) \in Learner
      BY <1>1, <1>8, <2>2 DEF Find, At
    <3>2. h.pc = "complete" /\ h.msg = work[w].msg /\ h.first = IsFirst(w)
      BY <1>1 DEF Job
    <3>. HIDE DEF h
    <3>3. Moved(w) /\ work'[w] = h
      BY <3>1, <3>2, GoesOn
    <3>. QED BY <3>1, <3>2, <3>3 DEF Next
  <2>. QED BY <2>1, <2>2
<1>9. CASE Complete(w)
  <2>1. work[w].pc = "complete" /\ (Fails(w) \/ (Goes(w, "check") /\ UNCHANGED <<message, lfaults>>))
    BY <1>9 DEF Complete, At
  <2>. QED BY <1>2, <1>3, <2>1 DEF Next
<1>10. CASE Check(w)
  <2>1. work[w].pc = "check" /\ (Fails(w) \/ (Goes(w, "read") /\ UNCHANGED <<message, lfaults>>))
    BY <1>10 DEF Check, At
  <2>. QED BY <1>2, <1>3, <2>1 DEF Next
<1>11. CASE Read(w)
  <2>1. CASE Fails(w)
    BY <1>2, <2>1
  <2>2. CASE ~Fails(w)
    <3>1. PICK day \in {today, today - 1} \ {0} :
             /\ work' = [work EXCEPT ![w].pc = "award",
                                     ![w].next = CalculateStreak(streak[Solver(w)], day)]
             /\ message' = message /\ (lfaults' = lfaults \/ LFault("skew"))
      BY <1>11, <2>2 DEF Read
    <3>. DEFINE next == CalculateStreak(streak[Solver(w)], day)
                h == [work[w] EXCEPT !.pc = "award", !.next = next]
    <3>2. work' = [work EXCEPT ![w] = h] /\ work[w].pc = "read"
      BY <1>1, <1>11, <3>1 DEF Read, At
    <3>. HIDE DEF next
    <3>3. h.pc = "award" /\ h.msg = work[w].msg /\ h.first = work[w].first
      BY <1>1 DEF Job
    <3>. HIDE DEF h
    <3>4. Moved(w) /\ work'[w] = h
      BY <3>1, <3>2, <3>3, GoesOn
    <3>. QED BY <1>5, <3>1, <3>2, <3>3, <3>4 DEF Next
  <2>. QED BY <2>1, <2>2
<1>12. CASE Award(w)
  <2>1. work[w].pc = "award" /\ (Fails(w) \/ (Goes(w, "end") /\ UNCHANGED <<message, lfaults>>))
    BY <1>12 DEF Award, At
  <2>. QED BY <1>2, <1>3, <2>1 DEF Next
<1>13. CASE EndSession(w)
  <2>1. work[w].pc = "end" /\ (Fails(w) \/ (Goes(w, "submit") /\ UNCHANGED <<message, lfaults>>))
    BY <1>13 DEF EndSession, At
  <2>. QED BY <1>2, <1>3, <2>1 DEF Next
<1>14. CASE Submit(w)
  <2>1. /\ work[w].pc = "submit"
        /\ \/ Fails(w)
           \/ lfaults' = lfaults /\ work[w].first /\ Goes(w, "milestones") /\ message' = message
           \/ lfaults' = lfaults /\ ~work[w].first /\ Finish(w)
    BY <1>14 DEF Submit, At
  <2>2. CASE Fails(w)
    BY <1>2, <2>2
  <2>3. CASE lfaults' = lfaults /\ work[w].first /\ Goes(w, "milestones") /\ message' = message
    BY <1>3, <2>1, <2>3 DEF Next
  <2>4. CASE lfaults' = lfaults /\ ~work[w].first /\ Finish(w)
    BY <1>4, <2>1, <2>4 DEF Ends
  <2>. QED BY <2>1, <2>2, <2>3, <2>4
<1>15. CASE AwardMilestones(w)
  <2>1. /\ work[w].pc = "milestones"
        /\ Fails(w) \/ (Goes(w, "path") /\ message' = message /\ (lfaults' = lfaults \/ LFault("db")))
    BY <1>15 DEF AwardMilestones, At
  <2>. QED BY <1>2, <1>3, <1>5, <2>1 DEF Next
<1>16. CASE AwardPath(w)
  <2>1. work[w].pc = "path" /\ (Fails(w) \/ (Finish(w) /\ lfaults' = lfaults))
    BY <1>16 DEF AwardPath, At
  <2>. QED BY <1>2, <1>4, <2>1 DEF Ends
<1>17. ASSUME NEW m \in Message, Begin(w, m) PROVE FALSE
  BY <1>17 DEF Begin, At
<1>. QED BY <1>6, <1>7, <1>8, <1>9, <1>10, <1>11, <1>12, <1>13, <1>14, <1>15, <1>16, <1>17 DEF Handle

\* The steps of everybody else leave the handlers alone.
Others == \/ \E s \in Session : Solve(s) \/ EndedEarly(s) \/ FailedRun(s)
          \/ Midnight \/ UNCHANGED learnVars

Unwritten ==
    /\ UNCHANGED <<work, completed, awards, streak, history, badge, days, clash>>
    /\ lfaults.kinds \subseteq lfaults'.kinds
    /\ today \in Nat /\ today' \in Nat /\ today' >= today
    /\ \A m \in Message : /\ message[m].at # "none" => message'[m] = message[m]
                          /\ message'[m].at = "consumed" => message'[m] = message[m]
    /\ \A s \in Session : /\ status'[s] = "COMPLETED" <=> status[s] = "COMPLETED"
                          /\ status'[s] = "TERMINATED" => \/ status[s] = "TERMINATED"
                                                          \/ "ended" \in lfaults'.kinds

\* They write nothing that a handler wrote.
LEMMA OthersLeave ==
    ASSUME LearnTypeOK, WorkPart, Others
    PROVE  Unwritten /\ \A w \in Worker : Same(w)
<1>1. /\ today \in Nat /\ message \in [Message -> [session: Session, at: {"none", "waiting", "consumed"}]]
      /\ status \in [Session -> {"ACTIVE", "COMPLETED", "TERMINATED"}]
  BY LearningAssumption DEF LearnTypeOK
<1>2. ASSUME NEW s \in Session, Solve(s)
      PROVE  Unwritten
  <2>1. PICK m \in Message : /\ message[m].at = "none"
                             /\ message' = [message EXCEPT ![m] = [session |-> s, at |-> "waiting"]]
    BY <1>2 DEF Solve
  <2>2. UNCHANGED <<work, completed, awards, streak, history, status, badge, today, days, clash, lfaults>>
    BY <1>2 DEF Solve
  <2>3. \A n \in Message : /\ message[n].at # "none" => message'[n] = message[n]
                           /\ message'[n].at = "consumed" => message'[n] = message[n]
    BY <1>1, <2>1
  <2>. QED BY <1>1, <2>2, <2>3 DEF Unwritten
<1>3. ASSUME NEW s \in Session, EndedEarly(s)
      PROVE  Unwritten
  <2>1. status' = [status EXCEPT ![s] = "TERMINATED"] /\ status[s] = "ACTIVE"
        /\ UNCHANGED <<message, work, completed, awards, streak, history, badge, today, days, clash>>
    BY <1>3 DEF EndedEarly
  <2>2. lfaults.kinds \subseteq lfaults'.kinds /\ "ended" \in lfaults'.kinds
    BY <1>3 DEF EndedEarly, LFault, LearnTypeOK
  <2>. QED BY <1>1, <2>1, <2>2 DEF Unwritten
<1>4. ASSUME NEW s \in Session, FailedRun(s)
      PROVE  Unwritten
  BY <1>1, <1>4 DEF FailedRun, Unwritten
<1>5. ASSUME Midnight
      PROVE  Unwritten
  <2>1. today' = today + 1 /\ UNCHANGED <<message, work, completed, awards, streak, history,
                                          status, badge, days, clash, lfaults>>
    BY <1>5 DEF Midnight
  <2>. QED BY <1>1, <2>1 DEF Unwritten
<1>6. ASSUME UNCHANGED learnVars
      PROVE  Unwritten
  <2>1. today' = today /\ UNCHANGED <<message, work, completed, awards, streak, history,
                                      status, badge, days, clash, lfaults>>
    BY <1>6 DEF learnVars
  <2>. QED BY <1>1, <2>1 DEF Unwritten
<1>7. Unwritten
  BY <1>2, <1>3, <1>4, <1>5, <1>6 DEF Others
<1>8. ASSUME NEW w \in Worker PROVE Same(w)
  BY <1>7 DEF Unwritten, Same, WorkPart, Holds, Solver, Solved, MsgSession
<1>. QED BY <1>7, <1>8

\* A handler begins.
LEMMA BeginIs ==
    ASSUME LearnTypeOK, WorkPart, NEW w \in Worker, NEW m \in Message, Begin(w, m)
    PROVE  /\ work[w].pc = "idle" /\ work'[w].pc = "find" /\ \A v \in Worker \ {w} : Same(v)
           /\ Solver(w)' = UserOf[message[m].session]
<1>. DEFINE h == [Idle EXCEPT !.pc = "find", !.msg = m]
<1>1. h.pc = "find" /\ h.msg = m
  BY IdleJob DEF Job
<1>2. work' = [work EXCEPT ![w] = h] /\ message' = message /\ work[w].pc = "idle"
  BY DEF Begin, At
<1>. HIDE DEF h
<1>3. work'[w] = h /\ \A v \in Worker \ {w} : work'[v] = work[v]
  BY <1>2 DEF LearnTypeOK
<1>. QED BY <1>1, <1>2, <1>3 DEF Same, Solver, Solved, MsgSession

\* What handlers rely on stays when others step.
LEMMA OthersWork == ASSUME LearnTypeOK, WorkPart, Others PROVE WorkPart'
<1>1. today' >= today /\ today \in Nat /\ today' \in Nat
  BY OthersLeave DEF Unwritten
<1>2. ASSUME NEW w \in Worker PROVE Holds(w)'
  <2>1. Holds(w) /\ Same(w) /\ work' = work /\ completed' = completed /\ history' = history
    BY OthersLeave DEF WorkPart, Unwritten
  <2>2. CASE work[w].pc = "idle"
    BY <2>1, <2>2 DEF Holds, Past
  <2>3. CASE work[w].pc # "idle"
    <3>1. Solver(w)' = Solver(w) /\ Solved(w)' = Solved(w)
          /\ message'[work[w].msg] = message[work[w].msg]
      BY <2>1, <2>3 DEF Same
    <3>2. work[w].pc = "award" => work[w].next.last \in 1 .. today'
      BY <1>1, <2>1 DEF Holds
    <3>. QED BY <2>1, <3>1, <3>2 DEF Holds
  <2>. QED BY <2>2, <2>3
<1>. QED BY <1>2 DEF WorkPart

\* The handlers of the other learners, and of a learner at two messages.
LEMMA OneStep ==
    ASSUME LearnTypeOK, WorkPart, OnePart, LearnNext \/ UNCHANGED learnVars
    PROVE  OnePart' /\ clash \subseteq clash'
<1>1. ASSUME clash' = clash, \A w \in Worker, u \in Learner : WorksFor(w, u)' => WorksFor(w, u)
      PROVE  OnePart' /\ clash \subseteq clash'
  BY <1>1 DEF OnePart
<1>2. CASE Others
  BY <1>1, <1>2, OthersLeave DEF Same, WorksFor, Unwritten
<1>3. ASSUME NEW w \in Worker, Handle(w) \/ LearnCrash(w), work[w].pc # "idle"
      PROVE  OnePart' /\ clash \subseteq clash'
  <2>1. clash' = clash
    BY <1>3 DEF Handle, LearnCrash, Begin, At, GuestSolved, Find, Complete, Check, Read, Award,
                EndSession, Submit, AwardMilestones, AwardPath
  <2>2. \A v \in Worker, u \in Learner : WorksFor(v, u)' => WorksFor(v, u)
    BY <1>3, HandlerGoesOn, IdleIs DEF Moved, Same, WorksFor
  <2>. QED BY <1>1, <2>1, <2>2
<1>4. ASSUME NEW w \in Worker, NEW m \in Message, Begin(w, m)
      PROVE  OnePart' /\ clash \subseteq clash'
  <2>. DEFINE u == UserOf[message[m].session]
  <2>1. clash' = IF \E v \in Worker : WorksFor(v, u) THEN clash \cup {u} ELSE clash
    BY <1>4 DEF Begin, WorksFor
  <2>2. /\ work[w].pc = "idle" /\ \A v \in Worker \ {w} : Same(v)
        /\ Solver(w)' = u
    BY <1>4, BeginIs
  <2>. HIDE DEF u
  <2>3. \A v \in Worker \ {w}, x \in Learner : WorksFor(v, x)' => WorksFor(v, x)
    BY <2>2 DEF Same, WorksFor
  <2>4. \A x \in Learner : WorksFor(w, x)' => x = u
    BY <2>2 DEF WorksFor
  <2>. QED BY <2>1, <2>3, <2>4 DEF OnePart
<1>5. ASSUME NEW w \in Worker, Handle(w), work[w].pc = "idle"
      PROVE  \E m \in Message : Begin(w, m)
  BY <1>5 DEF Handle, At, GuestSolved, Find, Complete, Check, Read, Award,
              EndSession, Submit, AwardMilestones, AwardPath
<1>6. ASSUME NEW w \in Worker, LearnCrash(w)
      PROVE  work[w].pc # "idle"
  BY <1>6 DEF LearnCrash, At
<1>. QED BY <1>2, <1>3, <1>4, <1>5, <1>6 DEF LearnNext, Others

-----------------------------------------------------------------------------
(* The XP                                                                   *)

\* A step that adds no completion and no XP.
LEMMA AwardMoves ==
    ASSUME LearnTypeOK, AwardPart, completed' = completed, awards' = awards, clash \subseteq clash',
           lfaults.kinds \subseteq lfaults'.kinds,
           \A v \in Worker : ToAward(v)' =>
              \/ ToAward(v) /\ Solver(v)' = Solver(v) /\ Solved(v)' = Solved(v)
              \/ awards[Solved(v)'] = 0,
           LWithout({"db", "crash"})' =>
              \A v \in Worker, p \in Pair : WillAward(v, p) => WillAward(v, p)'
    PROVE  AwardPart'
<1>1. \A v \in Worker : ToAward(v)' /\ Solver(v)' \notin clash' => awards[Solved(v)'] = 0
  BY DEF AwardPart
<1>2. LWithout({"db", "crash"})' => LWithout({"db", "crash"})
  BY DEF LWithout
<1>3. LWithout({"db", "crash"})' =>
        \A p \in completed : awards[p] > 0 \/ \E w \in Worker : WillAward(w, p)'
  BY <1>2 DEF AwardPart, LearnTypeOK
<1>. QED BY <1>1, <1>3 DEF AwardPart

\* What a handler that is left alone will award stays so.
LEMMA SameAward ==
    ASSUME NEW v \in Worker, Same(v)
    PROVE  /\ ToAward(v)' => ToAward(v) /\ Solver(v)' = Solver(v) /\ Solved(v)' = Solved(v)
           /\ \A p : WillAward(v, p) => WillAward(v, p)'
BY DEF Same, ToAward, WillAward

\* Every step keeps it.
LEMMA AwardStep ==
    ASSUME LearnTypeOK, WorkPart, OnePart, AwardPart, LearnNext \/ UNCHANGED learnVars
    PROVE  AwardPart'
<1>1. clash \subseteq clash' /\ awards \in [Pair -> Nat] /\ completed \subseteq Pair
  BY OneStep DEF LearnTypeOK
<1>2. CASE Others
  BY <1>1, <1>2, OthersLeave, SameAward, AwardMoves DEF Unwritten
<1>3. ASSUME NEW w \in Worker, NEW m \in Message, Begin(w, m)
      PROVE  AwardPart'
  <2>1. UNCHANGED <<completed, awards, lfaults>>
    BY <1>3 DEF Begin
  <2>2. /\ \A v \in Worker \ {w} : Same(v)
        /\ ~ToAward(w)' /\ \A p : ~WillAward(w, p)
    BY <1>3, BeginIs DEF ToAward, WillAward
  <2>. QED BY <1>1, <2>1, <2>2, SameAward, AwardMoves
<1>4. ASSUME NEW w \in Worker, work[w].pc # "idle", LearnCrash(w) \/ Handle(w)
      PROVE  AwardPart'
  <2>1. Moved(w) /\ lfaults.kinds \subseteq lfaults'.kinds /\ (Next(w) \/ Ends(w))
    BY <1>4, HandlerGoesOn
  <2>2. \A v \in Worker \ {w} : Same(v)
    BY <2>1 DEF Moved
  <2>3. work'[w] # Idle => Solver(w)' = Solver(w) /\ Solved(w)' = Solved(w)
    BY <2>1 DEF Moved
  <2>4. CASE Complete(w) /\ ~Ends(w)
    <3>1. completed' = completed \cup {Solved(w)} /\ awards' = awards
          /\ work[w].pc = "complete" /\ work'[w].pc = "check" /\ work'[w].first = work[w].first
          /\ work'[w] # Idle /\ Solver(w) \in Learner
      BY <2>1, <2>4, FailsIs, IdleIs DEF Complete, At, Next, Ends, WorkPart, Holds
    <3>2. Solved(w) \in Pair
      BY <3>1, WorkTypes
    <3>3. ToAward(w)' => ToAward(w)
      BY <3>1 DEF ToAward
    <3>4. \A v \in Worker : ToAward(v)' => ToAward(v) /\ Solver(v)' = Solver(v) /\ Solved(v)' = Solved(v)
      BY <2>2, <2>3, <3>1, <3>3, SameAward
    <3>5. ASSUME LWithout({"db", "crash"})', NEW p \in completed'
          PROVE  awards[p] > 0 \/ \E v \in Worker : WillAward(v, p)'
      <4>1. LWithout({"db", "crash"})
        BY <2>1, <3>5 DEF LWithout
      <4>2. CASE p \in completed
        <5>1. awards[p] > 0 \/ \E v \in Worker : WillAward(v, p)
          BY <4>1, <4>2 DEF AwardPart
        <5>2. ~WillAward(w, p)
          BY <3>1 DEF WillAward
        <5>. QED BY <2>2, <5>1, <5>2, SameAward
      <4>3. CASE p \notin completed
        <5>1. p = Solved(w) /\ work[w].first
          BY <3>1, <4>3 DEF WorkPart, Holds
        <5>2. WillAward(w, p)'
          BY <2>3, <3>1, <5>1 DEF WillAward
        <5>. QED BY <5>2
      <4>. QED BY <4>2, <4>3
    <3>6. \A v \in Worker : ToAward(v)' /\ Solver(v)' \notin clash' => awards'[Solved(v)'] = 0
      BY <1>1, <3>1, <3>4 DEF AwardPart
    <3>7. \A p \in Pair : /\ awards'[p] > 0 => p \in completed'
                          /\ p[1] \notin clash' => awards'[p] <= 1
      BY <1>1, <3>1 DEF AwardPart
    <3>. QED BY <3>1, <3>5, <3>6, <3>7 DEF AwardPart
  <2>5. CASE Award(w) /\ ~Ends(w) /\ work[w].first
    <3>1. awards' = [awards EXCEPT ![Solved(w)] = @ + 1] /\ completed' = completed
          /\ work[w].pc = "award" /\ work'[w].pc = "end" /\ Solver(w) \in Learner
      BY <2>1, <2>5, FailsIs DEF Award, At, Next, Ends, WorkPart, Holds
    <3>2. Solved(w) \in Pair /\ Solved(w)[1] = Solver(w) /\ Solved(w) \in completed
      BY <3>1, WorkTypes DEF WorkPart, Holds, Past
    <3>3. awards'[Solved(w)] = awards[Solved(w)] + 1
          /\ \A p \in Pair \ {Solved(w)} : awards'[p] = awards[p]
      BY <1>1, <3>1, <3>2
    <3>4. Solver(w) \notin clash => awards[Solved(w)] = 0
      BY <2>5, <3>1 DEF AwardPart, ToAward
    <3>5. \A p \in Pair : /\ awards'[p] > 0 => p \in completed'
                          /\ p[1] \notin clash' => awards'[p] <= 1
      BY <1>1, <3>1, <3>2, <3>3, <3>4 DEF AwardPart
    <3>6. ASSUME NEW v \in Worker, ToAward(v)', Solver(v)' \notin clash'
          PROVE  awards'[Solved(v)'] = 0
      <4>1. v # w
        BY <3>1, <3>6 DEF ToAward
      <4>2. ToAward(v) /\ Solver(v)' = Solver(v) /\ Solved(v)' = Solved(v)
        BY <2>2, <3>6, <4>1, SameAward
      <4>3. work[v].pc # "idle" /\ Solver(v) \in Learner
        BY <4>2 DEF ToAward, WorkPart, Holds
      <4>4. Solver(v) # Solver(w)
        BY <1>1, <1>4, <3>1, <3>6, <4>1, <4>2, <4>3 DEF OnePart, WorksFor
      <4>5. Solved(v) \in Pair \ {Solved(w)}
        BY <3>2, <4>3, <4>4, WorkTypes
      <4>6. awards[Solved(v)] = 0
        BY <1>1, <3>6, <4>2 DEF AwardPart
      <4>. QED BY <3>3, <4>2, <4>5, <4>6
    <3>7. ASSUME LWithout({"db", "crash"})', NEW p \in completed
          PROVE  awards'[p] > 0 \/ \E v \in Worker : WillAward(v, p)'
      <4>1. LWithout({"db", "crash"})
        BY <2>1, <3>7 DEF LWithout
      <4>2. CASE p = Solved(w)
        BY <1>1, <3>2, <3>3, <4>2
      <4>3. CASE p # Solved(w)
        <5>1. ~WillAward(w, p) /\ p \in Pair
          BY <1>1, <4>3 DEF WillAward
        <5>2. awards[p] > 0 \/ \E v \in Worker \ {w} : WillAward(v, p)
          BY <4>1, <5>1 DEF AwardPart
        <5>. QED BY <2>2, <3>3, <4>3, <5>1, <5>2, SameAward
      <4>. QED BY <4>2, <4>3
    <3>. QED BY <3>1, <3>5, <3>6, <3>7 DEF AwardPart
  <2>6. CASE ~(Complete(w) /\ ~Ends(w)) /\ ~(Award(w) /\ ~Ends(w) /\ work[w].first)
    <3>1. completed' = completed /\ awards' = awards
      <4>1. CASE Complete(w)
        <5>1. Ends(w)
          BY <2>6, <4>1
        <5>2. work'[w].pc = "idle"
          BY <5>1, IdleIs DEF Ends
        <5>3. ~Goes(w, "check")
          BY <1>4, <5>2, GoesIs DEF Goes, LearnTypeOK
        <5>. QED BY <4>1, <5>3 DEF Complete
      <4>2. CASE Award(w)
        <5>1. CASE ~work[w].first
          BY <4>2, <5>1 DEF Award
        <5>2. CASE work[w].first
          <6>1. Ends(w)
            BY <2>6, <4>2, <5>2
          <6>2. work'[w].pc = "idle"
            BY <6>1, IdleIs DEF Ends
          <6>3. ~Goes(w, "end")
            BY <1>4, <6>2, GoesIs DEF Goes, LearnTypeOK
          <6>. QED BY <4>2, <6>3 DEF Award
        <5>. QED BY <5>1, <5>2
      <4>3. CASE ~Complete(w) /\ ~Award(w)
        BY <1>4, <4>3 DEF LearnCrash, Handle, Begin, GuestSolved, Find, Check, Read, EndSession,
                          Submit, AwardMilestones, AwardPath
      <4>. QED BY <4>1, <4>2, <4>3
    <3>2. ToAward(w)' => \/ ToAward(w) /\ Solver(w)' = Solver(w) /\ Solved(w)' = Solved(w)
                         \/ awards[Solved(w)'] = 0
      <4>1. CASE Ends(w)
        BY <4>1, IdleIs DEF Ends, ToAward
      <4>2. CASE Next(w) /\ work[w].pc # "find"
        BY <2>3, <4>2, IdleIs DEF Next, ToAward
      <4>3. CASE Next(w) /\ work[w].pc = "find"
        <5>1. work'[w].first => Solved(w) \notin completed
          BY <4>3 DEF Next, IsFirst
        <5>2. Solved(w)' = Solved(w) /\ Solved(w) \in Pair
          BY <1>4, <2>3, <4>3, WorkTypes, IdleIs DEF Next
        <5>. QED BY <1>1, <5>1, <5>2 DEF AwardPart, ToAward
      <4>. QED BY <2>1, <4>1, <4>2, <4>3
    <3>3. ASSUME LWithout({"db", "crash"})', NEW p \in Pair, WillAward(w, p)
          PROVE  WillAward(w, p)'
      <4>1. work[w].pc \in {"check", "read", "award"} /\ work[w].first
        BY <3>3 DEF WillAward
      <4>2. ~Ends(w)
        BY <3>3, <4>1 DEF Ends, LWithout
      <4>3. Next(w) /\ Solved(w)' = Solved(w)
        BY <2>1, <2>3, <4>2, IdleIs DEF Next
      <4>4. work[w].pc # "award"
        <5>1. work[w].pc = "award" => Award(w)
          BY <1>4, <4>3, IdleIs, EndsIs DEF Handle, LearnCrash, Begin, GuestSolved, Find, Complete, Check, Read,
             EndSession, Submit, AwardMilestones, AwardPath, At, Next
        <5>. QED BY <2>6, <4>1, <4>2, <5>1
      <4>. QED BY <3>3, <4>1, <4>3, <4>4 DEF WillAward, Next
    <3>. QED BY <1>1, <2>1, <2>2, <3>1, <3>2, <3>3, SameAward, AwardMoves
  <2>. QED BY <2>4, <2>5, <2>6
<1>5. ASSUME NEW w \in Worker, Handle(w), work[w].pc = "idle"
      PROVE  \E m \in Message : Begin(w, m)
  BY <1>5 DEF Handle, At, GuestSolved, Find, Complete, Check, Read, Award,
              EndSession, Submit, AwardMilestones, AwardPath
<1>6. ASSUME NEW w \in Worker, LearnCrash(w)
      PROVE  work[w].pc # "idle"
  BY <1>6 DEF LearnCrash, At
<1>. QED BY <1>2, <1>3, <1>4, <1>5, <1>6 DEF LearnNext, Others

-----------------------------------------------------------------------------
(* The marks of a consumed message, and the badge of a path                 *)

\* What the handler wrote of its message when it consumes it.
LEMMA KeptStep ==
    ASSUME LearnTypeOK, WorkPart, SolveIsKept, LearnNext \/ UNCHANGED learnVars
    PROVE  SolveIsKept'
<1>. DEFINE Mark(m) == UserOf[message[m].session] \in Learner =>
               history'[m] > 0 /\ <<UserOf[message[m].session], ChallengeOf[message[m].session]>> \in completed
<1>1. ASSUME LWithout({"db"})' => LWithout({"db"}),
             completed \subseteq completed', \A m \in Message : history[m] > 0 => history'[m] > 0,
             \A m \in Message : message'[m].at = "consumed" =>
                /\ message'[m].session = message[m].session
                /\ LWithout({"db"})' => message[m].at = "consumed" \/ Mark(m)
      PROVE  SolveIsKept'
  BY <1>1 DEF SolveIsKept
<1>2. CASE Others
  BY <1>1, <1>2, OthersLeave DEF Unwritten, LWithout
<1>3. ASSUME NEW w \in Worker, Handle(w) \/ LearnCrash(w)
      PROVE  /\ completed \subseteq completed'
             /\ \A m \in Message : history[m] > 0 => history'[m] > 0
  <2>1. completed \subseteq completed'
    BY <1>3 DEF Handle, LearnCrash, Begin, GuestSolved, Find, Complete, Check, Read, Award,
                EndSession, Submit, AwardMilestones, AwardPath
  <2>2. history' = history \/ (work[w].pc # "idle" /\ history' = [history EXCEPT ![work[w].msg] = @ + 1])
    BY <1>3 DEF Handle, LearnCrash, Begin, GuestSolved, Find, Complete, Check, Read, Award,
                EndSession, Submit, AwardMilestones, AwardPath, At
  <2>3. history \in [Message -> Nat] /\ (work[w].pc # "idle" => work[w].msg \in Message)
    BY WorkTypes DEF LearnTypeOK
  <2>. QED BY <2>1, <2>2, <2>3
<1>4. ASSUME NEW w \in Worker, NEW m \in Message, Begin(w, m)
      PROVE  SolveIsKept'
  BY <1>1, <1>3, <1>4 DEF Begin, Handle, LWithout
<1>5. ASSUME NEW w \in Worker, work[w].pc # "idle", LearnCrash(w) \/ Handle(w)
      PROVE  SolveIsKept'
  <2>1. lfaults.kinds \subseteq lfaults'.kinds /\ (Next(w) \/ Ends(w)) /\ work[w].msg \in Message
    BY <1>5, HandlerGoesOn, WorkTypes
  <2>2. LWithout({"db"})' => LWithout({"db"})
    BY <2>1 DEF LWithout
  <2>3. CASE message' = message
    BY <1>1, <1>3, <1>5, <2>2, <2>3
  <2>4. CASE message' # message
    <3>1. Ends(w)
      BY <2>1, <2>4 DEF Next
    <3>2. ASSUME LWithout({"db"})'
          PROVE  message'[work[w].msg].at = "consumed" => Mark(work[w].msg)
      <4>1. \/ work[w].pc = "path" \/ (work[w].pc = "submit" /\ ~work[w].first)
            \/ (work[w].pc = "find" /\ Solver(w) \notin Learner)
        BY <2>4, <3>1, <3>2 DEF Ends, LWithout
      <4>2. CASE work[w].pc = "find" /\ Solver(w) \notin Learner
        BY <4>2 DEF Solver, MsgSession
      <4>3. CASE work[w].pc = "path"
        BY <1>3, <1>5, <2>1, <4>3 DEF WorkPart, Holds, Past, Solved, Solver, MsgSession
      <4>4. CASE work[w].pc = "submit" /\ ~work[w].first
        <5>1. Solved(w) \in completed
          BY <4>4 DEF WorkPart, Holds, Past
        <5>2. Submit(w) \/ LearnCrash(w)
          BY <1>5, <4>4 DEF Handle, Begin, GuestSolved, Find, Complete, Check, Read, Award,
                            EndSession, AwardMilestones, AwardPath, At
        <5>3. ~Fails(w) /\ ~LearnCrash(w)
          BY <1>5, <2>4, <3>2, FailsIs DEF LWithout, LearnCrash
        <5>4. history' = [history EXCEPT ![work[w].msg] = @ + 1] /\ history \in [Message -> Nat]
          BY <5>2, <5>3 DEF Submit, LearnTypeOK
        <5>5. history'[work[w].msg] > 0
          BY <2>1, <5>4
        <5>. QED BY <5>1, <5>5 DEF Solved, Solver, MsgSession
      <4>. QED BY <4>1, <4>2, <4>3, <4>4
    <3>. QED BY <1>1, <1>3, <1>5, <2>2, <3>1, <3>2 DEF Ends
  <2>. QED BY <2>3, <2>4
<1>6. ASSUME NEW w \in Worker, Handle(w), work[w].pc = "idle"
      PROVE  \E m \in Message : Begin(w, m)
  BY <1>6 DEF Handle, At, GuestSolved, Find, Complete, Check, Read, Award,
              EndSession, Submit, AwardMilestones, AwardPath
<1>7. ASSUME NEW w \in Worker, LearnCrash(w)
      PROVE  work[w].pc # "idle"
  BY <1>7 DEF LearnCrash, At
<1>. QED BY <1>2, <1>4, <1>5, <1>6, <1>7 DEF LearnNext, Others

\* A step that completes neither a challenge nor a session, and awards no path.
LEMMA BadgeMoves ==
    ASSUME LearnTypeOK, BadgePart, completed' = completed, lfaults.kinds \subseteq lfaults'.kinds,
           \A s \in Session : /\ status'[s] = "COMPLETED" <=> status[s] = "COMPLETED"
                              /\ status'[s] = "TERMINATED" => \/ status[s] = "TERMINATED"
                                                              \/ "ended" \in lfaults'.kinds,
           \A u \in Learner : <<u, PathBadge>> \in badge' <=> <<u, PathBadge>> \in badge,
           LWithout({"db", "crash", "ended"})' =>
              \A v \in Worker : /\ \A p \in Pair : WillEnd(v, p) => WillEnd(v, p)'
                                /\ \A u \in Learner : WillLook(v, u) => WillLook(v, u)'
    PROVE  BadgePart'
<1>1. /\ LWithout({"db", "crash", "ended"})' => LWithout({"db", "crash", "ended"})
      /\ LWithout({"ended"})' => LWithout({"ended"}) /\ "ended" \notin lfaults'.kinds
      /\ completed \subseteq Pair
  BY DEF LWithout, LearnTypeOK
<1>2. \A s \in Session : status'[s] = "COMPLETED" /\ UserOf[s] \in Learner =>
         <<UserOf[s], ChallengeOf[s]>> \in completed'
  BY DEF BadgePart
<1>3. PathBadgeEarned'
  BY DEF BadgePart, PathBadgeEarned
<1>4. LWithout({"ended"})' => \A s \in Session : status'[s] # "TERMINATED"
  BY <1>1 DEF BadgePart
<1>5. ASSUME LWithout({"db", "crash", "ended"})', NEW p \in completed
      PROVE  (\E s \in Session : CompletedIn(s, p)') \/ \E w \in Worker : WillEnd(w, p)'
  <2>1. (\E s \in Session : CompletedIn(s, p)) \/ \E w \in Worker : WillEnd(w, p)
    BY <1>1, <1>5 DEF BadgePart
  <2>2. \A s \in Session : CompletedIn(s, p) => CompletedIn(s, p)'
    BY DEF CompletedIn
  <2>. QED BY <1>1, <1>5, <2>1, <2>2
<1>6. ASSUME LWithout({"db", "crash", "ended"})', Path # {}, NEW u \in Learner, {u} \X Path \subseteq completed
      PROVE  <<u, PathBadge>> \in badge' \/ \E w \in Worker : WillLook(w, u)'
  <2>1. <<u, PathBadge>> \in badge \/ \E w \in Worker : WillLook(w, u)
    BY <1>1, <1>6 DEF BadgePart
  <2>. QED BY <1>6, <2>1
<1>. QED BY <1>2, <1>3, <1>4, <1>5, <1>6 DEF BadgePart

\* What a handler that is left alone will end and look for stays so.
LEMMA SameBadge ==
    ASSUME NEW v \in Worker, Same(v)
    PROVE  /\ \A p : WillEnd(v, p) => WillEnd(v, p)'
           /\ \A u : WillLook(v, u) => WillLook(v, u)'
BY DEF Same, WillEnd, WillLook, Past

\* A handler goes on, and ends without a fault only when it will not look for a path, or
\* has looked.
LEMMA NextBadge ==
    ASSUME NEW w \in Worker, Moved(w), Next(w) \/ Ends(w), work[w].pc # "idle",
           LWithout({"db", "crash", "ended"})'
    PROVE  /\ work[w].pc # "end" => \A p : WillEnd(w, p) => WillEnd(w, p)'
           /\ work[w].pc # "path" => \A u : WillLook(w, u) => WillLook(w, u)'
<1>1. work[w].pc \in Past /\ work[w].first /\ work[w].pc # "path" => Next(w)
  BY DEF Ends, LWithout, Past
<1>2. Next(w) => Solver(w)' = Solver(w) /\ Solved(w)' = Solved(w)
  BY IdleIs DEF Moved, Next
<1>3. Next(w) /\ work[w].pc \in Past => work'[w].first = work[w].first /\ work'[w].pc \in Past
  BY DEF Next, Past
<1>4. Next(w) /\ work[w].pc \in {"check", "read", "award"} => work'[w].pc \in {"check", "read", "award", "end"}
  BY DEF Next
<1>. QED BY <1>1, <1>2, <1>3, <1>4 DEF WillEnd, WillLook, Past

\* A handler completes a challenge,
LEMMA CompleteBadge ==
    ASSUME LearnTypeOK, WorkPart, BadgePart, NEW w \in Worker, Complete(w), Moved(w), Next(w),
           lfaults.kinds \subseteq lfaults'.kinds
    PROVE  BadgePart'
<1>1. /\ completed' = completed \cup {Solved(w)} /\ UNCHANGED <<status, badge>>
      /\ work[w].pc = "complete" /\ work'[w].pc = "check" /\ work'[w].first = work[w].first
      /\ Solver(w) \in Learner /\ \A v \in Worker \ {w} : Same(v)
      /\ Solver(w)' = Solver(w) /\ Solved(w)' = Solved(w)
  BY FailsIs, IdleIs DEF Complete, At, Next, WorkPart, Holds, Moved
<1>2. /\ Solved(w) \in Pair /\ Solved(w)[1] = Solver(w) /\ completed \subseteq Pair
      /\ Solved(w) \notin completed => work[w].first
  BY <1>1, WorkTypes DEF WorkPart, Holds, LearnTypeOK
<1>3. /\ LWithout({"db", "crash", "ended"})' => LWithout({"db", "crash", "ended"})
      /\ LWithout({"ended"})' => LWithout({"ended"})
  BY DEF LWithout
<1>4. \A v \in Worker : /\ \A p : WillEnd(v, p) => WillEnd(v, p)'
                        /\ \A u : WillLook(v, u) => WillLook(v, u)'
  BY <1>1, SameBadge DEF WillEnd, WillLook, Past
<1>5. \A s \in Session : status'[s] = "COMPLETED" /\ UserOf[s] \in Learner =>
         <<UserOf[s], ChallengeOf[s]>> \in completed'
  BY <1>1 DEF BadgePart
<1>6. PathBadgeEarned'
  BY <1>1 DEF BadgePart, PathBadgeEarned
<1>7. LWithout({"ended"})' => \A s \in Session : status'[s] # "TERMINATED"
  BY <1>1, <1>3 DEF BadgePart
<1>8. ASSUME LWithout({"db", "crash", "ended"})', NEW p \in completed'
      PROVE  (\E s \in Session : CompletedIn(s, p)') \/ \E v \in Worker : WillEnd(v, p)'
  <2>1. CASE p \in completed
    <3>1. (\E s \in Session : CompletedIn(s, p)) \/ \E v \in Worker : WillEnd(v, p)
      BY <1>3, <1>8, <2>1 DEF BadgePart
    <3>. QED BY <1>1, <1>4, <3>1 DEF CompletedIn
  <2>2. CASE p \notin completed
    <3>1. WillEnd(w, p)'
      BY <1>1, <1>2, <1>8, <2>2 DEF WillEnd
    <3>. QED BY <3>1
  <2>. QED BY <2>1, <2>2
<1>9. ASSUME LWithout({"db", "crash", "ended"})', Path # {}, NEW u \in Learner, {u} \X Path \subseteq completed'
      PROVE  <<u, PathBadge>> \in badge' \/ \E v \in Worker : WillLook(v, u)'
  <2>1. CASE {u} \X Path \subseteq completed
    <3>1. <<u, PathBadge>> \in badge \/ \E v \in Worker : WillLook(v, u)
      BY <1>3, <1>9, <2>1 DEF BadgePart
    <3>. QED BY <1>1, <1>4, <3>1
  <2>2. CASE ~({u} \X Path \subseteq completed)
    <3>1. Solved(w) \in {u} \X Path /\ Solved(w) \notin completed
      BY <1>1, <1>9, <2>2
    <3>2. Solver(w) = u /\ Solved(w)[2] \in Path /\ work[w].first
      BY <1>2, <3>1
    <3>3. WillLook(w, u)'
      BY <1>1, <3>2 DEF WillLook, Past
    <3>. QED BY <3>3
  <2>. QED BY <2>1, <2>2
<1>. QED BY <1>5, <1>6, <1>7, <1>8, <1>9 DEF BadgePart

\* completes a session,
LEMMA EndBadge ==
    ASSUME LearnTypeOK, WorkPart, BadgePart, NEW w \in Worker, Moved(w), Next(w) \/ Ends(w),
           work[w].pc \in {"end", "find"}, lfaults.kinds \subseteq lfaults'.kinds,
           status' = [status EXCEPT ![MsgSession(w)] = IF @ = "ACTIVE" THEN "COMPLETED" ELSE @],
           UNCHANGED <<completed, badge>>,
           Solver(w) \in Learner => Solved(w) \in completed
    PROVE  BadgePart'
<1>0. PICK s0 \in Session : s0 = MsgSession(w)
  BY WorkTypes
<1>1. /\ s0 \in Session /\ \A v \in Worker \ {w} : Same(v)
      /\ Solver(w) = UserOf[s0] /\ Solved(w) = <<UserOf[s0], ChallengeOf[s0]>>
      /\ status \in [Session -> {"ACTIVE", "COMPLETED", "TERMINATED"}] /\ completed \subseteq Pair
  BY <1>0, WorkTypes DEF Moved, Solver, Solved, LearnTypeOK
<1>2. /\ status'[s0] = (IF status[s0] = "ACTIVE" THEN "COMPLETED" ELSE status[s0])
      /\ \A s \in Session \ {s0} : status'[s] = status[s]
  BY <1>0, <1>1
<1>3. /\ LWithout({"db", "crash", "ended"})' => LWithout({"db", "crash", "ended"}) /\ LWithout({"ended"})
      /\ LWithout({"ended"})' => LWithout({"ended"})
  BY DEF LWithout
<1>4. LWithout({"ended"})' => \A s \in Session : status'[s] # "TERMINATED"
  BY <1>1, <1>2, <1>3 DEF BadgePart
<1>5. \A s \in Session : status'[s] = "COMPLETED" /\ UserOf[s] \in Learner =>
         <<UserOf[s], ChallengeOf[s]>> \in completed'
  BY <1>1, <1>2 DEF BadgePart
<1>6. PathBadgeEarned'
  BY DEF BadgePart, PathBadgeEarned
<1>7. ASSUME LWithout({"db", "crash", "ended"})', NEW p \in completed
      PROVE  (\E s \in Session : CompletedIn(s, p)') \/ \E v \in Worker : WillEnd(v, p)'
  <2>1. (\E s \in Session : CompletedIn(s, p)) \/ \E v \in Worker : WillEnd(v, p)
    BY <1>3, <1>7 DEF BadgePart
  <2>2. CASE \E s \in Session : CompletedIn(s, p)
    BY <1>1, <1>2, <2>2 DEF CompletedIn
  <2>3. CASE \E v \in Worker \ {w} : WillEnd(v, p)
    BY <1>1, <2>3, SameBadge
  <2>4. CASE WillEnd(w, p)
    <3>1. p = <<UserOf[s0], ChallengeOf[s0]>>
      BY <1>1, <2>4 DEF WillEnd
    <3>2. status[s0] # "TERMINATED"
      BY <1>1, <1>3, <1>7 DEF BadgePart
    <3>3. CompletedIn(s0, p)'
      BY <1>1, <1>2, <3>1, <3>2 DEF CompletedIn
    <3>. QED BY <1>1, <3>3
  <2>. QED BY <2>1, <2>2, <2>3, <2>4
<1>8. ASSUME LWithout({"db", "crash", "ended"})', Path # {}, NEW u \in Learner, {u} \X Path \subseteq completed
      PROVE  <<u, PathBadge>> \in badge' \/ \E v \in Worker : WillLook(v, u)'
  <2>1. <<u, PathBadge>> \in badge \/ \E v \in Worker : WillLook(v, u)
    BY <1>3, <1>8 DEF BadgePart
  <2>2. \A v \in Worker : WillLook(v, u) => WillLook(v, u)'
    BY <1>1, <1>8, SameBadge, NextBadge
  <2>. QED BY <2>1, <2>2
<1>. QED BY <1>4, <1>5, <1>6, <1>7, <1>8 DEF BadgePart

\* and looks for its path.
LEMMA PathBadgeStep ==
    ASSUME LearnTypeOK, WorkPart, BadgePart, NEW w \in Worker, Moved(w), Ends(w),
           work[w].pc = "path", lfaults.kinds \subseteq lfaults'.kinds,
           badge' = IF Solved(w)[2] \in Path /\ PathDone(Solver(w))
                    THEN badge \cup {<<Solver(w), PathBadge>>} ELSE badge,
           UNCHANGED <<completed, status>>
    PROVE  BadgePart'
<1>1. /\ \A v \in Worker \ {w} : Same(v)
      /\ Solver(w) \in Learner /\ Solved(w)[2] \in Challenge /\ completed \subseteq Pair
  BY WorkTypes DEF Moved, WorkPart, Holds, LearnTypeOK
<1>2. /\ LWithout({"db", "crash", "ended"})' => LWithout({"db", "crash", "ended"})
      /\ LWithout({"ended"})' => LWithout({"ended"})
  BY DEF LWithout
<1>3. PathDone(Solver(w)) => {Solver(w)} \X Path \subseteq completed
  BY <1>1 DEF PathDone, BadgePart
<1>4. PathBadgeEarned'
  BY <1>3 DEF BadgePart, PathBadgeEarned
<1>5. LWithout({"ended"})' => \A s \in Session : status'[s] # "TERMINATED"
  BY <1>2 DEF BadgePart
<1>6. ASSUME LWithout({"db", "crash", "ended"})', NEW p \in completed
      PROVE  (\E s \in Session : CompletedIn(s, p)) \/ \E v \in Worker \ {w} : WillEnd(v, p) /\ WillEnd(v, p)'
  <2>1. (\E s \in Session : CompletedIn(s, p)) \/ \E v \in Worker : WillEnd(v, p)
    BY <1>2, <1>6 DEF BadgePart
  <2>2. ~WillEnd(w, p)
    BY DEF WillEnd
  <2>. QED BY <1>1, <2>1, <2>2, SameBadge
<1>7. ASSUME LWithout({"db", "crash", "ended"})', Path # {}, NEW u \in Learner, {u} \X Path \subseteq completed
      PROVE  <<u, PathBadge>> \in badge' \/ \E v \in Worker : WillLook(v, u)'
  <2>1. <<u, PathBadge>> \in badge \/ \E v \in Worker : WillLook(v, u)
    BY <1>2, <1>7 DEF BadgePart
  <2>2. CASE <<u, PathBadge>> \in badge
    BY <2>2
  <2>3. CASE \E v \in Worker \ {w} : WillLook(v, u)
    BY <1>1, <2>3, SameBadge
  <2>4. CASE WillLook(w, u) /\ PathDone(u)
    BY <2>4 DEF WillLook
  <2>5. CASE WillLook(w, u) /\ ~PathDone(u)
    <3>1. PICK c \in Path : ~\E s \in Session : CompletedIn(s, <<u, c>>)
      BY <2>5 DEF PathDone, CompletedIn
    <3>2. PICK v \in Worker \ {w} : WillEnd(v, <<u, c>>)
      BY <1>6, <1>7, <3>1
    <3>3. work[v].pc \in Past /\ work[v].pc # "find"
      BY <3>2 DEF WillEnd, Past
    <3>4. Solved(v)[1] = Solver(v)
      BY <3>3, WorkTypes DEF Past
    <3>5. WillLook(v, u)
      BY <3>2, <3>3, <3>4 DEF WillEnd, WillLook
    <3>. QED BY <1>1, <3>5, SameBadge
  <2>. QED BY <2>1, <2>2, <2>3, <2>4, <2>5
<1>8. \A p \in completed : \A s \in Session : CompletedIn(s, p) => CompletedIn(s, p)'
  BY DEF CompletedIn
<1>9. \A s \in Session : status'[s] = "COMPLETED" /\ UserOf[s] \in Learner =>
         <<UserOf[s], ChallengeOf[s]>> \in completed'
  BY DEF BadgePart
<1>. QED BY <1>4, <1>5, <1>6, <1>7, <1>8, <1>9 DEF BadgePart

\* The next statement of a handler.
LEMMA GoesPc ==
    ASSUME LearnTypeOK, NEW w \in Worker, NEW pc, Goes(w, pc)
    PROVE  work'[w].pc = pc
BY DEF Goes, LearnTypeOK

\* Every step keeps what is said of badges.
LEMMA BadgeStep ==
    ASSUME LearnTypeOK, WorkPart, BadgePart, LearnNext \/ UNCHANGED learnVars
    PROVE  BadgePart'
<1>1. CASE Others
  BY <1>1, OthersLeave, SameBadge, BadgeMoves DEF Unwritten
<1>2. ASSUME NEW w \in Worker, NEW m \in Message, Begin(w, m)
      PROVE  BadgePart'
  <2>1. UNCHANGED <<completed, badge, status, lfaults>>
    BY <1>2 DEF Begin
  <2>2. \A v \in Worker : /\ \A p : WillEnd(v, p) => WillEnd(v, p)'
                          /\ \A u : WillLook(v, u) => WillLook(v, u)'
    BY <1>2, BeginIs, SameBadge DEF WillEnd, WillLook, Past
  <2>. QED BY <2>1, <2>2, BadgeMoves
<1>3. ASSUME NEW w \in Worker, work[w].pc # "idle", LearnCrash(w) \/ Handle(w)
      PROVE  BadgePart'
  <2>1. Moved(w) /\ lfaults.kinds \subseteq lfaults'.kinds /\ (Next(w) \/ Ends(w))
    BY <1>3, HandlerGoesOn
  <2>2. ASSUME NEW p, LWithout({"db", "crash", "ended"})'
        PROVE  "db" \notin lfaults'.kinds /\ "crash" \notin lfaults'.kinds
    BY <2>2 DEF LWithout
  <2>3. ASSUME completed' = completed, status' = status,
               \A u \in Learner : <<u, PathBadge>> \in badge' <=> <<u, PathBadge>> \in badge,
               work[w].pc = "end" => Fails(w) \/ LearnCrash(w), work[w].pc = "path" => Fails(w) \/ LearnCrash(w)
        PROVE  BadgePart'
    <3>1. ASSUME LWithout({"db", "crash", "ended"})'
          PROVE  work[w].pc # "end" /\ work[w].pc # "path"
      <4>1. Fails(w) => "db" \in lfaults'.kinds
        BY <1>3, FailsIs
      <4>2. LearnCrash(w) => "crash" \in lfaults'.kinds
        BY DEF LearnCrash, LFault, LearnTypeOK
      <4>. QED BY <2>3, <3>1, <4>1, <4>2 DEF LWithout
    <3>2. LWithout({"db", "crash", "ended"})' =>
             \A v \in Worker : /\ \A p \in Pair : WillEnd(v, p) => WillEnd(v, p)'
                               /\ \A u \in Learner : WillLook(v, u) => WillLook(v, u)'
      BY <1>3, <2>1, <3>1, SameBadge, NextBadge DEF Moved
    <3>. QED BY <2>1, <2>3, <3>2, BadgeMoves
  <2>4. CASE Fails(w)
    <3>1. completed' = completed /\ status' = status /\ badge' = badge
      <4>1. ~\E pc \in {"check", "read", "end", "submit", "path"} : Goes(w, pc)
        BY <1>3, <2>4, FailsIs, IdleIs, GoesPc
      <4>2. lfaults' # lfaults
        BY <2>4 DEF Fails, LFault, LearnTypeOK
      <4>. QED BY <1>3, <2>4, <4>1, <4>2 DEF Handle, LearnCrash, Begin, GuestSolved, Find, Complete, Check,
                  Read, Award, EndSession, Submit, AwardMilestones, AwardPath, At
    <3>. QED BY <2>3, <2>4, <3>1
  <2>5. CASE LearnCrash(w)
    BY <2>3, <2>5 DEF LearnCrash
  <2>6. CASE Complete(w) /\ ~Fails(w)
    <3>1. Next(w)
      BY <2>1, <2>6, GoesPc, IdleIs DEF Complete, Ends
    <3>. QED BY <2>1, <2>6, <3>1, CompleteBadge
  <2>7. CASE (EndSession(w) \/ GuestSolved(w)) /\ ~Fails(w)
    <3>1. /\ work[w].pc \in {"end", "find"} /\ UNCHANGED <<completed, badge>>
          /\ status' = [status EXCEPT ![MsgSession(w)] = IF @ = "ACTIVE" THEN "COMPLETED" ELSE @]
      BY <2>7 DEF EndSession, GuestSolved, At
    <3>2. Solver(w) \in Learner => Solved(w) \in completed
      BY <2>7 DEF EndSession, GuestSolved, At, WorkPart, Holds, Past
    <3>. QED BY <2>1, <3>1, <3>2, EndBadge
  <2>8. CASE AwardPath(w) /\ ~Fails(w)
    <3>1. /\ work[w].pc = "path" /\ UNCHANGED <<completed, status>>
          /\ badge' = IF Solved(w)[2] \in Path /\ PathDone(Solver(w))
                      THEN badge \cup {<<Solver(w), PathBadge>>} ELSE badge
      BY <2>8 DEF AwardPath, At
    <3>2. Ends(w)
      BY <2>1, <3>1 DEF Next
    <3>. QED BY <2>1, <3>1, <3>2, PathBadgeStep
  <2>9. CASE AwardMilestones(w) /\ ~Fails(w)
    <3>1. PICK B \in SUBSET MilestonesReached(w) : badge' = badge \cup {Solver(w)} \X B
      BY <2>9 DEF AwardMilestones
    <3>2. PathBadge \notin MilestonesReached(w)
      BY DEF PathBadge, MilestonesReached
    <3>3. \A u \in Learner : <<u, PathBadge>> \in badge' <=> <<u, PathBadge>> \in badge
      BY <3>1, <3>2
    <3>4. UNCHANGED <<completed, status>> /\ work[w].pc = "milestones"
      BY <2>9 DEF AwardMilestones, At
    <3>. QED BY <2>3, <3>3, <3>4
  <2>10. CASE (Find(w) \/ Check(w) \/ Read(w) \/ Award(w) \/ Submit(w)) /\ ~Fails(w)
    <3>1. UNCHANGED <<completed, status, badge>> /\ work[w].pc \notin {"end", "path"}
      BY <2>10 DEF Find, Check, Read, Award, Submit, At
    <3>. QED BY <2>3, <3>1
  <2>11. ASSUME NEW m \in Message, Begin(w, m) PROVE FALSE
    BY <1>3, <2>11 DEF Begin, At
  <2>. QED BY <1>3, <2>4, <2>5, <2>6, <2>7, <2>8, <2>9, <2>10, <2>11 DEF Handle
<1>4. ASSUME NEW w \in Worker, Handle(w), work[w].pc = "idle"
      PROVE  \E m \in Message : Begin(w, m)
  BY <1>4 DEF Handle, At, GuestSolved, Find, Complete, Check, Read, Award,
              EndSession, Submit, AwardMilestones, AwardPath
<1>5. ASSUME NEW w \in Worker, LearnCrash(w)
      PROVE  work[w].pc # "idle"
  BY <1>5 DEF LearnCrash, At
<1>. QED BY <1>1, <1>2, <1>3, <1>4, <1>5 DEF LearnNext, Others

\* The invariant holds at first,
LEMMA SolveStart == LearnInit => SolveInv
<1>. SUFFICES ASSUME LearnInit PROVE SolveInv
  OBVIOUS
<1>1. LearnTypeOK
  <2>1. Idle \in Job /\ NoStreak \in Streak /\ AnySession \in Session /\ MaxDay \in Nat \ {0}
        /\ NoStreak.last = 0
    BY IdleJob, LearningAssumption DEF AnySession, NoStreak, Streak
  <2>2. WorkTypeOK
    BY <2>1, IdleIs DEF LearnInit, WorkTypeOK
  <2>3. RowTypes /\ ClockTypes
    BY <2>1 DEF LearnInit, RowTypes, ClockTypes
  <2>. QED BY <2>2, <2>3, TypeParts
<1>2. \A w \in Worker : work[w] = Idle /\ work[w].pc = "idle"
  BY IdleIs DEF LearnInit
<1>3. WorkPart /\ OnePart
  BY <1>2 DEF WorkPart, Holds, Past, OnePart, WorksFor
<1>4. AwardPart
  BY <1>2 DEF LearnInit, AwardPart, ToAward
<1>5. SolveIsKept
  BY DEF LearnInit, SolveIsKept
<1>6. BadgePart
  <2>1. completed = {} /\ badge = {} /\ \A s \in Session : status[s] = "ACTIVE"
    BY DEF LearnInit
  <2>2. ASSUME Path # {}, NEW u \in Learner, {u} \X Path \subseteq {} PROVE FALSE
    <3>1. PICK c \in Path : TRUE
      BY <2>2
    <3>2. <<u, c>> \in {u} \X Path
      BY <3>1
    <3>. QED BY <2>2, <3>2
  <2>. QED BY <2>1, <2>2 DEF BadgePart, PathBadgeEarned
<1>. QED BY <1>1, <1>3, <1>4, <1>5, <1>6 DEF SolveInv

\* and every step keeps it.
LEMMA SolveStep == SolveInv /\ [LearnNext]_learnVars => SolveInv'
<1>. SUFFICES ASSUME SolveInv, [LearnNext]_learnVars PROVE SolveInv'
  OBVIOUS
<1>1. LearnTypeOK /\ WorkPart /\ OnePart /\ AwardPart /\ SolveIsKept /\ BadgePart
  BY DEF SolveInv
<1>2. LearnTypeOK'
  BY <1>1, LearnTypes
<1>3. WorkPart'
  BY <1>1, OthersWork, HandleWork DEF LearnNext, Others
<1>. QED BY <1>1, <1>2, <1>3, OneStep, AwardStep, KeptStep, BadgeStep DEF SolveInv

\* For any number of consumers, messages and learners, a solve is counted once, and nothing
\* of it is lost or left half written.
THEOREM SolveCorrect == LearnSpec => []SolveCounted
<1>1. SolveInv => SolveCounted
  <2>. SUFFICES ASSUME SolveInv PROVE SolveCounted
    OBVIOUS
  <2>1. XpAddedOnce
    BY DEF SolveInv, AwardPart, XpAddedOnce, Pair
  <2>2. XpGoesWithCompletion
    <3>1. \A w \in Worker, p \in Pair : WillAward(w, p) => Working(p[1])
      BY WorkTypes DEF SolveInv, WillAward, Working
    <3>. QED BY <3>1 DEF SolveInv, AwardPart, XpGoesWithCompletion
  <2>. QED BY <2>1, <2>2 DEF SolveInv, SolveCounted
<1>. QED BY <1>1, SolveStart, SolveStep, PTL DEF LearnSpec

\* For any learning path, who has completed it has its badge, and nobody else.
THEOREM BadgeCorrect == LearnSpec => []PathBadgeHeld
<1>1. SolveInv => PathBadgeHeld
  <2>. SUFFICES ASSUME SolveInv PROVE PathBadgeHeld
    OBVIOUS
  <2>1. PathBadgeAwarded
    BY DEF SolveInv, BadgePart, PathBadgeAwarded, WillLook, Working, Past
  <2>. QED BY <2>1 DEF SolveInv, BadgePart, PathBadgeHeld
<1>. QED BY <1>1, SolveStart, SolveStep, PTL DEF LearnSpec

-----------------------------------------------------------------------------
(* The streak                                                               *)

Run(D, d) == {i \in D : i <= d /\ i .. d \subseteq D}

\* The longest run, as a bound that is reached.
LongestIs(D, n) ==
    /\ \A d \in D : RunTo(D, d) <= n
    /\ IF D = {} THEN n = 0 ELSE \E d \in D : RunTo(D, d) = n

\* A run of days has a length.
LEMMA RunIsFinite ==
    ASSUME NEW last \in Nat, NEW D \in SUBSET (1 .. last), NEW d
    PROVE  IsFiniteSet(D) /\ IsFiniteSet(Run(D, d)) /\ RunTo(D, d) \in Nat
<1>1. IsFiniteSet(D)
  <2>1. IsFiniteSet(1 .. last)
    BY FS_Interval
  <2>. QED BY <2>1, FS_Subset
<1>2. IsFiniteSet(Run(D, d))
  BY <1>1, FS_Subset DEF Run
<1>. QED BY <1>1, <1>2, FS_CardinalityType DEF Run, RunTo

\* The bound that is reached is the longest run.
LEMMA LongestRunIs ==
    ASSUME NEW last \in Nat, NEW D \in SUBSET (1 .. last), NEW n \in Nat, LongestIs(D, n)
    PROVE  LongestRun(D) = n
<1>. DEFINE S == {RunTo(D, d) : d \in D}
            m == CHOOSE k \in S : \A d \in D : RunTo(D, d) <= k
<1>1. CASE D = {}
  BY <1>1 DEF LongestIs, LongestRun
<1>2. CASE D # {}
  <2>1. n \in S /\ \A d \in D : RunTo(D, d) <= n
    BY <1>2 DEF LongestIs
  <2>2. m \in S /\ \A d \in D : RunTo(D, d) <= m
    BY <2>1
  <2>3. S \subseteq Nat
    BY RunIsFinite
  <2>4. LongestRun(D) = m
    BY <1>2 DEF LongestRun
  <2>. HIDE DEF m
  <2>. QED BY <2>1, <2>2, <2>3, <2>4
<1>. QED BY <1>1, <1>2

\* A day is added after the last: the runs before it stay, and its own goes on from the
\* day before or begins with it.
LEMMA DayAdded ==
    ASSUME NEW last \in Nat, NEW D \in SUBSET (1 .. last), NEW day \in Nat, day > last,
           last > 0 => last \in D
    PROVE  /\ \A d \in D : RunTo(D \cup {day}, d) = RunTo(D, d)
           /\ last > 0 /\ day = last + 1 => RunTo(D \cup {day}, day) = RunTo(D, last) + 1
           /\ last = 0 \/ day > last + 1 => RunTo(D \cup {day}, day) = 1
<1>. DEFINE E == D \cup {day}
<1>1. ASSUME NEW d \in D
      PROVE  RunTo(E, d) = RunTo(D, d)
  <2>1. \A i \in D : i .. d \subseteq E => i .. d \subseteq D
    OBVIOUS
  <2>2. Run(E, d) = Run(D, d)
    BY <2>1 DEF Run
  <2>. QED BY <2>2 DEF Run, RunTo
<1>2. ASSUME last > 0, day = last + 1
      PROVE  RunTo(E, day) = RunTo(D, last) + 1
  <2>1. \A i \in D : i .. last \subseteq D => i .. day \subseteq E
    BY <1>2
  <2>2. \A i \in D : i .. day \subseteq E => i .. last \subseteq D
    BY <1>2
  <2>3. Run(E, day) = Run(D, last) \cup {day} /\ day \notin Run(D, last)
    <3>1. \A i \in D : i \in Nat /\ i <= last /\ i <= day /\ i # day
      BY <1>2
    <3>2. day .. day \subseteq E /\ day \in E
      OBVIOUS
    <3>3. \A i \in D : i \in Run(E, day) <=> i \in Run(D, last)
      BY <2>1, <2>2, <3>1 DEF Run
    <3>4. day \in Run(E, day) /\ day \notin Run(D, last)
      BY <3>1, <3>2 DEF Run
    <3>5. Run(E, day) \subseteq E /\ Run(D, last) \subseteq D
      BY DEF Run
    <3>. HIDE DEF E
    <3>. QED BY <3>3, <3>4, <3>5 DEF E
  <2>4. Cardinality(Run(E, day)) = Cardinality(Run(D, last)) + 1
    BY <2>3, RunIsFinite, FS_AddElement
  <2>. QED BY <2>4 DEF Run, RunTo
<1>3. ASSUME last = 0 \/ day > last + 1
      PROVE  RunTo(E, day) = 1
  <2>1. ASSUME NEW i \in D, i .. day \subseteq E PROVE FALSE
    <3>1. day - 1 \in i .. day /\ day - 1 \notin E
      BY <1>3
    <3>. QED BY <2>1, <3>1
  <2>2. Run(E, day) = {day}
    <3>1. day .. day \subseteq E /\ day \in E
      OBVIOUS
    <3>2. day \in Run(E, day)
      BY <3>1 DEF Run
    <3>3. \A i \in Run(E, day) : i = day
      BY <2>1 DEF Run
    <3>. QED BY <3>2, <3>3
  <2>. QED BY <2>2, FS_Singleton DEF Run, RunTo
<1>. QED BY <1>1, <1>2, <1>3

\* What a streak says of the days that were counted.
Counts(D, s) ==
    /\ D \subseteq 1 .. s.last /\ (s.last > 0 => s.last \in D)
    /\ s.current = RunTo(D, s.last) /\ LongestIs(D, s.longest)

\* calculateStreak keeps it, on a day that is not before the last.
LEMMA StreakCounts ==
    ASSUME NEW s \in Streak, NEW D, Counts(D, s), NEW day \in Nat, day >= s.last, day > 0
    PROVE  /\ CalculateStreak(s, day).last = day
           /\ Counts(D \cup {day}, CalculateStreak(s, day))
<1>. DEFINE t == CalculateStreak(s, day)
            E == D \cup {day}
<1>1. /\ s.last \in Nat /\ s.current \in Nat /\ s.longest \in Nat /\ D \in SUBSET (1 .. s.last)
      /\ s.last > 0 => s.last \in D
      /\ s.current = RunTo(D, s.last) /\ LongestIs(D, s.longest)
  BY DEF Counts, Streak
<1>2. /\ t.last = day
      /\ t.current = IF s.last = 0 \/ day - s.last > 1 THEN 1
                     ELSE IF day - s.last = 1 THEN s.current + 1 ELSE Larger(s.current, 1)
      /\ t.longest = Larger(s.longest, t.current)
  BY <1>1 DEF CalculateStreak, Larger
<1>. HIDE DEF t
<1>3. E \in SUBSET (1 .. day) /\ day \in E
  BY <1>1
<1>4. CASE day > s.last
  <2>1. /\ \A d \in D : RunTo(E, d) = RunTo(D, d)
        /\ s.last > 0 /\ day = s.last + 1 => RunTo(E, day) = RunTo(D, s.last) + 1
        /\ s.last = 0 \/ day > s.last + 1 => RunTo(E, day) = 1
    BY <1>1, <1>4, DayAdded
  <2>2. t.current = RunTo(E, day) /\ t.current \in Nat
    BY <1>1, <1>2, <1>4, <2>1
  <2>3. \A d \in D : RunTo(D, d) \in Nat
    BY <1>1, RunIsFinite
  <2>4. LongestIs(E, t.longest)
    <3>1. \A d \in E : RunTo(E, d) <= t.longest
      BY <1>1, <1>2, <2>1, <2>2, <2>3 DEF LongestIs, Larger
    <3>2. \E d \in E : RunTo(E, d) = t.longest
      <4>1. CASE s.longest > t.current
        <5>1. D # {}
          BY <1>1, <2>2, <4>1 DEF LongestIs
        <5>. QED BY <1>1, <1>2, <2>1, <4>1, <5>1 DEF LongestIs, Larger
      <4>2. CASE ~(s.longest > t.current)
        BY <1>2, <1>3, <2>2, <4>2 DEF Larger
      <4>. QED BY <4>1, <4>2
    <3>. QED BY <1>3, <3>1, <3>2 DEF LongestIs
  <2>5. E \subseteq 1 .. t.last /\ t.last \in E /\ t.current = RunTo(E, t.last)
    BY <1>2, <1>3, <2>2
  <2>. HIDE DEF E
  <2>6. Counts(E, t)
    BY <2>4, <2>5 DEF Counts
  <2>. QED BY <1>2, <2>6 DEF t, E
<1>5. CASE day = s.last
  <2>1. E = D
    BY <1>1, <1>5
  <2>2. s.current >= 1
    <3>1. s.last \in Run(D, s.last)
      BY <1>1, <1>5 DEF Run
    <3>2. Cardinality(Run(D, s.last)) # 0
      BY <1>1, <3>1, RunIsFinite, FS_EmptySet
    <3>. QED BY <1>1, <3>2 DEF Run, RunTo
  <2>3. t.current = s.current
    BY <1>1, <1>2, <1>5, <2>2 DEF Larger
  <2>4. s.current <= s.longest
    BY <1>1, <1>5 DEF LongestIs
  <2>5. t.longest = s.longest
    BY <1>1, <1>2, <2>3, <2>4 DEF Larger
  <2>6. E \subseteq 1 .. t.last /\ t.last \in E /\ t.current = RunTo(E, t.last) /\ LongestIs(E, t.longest)
    BY <1>1, <1>2, <1>3, <1>5, <2>1, <2>3, <2>5
  <2>. HIDE DEF E
  <2>7. Counts(E, t)
    BY <2>6 DEF Counts
  <2>. QED BY <1>2, <2>7 DEF t, E
<1>. QED BY <1>1, <1>2, <1>4, <1>5

\* Of a learner with one handler at a time and right clocks, the streak says what the days
\* do, and a handler that has read it goes on from what is stored.
StreakPart ==
    \A u \in Learner \ clash : LWithout({"skew"}) =>
        /\ Counts(days[u], streak[u])
        /\ \A w \in Worker : work[w].pc = "award" /\ Solver(w) = u =>
              \E day \in 1 .. today : /\ day >= streak[u].last
                                      /\ work[w].next = CalculateStreak(streak[u], day)

StreakInv == SolveInv /\ StreakPart

\* A step that writes no streak, and after which who is about to write one was before.
LEMMA StreakStays ==
    ASSUME StreakPart, UNCHANGED <<streak, days>>, clash \subseteq clash',
           lfaults.kinds \subseteq lfaults'.kinds,
           today \in Nat, today' \in Nat, today' >= today,
           \A w \in Worker : work'[w].pc = "award" =>
               work[w].pc = "award" /\ work'[w].next = work[w].next /\ Solver(w)' = Solver(w)
    PROVE  StreakPart'
<1>. SUFFICES ASSUME NEW u \in Learner \ clash', LWithout({"skew"})'
              PROVE  /\ Counts(days[u], streak[u])'
                     /\ \A w \in Worker : work'[w].pc = "award" /\ Solver(w)' = u =>
                           \E day \in 1 .. today' :
                              /\ day >= streak'[u].last
                              /\ work'[w].next = CalculateStreak(streak'[u], day)
  BY DEF StreakPart, CalculateStreak
<1>1. u \in Learner \ clash /\ LWithout({"skew"})
  BY DEF LWithout
<1>2. streak'[u] = streak[u] /\ days'[u] = days[u]
  OBVIOUS
<1>3. Counts(days[u], streak[u])'
  BY <1>1, <1>2 DEF StreakPart, Counts
<1>4. ASSUME NEW w \in Worker, work'[w].pc = "award", Solver(w)' = u
      PROVE  \E day \in 1 .. today' : /\ day >= streak'[u].last
                                      /\ work'[w].next = CalculateStreak(streak'[u], day)
  <2>1. PICK day \in 1 .. today : /\ day >= streak[u].last
                                  /\ work[w].next = CalculateStreak(streak[u], day)
    BY <1>1, <1>4 DEF StreakPart
  <2>2. day \in 1 .. today' /\ work'[w].next = work[w].next
    BY <1>4
  <2>. QED BY <1>2, <2>1, <2>2
<1>. QED BY <1>3, <1>4

\* The streak is read.
LEMMA ReadStreak ==
    ASSUME LearnTypeOK, WorkPart, StreakPart, NEW w \in Worker, Read(w), ~Fails(w)
    PROVE  StreakPart'
<1>. DEFINE u == Solver(w)
<1>1. PICK day \in {today, today - 1} \ {0} :
         /\ day = today \/ LFault("skew")
         /\ work' = [work EXCEPT ![w].pc = "award",
                                 ![w].next = CalculateStreak(streak[u], day)]
         /\ message' = message /\ (lfaults' = lfaults \/ LFault("skew"))
  BY DEF Read
<1>2. UNCHANGED <<streak, days, clash, today>> /\ work[w].pc = "read"
  BY DEF Read, At
<1>3. work \in [Worker -> Job] /\ today \in 1 .. MaxDay /\ MaxDay \in Nat
      /\ \A x \in Learner : streak[x] \in Streak /\ streak[x].last <= today
  BY LearningAssumption DEF LearnTypeOK, Job
<1>. DEFINE next == CalculateStreak(streak[u], day)
            h == [work[w] EXCEPT !.pc = "award", !.next = next]
<1>4. work' = [work EXCEPT ![w] = h]
  BY <1>1, <1>3 DEF Job
<1>. HIDE DEF next
<1>5. h.pc = "award" /\ h.msg = work[w].msg /\ h.next = next
  BY <1>3 DEF Job
<1>. HIDE DEF h
<1>6. Moved(w) /\ work'[w] = h
  BY <1>1, <1>2, <1>4, <1>5, GoesOn
<1>7. Solver(w)' = u
  BY <1>1, <1>5, <1>6 DEF Solver, MsgSession
<1>8. ASSUME NEW v \in Worker \ {w}, work'[v].pc = "award"
      PROVE  work[v].pc = "award" /\ work'[v].next = work[v].next /\ Solver(v)' = Solver(v)
  BY <1>6, <1>8 DEF Moved, Same
<1>. SUFFICES ASSUME NEW x \in Learner \ clash', LWithout({"skew"})'
              PROVE  /\ Counts(days[x], streak[x])'
                     /\ \A v \in Worker : work'[v].pc = "award" /\ Solver(v)' = x =>
                           \E d \in 1 .. today' :
                              /\ d >= streak'[x].last
                              /\ work'[v].next = CalculateStreak(streak'[x], d)
  BY DEF StreakPart, CalculateStreak
<1>9. x \in Learner \ clash /\ LWithout({"skew"}) /\ day = today /\ streak'[x] = streak[x] /\ days'[x] = days[x]
  <2>1. LFault("skew") => "skew" \in lfaults'.kinds /\ lfaults.kinds \subseteq lfaults'.kinds
    BY DEF LFault, LearnTypeOK
  <2>. QED BY <1>1, <1>2, <2>1 DEF LWithout
<1>10. Counts(days[x], streak[x])'
  BY <1>9 DEF StreakPart, Counts
<1>11. ASSUME NEW v \in Worker, work'[v].pc = "award", Solver(v)' = x
       PROVE  \E d \in 1 .. today' : /\ d >= streak'[x].last
                                     /\ work'[v].next = CalculateStreak(streak'[x], d)
  <2>1. CASE v = w
    <3>1. u = x /\ work'[v].next = CalculateStreak(streak[x], today)
      BY <1>5, <1>6, <1>7, <1>9, <1>11, <2>1 DEF next
    <3>2. today \in 1 .. today' /\ today >= streak'[x].last
      BY <1>2, <1>3, <1>9, Zenon, SMT
    <3>. QED BY <1>9, <3>1, <3>2
  <2>2. CASE v # w
    BY <1>2, <1>8, <1>9, <1>11, <2>2 DEF StreakPart
  <2>. QED BY <2>1, <2>2
<1>. QED BY <1>10, <1>11

\* The streak is written.
LEMMA AwardStreak ==
    ASSUME LearnTypeOK, WorkPart, OnePart, StreakPart, NEW w \in Worker,
           Award(w), work[w].first, ~(Fails(w) /\ UNCHANGED <<awards, streak, days>>)
    PROVE  StreakPart'
<1>. DEFINE u == Solver(w)
<1>1. /\ Goes(w, "end") /\ work[w].pc = "award" /\ UNCHANGED <<message, lfaults, clash, today>>
      /\ streak' = [streak EXCEPT ![u] = work[w].next]
      /\ days' = [days EXCEPT ![u] = @ \cup {work[w].next.last}]
  BY DEF Award, At
<1>2. Moved(w) /\ work'[w].pc = "end"
  BY <1>1, GoesIs
<1>3. /\ u \in Learner /\ today \in Nat
      /\ streak \in [Learner -> Streak] /\ days \in [Learner -> SUBSET (1 .. MaxDay)]
  BY <1>1, LearningAssumption DEF LearnTypeOK, WorkPart, Holds
<1>. HIDE DEF u
<1>4. ASSUME NEW v \in Worker, work'[v].pc = "award"
      PROVE  v # w /\ work'[v] = work[v] /\ Solver(v)' = Solver(v)
  BY <1>2, <1>4 DEF Moved, Same
<1>. SUFFICES ASSUME NEW x \in Learner \ clash', LWithout({"skew"})'
              PROVE  /\ Counts(days[x], streak[x])'
                     /\ \A v \in Worker : work'[v].pc = "award" /\ Solver(v)' = x =>
                           \E d \in 1 .. today' :
                              /\ d >= streak'[x].last
                              /\ work'[v].next = CalculateStreak(streak'[x], d)
  BY DEF StreakPart, CalculateStreak
<1>5. x \in Learner \ clash /\ LWithout({"skew"})
  BY <1>1 DEF LWithout
<1>6. CASE x # u
  <2>1. streak'[x] = streak[x] /\ days'[x] = days[x] /\ today' = today
    BY <1>1, <1>3, <1>6
  <2>2. Counts(days[x], streak[x])'
    BY <1>5, <2>1 DEF StreakPart, Counts
  <2>3. ASSUME NEW v \in Worker, work'[v].pc = "award", Solver(v)' = x
        PROVE  \E d \in 1 .. today' : /\ d >= streak'[x].last
                                      /\ work'[v].next = CalculateStreak(streak'[x], d)
    BY <1>4, <1>5, <2>1, <2>3 DEF StreakPart
  <2>. QED BY <2>2, <2>3
<1>7. CASE x = u
  <2>1. PICK day \in 1 .. today : day >= streak[u].last /\ work[w].next = CalculateStreak(streak[u], day)
    BY <1>1, <1>5, <1>7 DEF StreakPart, u
  <2>2. Counts(days[u], streak[u]) /\ streak[u] \in Streak /\ day \in Nat /\ day > 0
    BY <1>3, <1>5, <1>7, <2>1 DEF StreakPart
  <2>3. /\ CalculateStreak(streak[u], day).last = day
        /\ Counts(days[u] \cup {day}, CalculateStreak(streak[u], day))
    BY <2>1, <2>2, StreakCounts
  <2>4. streak'[u] = CalculateStreak(streak[u], day) /\ days'[u] = days[u] \cup {day}
    BY <1>1, <1>3, <2>1, <2>3
  <2>5. Counts(days[x], streak[x])'
    BY <1>7, <2>3, <2>4 DEF Counts
  <2>6. ASSUME NEW v \in Worker, work'[v].pc = "award", Solver(v)' = x PROVE FALSE
    BY <1>1, <1>4, <1>5, <1>7, <2>6 DEF OnePart, WorksFor, u
  <2>. QED BY <2>5, <2>6
<1>. QED BY <1>6, <1>7

\* Every step keeps what is said of streaks.
LEMMA StreakStep ==
    ASSUME LearnTypeOK, WorkPart, OnePart, StreakPart, LearnNext \/ UNCHANGED learnVars
    PROVE  StreakPart'
<1>1. clash \subseteq clash'
  BY OneStep
<1>2. CASE Others
  <2>1. /\ UNCHANGED <<work, streak, days, clash>> /\ lfaults.kinds \subseteq lfaults'.kinds
        /\ today \in Nat /\ today' \in Nat /\ today' >= today
    BY <1>2, OthersLeave DEF Unwritten
  <2>2. \A w \in Worker : work[w].pc = "award" => Solver(w)' = Solver(w)
    BY <1>2, OthersLeave DEF Same
  <2>. QED BY <2>1, <2>2, StreakStays
<1>3. ASSUME NEW w \in Worker, Handle(w) \/ LearnCrash(w),
             UNCHANGED <<streak, days>>, work'[w].pc # "award" \/ work[w].pc = "idle"
      PROVE  StreakPart'
  <2>1. today' = today /\ today \in Nat
    <3>1. today' = today
      BY <1>3 DEF Handle, LearnCrash, Begin, GuestSolved, Find, Complete, Check, Read, Award,
                  EndSession, Submit, AwardMilestones, AwardPath
    <3>. QED BY <3>1, LearningAssumption DEF LearnTypeOK
  <2>2. CASE work[w].pc = "idle"
    <3>1. PICK m \in Message : Begin(w, m)
      BY <1>3, <2>2 DEF Handle, LearnCrash, At, GuestSolved, Find, Complete, Check, Read, Award,
                   EndSession, Submit, AwardMilestones, AwardPath
    <3>2. lfaults' = lfaults
      BY <3>1 DEF Begin
    <3>3. work'[w].pc = "find" /\ \A v \in Worker \ {w} : Same(v)
      BY <3>1, BeginIs
    <3>. QED BY <1>1, <1>3, <2>1, <3>2, <3>3, StreakStays DEF Same
  <2>3. CASE work[w].pc # "idle"
    <3>1. Moved(w) /\ lfaults.kinds \subseteq lfaults'.kinds
      BY <1>3, <2>3, HandlerGoesOn
    <3>2. \A v \in Worker : work'[v].pc = "award" =>
             work[v].pc = "award" /\ work'[v].next = work[v].next /\ Solver(v)' = Solver(v)
      BY <1>3, <2>3, <3>1 DEF Moved, Same
    <3>. QED BY <1>1, <1>3, <2>1, <3>1, <3>2, StreakStays
  <2>. QED BY <2>2, <2>3
<1>4. ASSUME NEW w \in Worker, Handle(w) \/ LearnCrash(w), work[w].pc # "idle", work[w].pc # "read"
      PROVE  work'[w].pc # "award"
  BY <1>4, HandlerGoesOn, IdleIs DEF Next, Ends
<1>5. ASSUME NEW w \in Worker, Handle(w) \/ LearnCrash(w), work[w].pc # "read", work[w].pc # "award"
      PROVE  StreakPart'
  <2>1. UNCHANGED <<streak, days>>
    BY <1>5 DEF Handle, LearnCrash, At, Begin, GuestSolved, Find, Complete, Check, Read, Award,
                EndSession, Submit, AwardMilestones, AwardPath
  <2>. QED BY <1>3, <1>4, <1>5, <2>1
<1>6. ASSUME NEW w \in Worker, Fails(w), Handle(w), UNCHANGED <<streak, days>>, work[w].pc # "idle"
      PROVE  StreakPart'
  <2>1. work'[w].pc = "idle"
    BY <1>6, FailsIs, IdleIs
  <2>. QED BY <1>3, <1>6, <2>1
<1>7. ASSUME NEW w \in Worker, LearnCrash(w)
      PROVE  StreakPart'
  <2>1. work'[w].pc = "idle" /\ UNCHANGED <<streak, days>>
    BY <1>7, IdleIs DEF LearnCrash, LearnTypeOK
  <2>. QED BY <1>3, <1>7, <2>1
<1>8. ASSUME NEW w \in Worker, Handle(w), work[w].pc = "read"
      PROVE  StreakPart'
  <2>1. Read(w) /\ UNCHANGED <<streak, days>>
    BY <1>8 DEF Handle, At, Begin, GuestSolved, Find, Complete, Check, Read, Award,
                EndSession, Submit, AwardMilestones, AwardPath
  <2>. QED BY <1>6, <1>8, <2>1, ReadStreak
<1>9. ASSUME NEW w \in Worker, Handle(w), work[w].pc = "award"
      PROVE  StreakPart'
  <2>1. Award(w)
    BY <1>9 DEF Handle, At, Begin, GuestSolved, Find, Complete, Check, Read,
                EndSession, Submit, AwardMilestones, AwardPath
  <2>2. CASE Fails(w) /\ UNCHANGED <<awards, streak, days>>
    BY <1>6, <1>9, <2>2
  <2>3. CASE ~work[w].first /\ UNCHANGED <<streak, days>>
    BY <1>3, <1>4, <1>9, <2>3
  <2>4. CASE work[w].first /\ ~(Fails(w) /\ UNCHANGED <<awards, streak, days>>)
    BY <2>1, <2>4, AwardStreak
  <2>. QED BY <2>1, <2>2, <2>3, <2>4 DEF Award
<1>. QED BY <1>2, <1>5, <1>7, <1>8, <1>9 DEF LearnNext, Others

\* For any learners, days and consumers, the streak of a learner whose messages are handled
\* one after the other, on clocks that agree, is the run of their days, and the longest one.
THEOREM StreakCorrect == LearnSpec => []StreakIsRun
<1>1. LearnInit => StreakInv
  <2>. SUFFICES ASSUME LearnInit PROVE StreakPart
    BY SolveStart DEF StreakInv
  <2>1. \A w \in Worker : work[w].pc = "idle"
    BY IdleIs DEF LearnInit
  <2>2. RunTo({}, 0) = 0
    <3>1. {i \in {} : i <= 0 /\ i .. 0 \subseteq {}} = {}
      OBVIOUS
    <3>. QED BY <3>1, FS_EmptySet DEF RunTo
  <2>3. Counts({}, NoStreak)
    BY <2>2 DEF Counts, LongestIs, NoStreak
  <2>. QED BY <2>1, <2>3 DEF LearnInit, StreakPart
<1>2. StreakInv /\ [LearnNext]_learnVars => StreakInv'
  BY SolveStep, StreakStep DEF StreakInv, SolveInv
<1>3. StreakInv => StreakIsRun
  <2>. SUFFICES ASSUME StreakInv, NEW u \in Learner \ clash, LWithout({"skew"})
                PROVE  /\ streak[u].current = RunTo(days[u], streak[u].last)
                       /\ streak[u].longest = LongestRun(days[u])
    BY DEF StreakIsRun
  <2>1. Counts(days[u], streak[u]) /\ streak[u].last \in Nat /\ streak[u].longest \in Nat
    BY DEF StreakInv, StreakPart, SolveInv, LearnTypeOK, Streak
  <2>. QED BY <2>1, LongestRunIs DEF Counts
<1>. QED BY <1>1, <1>2, <1>3, PTL DEF LearnSpec

-----------------------------------------------------------------------------
(* What is told of the rows                                                 *)

\* Rows are finitely many, of the past, and in the sessions of different times; no row is a
\* completion and a submission at once.
ReadInv ==
    /\ ReadTypeOK
    /\ \A kept \in {labSessions, completions, submissions, earned} :
          IsFiniteSet(kept) /\ \A r \in kept : r.at <= clock
    /\ \A s \in labSessions : s.end <= clock
    /\ \A s, t \in labSessions : s.at = t.at => s = t
    /\ completions \cap submissions = {}

\* Among finitely many values one is the largest.
LEMMA LargestOf ==
    ASSUME NEW T, T # {}, NEW N \in Nat, NEW f \in [T -> 0 .. N]
    PROVE  \E m \in T : \A t \in T : f[t] <= f[m]
<1>. DEFINE above(t) == (f[t] + 1) .. N
            sets     == {above(t) : t \in T}
<1>1. IsFiniteSet(1 .. N)
  BY FS_Interval
<1>2. IsWellFoundedOn(StrictSubsetOrdering(1 .. N), SUBSET (1 .. N))
  BY <1>1, FS_StrictSubsetOrderingWellFounded, FS_FiniteSubsetsOfFinite
<1>3. \A t \in T : f[t] \in 0 .. N
  OBVIOUS
<1>4. sets \subseteq SUBSET (1 .. N) /\ sets # {}
  BY <1>3
<1>5. \E w \in sets : \A v \in sets : <<v, w>> \notin StrictSubsetOrdering(1 .. N)
  <2>. HIDE DEF sets
  <2>. QED BY <1>2, <1>4, WFMin
<1>6. PICK m \in T : \A v \in sets : <<v, above(m)>> \notin StrictSubsetOrdering(1 .. N)
  BY <1>5
<1>7. ASSUME NEW t \in T, f[t] > f[m] PROVE FALSE
  <2>1. above(t) \in sets /\ above(t) \in SUBSET (1 .. N) /\ above(m) \in SUBSET (1 .. N)
    BY <1>3
  <2>2. above(t) \subseteq above(m)
    BY <1>3, <1>7
  <2>3. f[t] \in above(m) /\ f[t] \notin above(t)
    BY <1>3, <1>7
  <2>. HIDE DEF above, sets
  <2>4. <<above(t), above(m)>> \in StrictSubsetOrdering(1 .. N)
    BY <2>1, <2>2, <2>3 DEF StrictSubsetOrdering
  <2>. QED BY <1>6, <2>1, <2>4
<1>. QED BY <1>3, <1>7

\* Of finitely many rows one is the last.
LEMMA LastOf ==
    ASSUME NEW T, T # {}, NEW N \in Nat, \A t \in T : t.at \in 0 .. N
    PROVE  \E m \in T : \A t \in T : t.at <= m.at
<1>. DEFINE f == [t \in T |-> t.at]
<1>1. f \in [T -> 0 .. N]
  OBVIOUS
<1>2. \A t \in T : f[t] = t.at
  OBVIOUS
<1>. HIDE DEF f
<1>3. \E m \in T : \A t \in T : f[t] <= f[m]
  BY <1>1, LargestOf
<1>. QED BY <1>2, <1>3

After(kept, r) == {q \in kept : q.at > r.at}

\* Finitely many rows, each with a time.
Timed(kept) == IsFiniteSet(kept) /\ \A r \in kept : r.at \in 0 .. MaxRows

\* What is later than a row.
LEMMA AfterFacts ==
    ASSUME NEW A, Timed(A), NEW r, r.at \in 0 .. MaxRows
    PROVE  /\ IsFiniteSet(After(A, r)) /\ Cardinality(After(A, r)) \in Nat
           /\ \A B \in SUBSET A : /\ IsFiniteSet(After(B, r)) /\ Cardinality(After(B, r)) \in Nat
                                  /\ Cardinality(After(B, r)) <= Cardinality(After(A, r))
<1>1. After(A, r) \subseteq A
  BY DEF After
<1>2. IsFiniteSet(After(A, r)) /\ Cardinality(After(A, r)) \in Nat
  BY <1>1, FS_Subset, FS_CardinalityType DEF Timed
<1>3. ASSUME NEW B \in SUBSET A
      PROVE  /\ IsFiniteSet(After(B, r)) /\ Cardinality(After(B, r)) \in Nat
             /\ Cardinality(After(B, r)) <= Cardinality(After(A, r))
  <2>1. After(B, r) \in SUBSET After(A, r)
    BY DEF After
  <2>. QED BY <1>2, <2>1, FS_Subset, FS_CardinalityType
<1>. QED BY <1>2, <1>3

\* A row is among the latest when few are later.
LEMMA LatestIs ==
    ASSUME NEW A, NEW n
    PROVE  /\ Latest(A, n) \subseteq A
           /\ \A r \in A : r \in Latest(A, n) <=> Cardinality(After(A, r)) < n
BY DEF Latest, After

\* What is later than one of the latest is one of them.
LEMMA LatestIsGapless ==
    ASSUME NEW A, Timed(A), NEW n \in Nat, NEW r \in Latest(A, n), NEW q \in A, q.at > r.at
    PROVE  q \in Latest(A, n)
<1>1. r \in A /\ Cardinality(After(A, r)) < n
  BY LatestIs
<1>2. After(A, q) \subseteq After(A, r)
  BY <1>1 DEF After, Timed
<1>3. IsFiniteSet(After(A, r)) /\ Cardinality(After(A, r)) \in Nat
  BY <1>1, AfterFacts DEF Timed
<1>4. Cardinality(After(A, q)) <= Cardinality(After(A, r)) /\ Cardinality(After(A, q)) \in Nat
  BY <1>2, <1>3, FS_Subset, FS_CardinalityType
<1>. QED BY <1>1, <1>3, <1>4, LatestIs

\* So what is later than one of the latest is the same in the list.
LEMMA AfterInLatest ==
    ASSUME NEW A, Timed(A), NEW n \in Nat, NEW r \in Latest(A, n)
    PROVE  After(Latest(A, n), r) = After(A, r)
<1>1. \A q \in A : q.at > r.at => q \in Latest(A, n)
  BY LatestIsGapless
<1>. QED BY <1>1, LatestIs DEF After

\* No more rows than are taken are all taken.
LEMMA LatestIsAll ==
    ASSUME NEW A, Timed(A), NEW n \in Nat, Cardinality(A) <= n
    PROVE  Latest(A, n) = A
<1>1. ASSUME NEW r \in A PROVE Cardinality(After(A, r)) < n
  <2>1. After(A, r) \subseteq A /\ r \notin After(A, r)
    BY DEF After, Timed
  <2>2. /\ Cardinality(After(A, r)) <= Cardinality(A) /\ Cardinality(After(A, r)) # Cardinality(A)
        /\ Cardinality(After(A, r)) \in Nat /\ Cardinality(A) \in Nat
    BY <2>1, FS_Subset, FS_CardinalityType DEF Timed
  <2>. QED BY <2>2
<1>. QED BY <1>1, LatestIs

\* Of some rows one is always taken.
LEMMA LatestIsSome ==
    ASSUME NEW A, Timed(A), A # {}, NEW n \in Nat \ {0}
    PROVE  Latest(A, n) # {}
<1>1. PICK m \in A : \A t \in A : t.at <= m.at
  BY LastOf, ReadAssumption DEF Timed
<1>2. After(A, m) = {}
  BY <1>1 DEF After, Timed
<1>. QED BY <1>2, LatestIs, FS_EmptySet

\* To take from what was taken is to take.
LEMMA LatestTwice ==
    ASSUME NEW A, Timed(A), NEW n \in Nat, NEW k \in Nat, k <= n
    PROVE  Latest(Latest(A, n), k) = Latest(A, k)
<1>1. \A r \in Latest(A, n) : After(Latest(A, n), r) = After(A, r)
  BY AfterInLatest
<1>2. \A r \in A : Cardinality(After(A, r)) \in Nat
  BY AfterFacts DEF Timed
<1>3. Latest(A, k) \subseteq Latest(A, n)
  BY <1>2, LatestIs
<1>4. \A r \in Latest(A, n) : r \in Latest(Latest(A, n), k) <=> Cardinality(After(A, r)) < k
  BY <1>1, LatestIs
<1>. QED BY <1>3, <1>4, LatestIs

\* A row is no later than any that was left out, or as many as are taken are later.
LEMMA LatestLeavesOut ==
    ASSUME NEW A, Timed(A), NEW n \in Nat, NEW q \in A, q \notin Latest(A, n)
    PROVE  \E B \in SUBSET Latest(A, n) : Cardinality(B) >= n /\ \A b \in B : b.at > q.at
<1>. DEFINE out == A \ Latest(A, n)
<1>1. \A r \in out : r.at \in 0 .. MaxRows
  BY DEF Timed
<1>2. PICK m \in out : \A t \in out : t.at <= m.at
  <2>1. out # {} /\ MaxRows \in Nat
    BY ReadAssumption
  <2>. HIDE DEF out
  <2>. QED BY <1>1, <2>1, LastOf
<1>3. ~(Cardinality(After(A, m)) < n) /\ Cardinality(After(A, m)) \in Nat
  BY LatestIs, AfterFacts DEF Timed
<1>4. After(A, m) \subseteq Latest(A, n)
  BY <1>2 DEF After, Timed
<1>5. \A b \in After(A, m) : b.at > q.at
  BY <1>2 DEF After, Timed
<1>. QED BY <1>3, <1>4, <1>5

\* To merge what was taken of each loses nothing.
LEMMA LatestMerged ==
    ASSUME NEW A, Timed(A), NEW B, Timed(B), NEW n \in Nat
    PROVE  Latest(Latest(A, n) \cup Latest(B, n), n) = Latest(A \cup B, n)
<1>. DEFINE L == Latest(A, n) \cup Latest(B, n)
            C == A \cup B
<1>1. Timed(C) /\ Timed(L) /\ L \subseteq C
  <2>1. Latest(A, n) \subseteq A /\ Latest(B, n) \subseteq B
    BY LatestIs
  <2>2. IsFiniteSet(C)
    BY FS_Union DEF Timed
  <2>3. IsFiniteSet(L)
    BY <2>1, <2>2, FS_Subset
  <2>. QED BY <2>1, <2>2, <2>3 DEF Timed
<1>2. \A r \in C : After(A, r) \subseteq After(C, r) /\ After(B, r) \subseteq After(C, r)
  BY DEF After
<1>3. \A r \in C : /\ r.at \in 0 .. MaxRows /\ Cardinality(After(C, r)) \in Nat
                   /\ Cardinality(After(L, r)) \in Nat /\ IsFiniteSet(After(L, r))
                   /\ Cardinality(After(A, r)) <= Cardinality(After(C, r)) /\ Cardinality(After(A, r)) \in Nat
                   /\ Cardinality(After(B, r)) <= Cardinality(After(C, r)) /\ Cardinality(After(B, r)) \in Nat
                   /\ Cardinality(After(L, r)) <= Cardinality(After(C, r))
  <2>. SUFFICES ASSUME NEW r \in C
       PROVE  /\ r.at \in 0 .. MaxRows /\ Cardinality(After(C, r)) \in Nat
              /\ Cardinality(After(L, r)) \in Nat /\ IsFiniteSet(After(L, r))
              /\ Cardinality(After(A, r)) <= Cardinality(After(C, r)) /\ Cardinality(After(A, r)) \in Nat
              /\ Cardinality(After(B, r)) <= Cardinality(After(C, r)) /\ Cardinality(After(B, r)) \in Nat
              /\ Cardinality(After(L, r)) <= Cardinality(After(C, r))
    OBVIOUS
  <2>1. r.at \in 0 .. MaxRows
    BY <1>1 DEF Timed
  <2>2. A \in SUBSET C /\ B \in SUBSET C /\ L \in SUBSET C
    BY <1>1
  <2>. HIDE DEF L, C
  <2>. QED BY <1>1, <2>1, <2>2, AfterFacts
<1>4. ASSUME NEW r \in Latest(C, n) PROVE r \in Latest(L, n)
  <2>1. r \in C /\ Cardinality(After(C, r)) < n
    <3>. HIDE DEF C
    <3>. QED BY LatestIs
  <2>2. /\ Cardinality(After(A, r)) < n /\ Cardinality(After(B, r)) < n
        /\ Cardinality(After(L, r)) < n
    <3>. HIDE DEF C, L
    <3>. QED BY <1>3, <2>1
  <2>3. r \in L
    BY <2>1, <2>2, LatestIs
  <2>. HIDE DEF L
  <2>. QED BY <2>2, <2>3, LatestIs
<1>5. ASSUME NEW r \in Latest(L, n) PROVE r \in Latest(C, n)
  <2>1. r \in L /\ r \in C /\ Cardinality(After(L, r)) < n
    BY <1>1, LatestIs
  <2>2. ASSUME NEW D, Timed(D), D \subseteq C, Latest(D, n) \subseteq L, NEW q \in D, q.at > r.at
        PROVE  q \in Latest(D, n)
    <3>. SUFFICES ASSUME q \notin Latest(D, n) PROVE FALSE
      OBVIOUS
    <3>1. PICK E \in SUBSET Latest(D, n) : Cardinality(E) >= n /\ \A b \in E : b.at > q.at
      BY <2>2, LatestLeavesOut
    <3>2. E \subseteq After(L, r)
      <4>1. E \subseteq L /\ E \subseteq C
        BY <1>1, <2>2, <3>1
      <4>2. \A b \in E : b.at > r.at
        BY <1>3, <2>1, <2>2, <3>1, <4>1
      <4>. QED BY <4>1, <4>2 DEF After
    <3>3. Cardinality(E) <= Cardinality(After(L, r)) /\ Cardinality(E) \in Nat
      BY <1>3, <2>1, <3>2, FS_Subset, FS_CardinalityType
    <3>. QED BY <1>3, <2>1, <3>1, <3>3
  <2>3. A \subseteq C /\ B \subseteq C /\ Latest(A, n) \subseteq L /\ Latest(B, n) \subseteq L
    OBVIOUS
  <2>4. After(C, r) = After(L, r)
    <3>1. \A q \in A : q.at > r.at => q \in Latest(A, n)
      BY <2>2, <2>3
    <3>2. \A q \in B : q.at > r.at => q \in Latest(B, n)
      BY <2>2, <2>3
    <3>. QED BY <1>1, <3>1, <3>2 DEF After
  <2>. QED BY <2>1, <2>4, LatestIs
<1>. QED BY <1>4, <1>5

\* At first there is no row.
LEMMA ReadStart == ReadInit => ReadInv
<1>. SUFFICES ASSUME ReadInit PROVE ReadInv
  OBVIOUS
<1>1. ReadTypeOK
  BY ReadAssumption DEF ReadInit, ReadTypeOK
<1>2. IsFiniteSet({})
  BY FS_EmptySet
<1>. QED BY <1>1, <1>2 DEF ReadInit, ReadInv

\* A row that is added is later than all others.
LEMMA RowAdded ==
    ASSUME NEW kept, IsFiniteSet(kept), \A r \in kept : r.at <= clock, NEW row, row.at = Now,
           clock \in Nat, \A r \in kept : r.at \in Nat
    PROVE  /\ IsFiniteSet(kept \cup {row}) /\ row \notin kept
           /\ \A r \in kept \cup {row} : r.at <= Now
<1>1. row \notin kept
  BY DEF Now
<1>2. \A r \in kept \cup {row} : r.at <= Now
  BY DEF Now
<1>. QED BY <1>1, <1>2, FS_AddElement

\* Every row that is written keeps it.
LEMMA ReadStep == ReadInv /\ [ReadNext]_readVars => ReadInv'
<1>. SUFFICES ASSUME ReadInv, [ReadNext]_readVars PROVE ReadInv'
  OBVIOUS
<1>1. /\ ReadTypeOK /\ clock \in Nat /\ clock <= MaxRows /\ MaxRows \in Nat
      /\ \A kept \in {labSessions, completions, submissions, earned} :
            IsFiniteSet(kept) /\ \A r \in kept : r.at \in Nat /\ r.at <= clock /\ r.at <= Now
      /\ \A s \in labSessions : s \in SessionRow /\ s.end \in Nat /\ s.end <= clock /\ s.end <= Now
      /\ \A s, t \in labSessions : s.at = t.at => s = t
      /\ completions \cap submissions = {}
  BY ReadAssumption DEF ReadInv, ReadTypeOK, Now, RowOf, SessionRow
<1>2. CASE UNCHANGED readVars
  BY <1>2 DEF ReadInv, ReadTypeOK, readVars
<1>3. ASSUME NEW u \in Reader, NEW c \in Topic, Start(u, c) PROVE ReadInv'
  <2>. DEFINE row == [at |-> Now, by |-> u, of |-> c, status |-> "RUNNING", end |-> 0]
  <2>1. /\ clock' = Now /\ clock < MaxRows /\ labSessions' = labSessions \cup {row}
        /\ UNCHANGED <<completions, earned, submissions, follows, orgOf>>
    BY <1>3 DEF Start, Tick
  <2>2. row \in SessionRow /\ row.at = Now /\ row.end = 0
    BY <1>1, <2>1 DEF SessionRow, Now
  <2>. HIDE DEF row
  <2>3. /\ IsFiniteSet(labSessions') /\ \A r \in labSessions' : r.at <= Now
        /\ \A s \in labSessions : s.at # row.at
    <3>1. \A s \in labSessions : s.at # row.at
      BY <1>1, <2>2 DEF Now
    <3>. QED BY <1>1, <2>1, <2>2, <3>1, RowAdded
  <2>4. ReadTypeOK'
    BY <1>1, <2>1, <2>2 DEF ReadTypeOK, Now
  <2>5. \A s \in labSessions' : s.end <= Now
    BY <1>1, <2>1, <2>2 DEF Now
  <2>6. \A s, t \in labSessions' : s.at = t.at => s = t
    BY <1>1, <2>1, <2>3
  <2>. QED BY <1>1, <2>1, <2>3, <2>4, <2>5, <2>6 DEF ReadInv
<1>4. ASSUME NEW s \in labSessions, End(s) PROVE ReadInv'
  <2>1. PICK st \in {"COMPLETED", "EXPIRED"} :
           labSessions' = (labSessions \ {s}) \cup {[s EXCEPT !.status = st, !.end = Now]}
    BY <1>4 DEF End
  <2>. DEFINE row == [s EXCEPT !.status = st, !.end = Now]
  <2>2. /\ clock' = Now /\ clock < MaxRows
        /\ UNCHANGED <<completions, earned, submissions, follows, orgOf>>
    BY <1>4 DEF End, Tick
  <2>3. row \in SessionRow /\ row.at = s.at /\ row.end = Now
    <3>1. s \in SessionRow /\ st \in {"RUNNING", "COMPLETED", "EXPIRED"}
      BY <1>1
    <3>2. Now \in 0 .. MaxRows
      BY <1>1, <2>2 DEF Now
    <3>. DEFINE mid == [s EXCEPT !.status = st]
    <3>3. mid \in SessionRow /\ mid.at = s.at
      BY <3>1 DEF SessionRow
    <3>4. row = [mid EXCEPT !.end = Now]
      OBVIOUS
    <3>. HIDE DEF row, mid
    <3>. QED BY <3>2, <3>3, <3>4 DEF SessionRow
  <2>4. labSessions' = (labSessions \ {s}) \cup {row}
    BY <2>1
  <2>. HIDE DEF row
  <2>5. IsFiniteSet(labSessions')
    BY <1>1, <2>4, FS_AddElement, FS_RemoveElement
  <2>6. ReadTypeOK'
    BY <1>1, <2>2, <2>3, <2>4 DEF ReadTypeOK, Now
  <2>7. \A r \in labSessions' : r.end <= Now /\ r.at <= Now
    BY <1>1, <2>3, <2>4 DEF Now
  <2>8. \A r, t \in labSessions' : r.at = t.at => r = t
    BY <1>1, <2>3, <2>4
  <2>. QED BY <1>1, <2>2, <2>5, <2>6, <2>7, <2>8 DEF ReadInv
<1>5. ASSUME NEW u \in Reader, NEW c \in Topic, WriteCompletion(u, c) PROVE ReadInv'
  <2>. DEFINE row == [at |-> Now, by |-> u, of |-> c]
  <2>1. /\ clock' = Now /\ clock < MaxRows /\ completions' = completions \cup {row}
        /\ UNCHANGED <<labSessions, earned, submissions, follows, orgOf>>
    BY <1>5 DEF WriteCompletion, Tick
  <2>2. row \in RowOf /\ row.at = Now
    BY <1>1, <2>1 DEF RowOf, Now
  <2>. HIDE DEF row
  <2>3. IsFiniteSet(completions') /\ \A r \in completions' : r.at <= Now
    BY <1>1, <2>1, <2>2, RowAdded
  <2>4. row \notin submissions
    BY <1>1, <2>2 DEF Now
  <2>5. ReadTypeOK'
    BY <1>1, <2>1, <2>2 DEF ReadTypeOK, Now
  <2>. QED BY <1>1, <2>1, <2>3, <2>4, <2>5 DEF ReadInv
<1>6. ASSUME NEW u \in Reader, NEW c \in Topic, WriteSubmission(u, c) PROVE ReadInv'
  <2>. DEFINE row == [at |-> Now, by |-> u, of |-> c]
  <2>1. /\ clock' = Now /\ clock < MaxRows /\ submissions' = submissions \cup {row}
        /\ UNCHANGED <<labSessions, completions, earned, follows, orgOf>>
    BY <1>6 DEF WriteSubmission, Tick
  <2>2. row \in RowOf /\ row.at = Now
    BY <1>1, <2>1 DEF RowOf, Now
  <2>. HIDE DEF row
  <2>3. IsFiniteSet(submissions') /\ \A r \in submissions' : r.at <= Now
    BY <1>1, <2>1, <2>2, RowAdded
  <2>4. row \notin completions
    BY <1>1, <2>2 DEF Now
  <2>5. ReadTypeOK'
    BY <1>1, <2>1, <2>2 DEF ReadTypeOK, Now
  <2>. QED BY <1>1, <2>1, <2>3, <2>4, <2>5 DEF ReadInv
<1>7. ASSUME NEW u \in Reader, Earn(u) PROVE ReadInv'
  <2>. DEFINE row == [at |-> Now, by |-> u]
  <2>1. /\ clock' = Now /\ clock < MaxRows /\ earned' = earned \cup {row}
        /\ UNCHANGED <<labSessions, completions, submissions, follows, orgOf>>
    BY <1>7 DEF Earn, Tick
  <2>2. row \in [at: 1 .. MaxRows, by: Reader] /\ row.at = Now
    BY <1>1, <2>1 DEF Now
  <2>. HIDE DEF row
  <2>3. IsFiniteSet(earned') /\ \A r \in earned' : r.at <= Now
    BY <1>1, <2>1, <2>2, RowAdded
  <2>5. ReadTypeOK'
    BY <1>1, <2>1, <2>2 DEF ReadTypeOK, Now
  <2>. QED BY <1>1, <2>1, <2>3, <2>5 DEF ReadInv
<1>. QED BY <1>2, <1>3, <1>4, <1>5, <1>6, <1>7 DEF ReadNext

\* The rows as what is cut off.
LEMMA RowsTimed ==
    ASSUME ReadInv, NEW kept \in {labSessions, completions, submissions, earned}, NEW u
    PROVE  Timed(kept) /\ Timed(By(kept, u)) /\ By(kept, u) \subseteq kept
<1>1. IsFiniteSet(kept) /\ \A r \in kept : r.at \in 0 .. MaxRows
  BY ReadAssumption DEF ReadInv, ReadTypeOK, RowOf, SessionRow
<1>2. By(kept, u) \subseteq kept
  BY DEF By
<1>. QED BY <1>1, <1>2, FS_Subset DEF Timed

\* The time of the rows' subsets.
LEMMA TimedSubset ==
    ASSUME NEW A, Timed(A), NEW B \in SUBSET A
    PROVE  Timed(B)
BY FS_Subset DEF Timed

-----------------------------------------------------------------------------
(* Shares                                                                   *)

\* A share is 100 percent from 99.5 on.
LEMMA WholeShare ==
    ASSUME NEW total \in Nat, NEW done \in 0 .. total
    PROVE  AssignmentStatus(done, total) = "COMPLETED" <=>
                total > 0 /\ 200 * (total - done) <= total
<1>1. AssignmentStatus(done, total) = "COMPLETED" <=> Percentage(done, total) = 100
  BY DEF AssignmentStatus
<1>2. CASE total = 0
  BY <1>1, <1>2 DEF Percentage
<1>3. CASE total > 0
  <2>. DEFINE a == 200 * done + total
              b == 2 * total
              q == a \div b
  <2>1. a \in Nat /\ b \in Nat \ {0}
    BY <1>3
  <2>2. q \in Int /\ b * q <= a /\ a < b * (q + 1)
    <3>. HIDE DEF a, b
    <3>. QED BY <2>1
  <2>3. q = 100 <=> 100 * b <= a /\ a < 101 * b
    <3>. HIDE DEF a, b, q
    <3>. QED BY <2>1, <2>2
  <2>4. a < 101 * b
    BY <1>3
  <2>. QED BY <1>1, <1>3, <2>3, <2>4 DEF Percentage
<1>. QED BY <1>2, <1>3

\* A path is whole when everything of it is solved, and is not called so otherwise while it
\* has less than 200 challenges.
LEMMA CellIs ==
    ASSUME ReadInv, NEW u \in Reader, NEW p \in Course
    PROVE  LET whole == NodesOf[p] # {} /\ RoadmapProgress(u, p) = NodesOf[p] IN
           /\ whole => MatrixCell(u, p) = "COMPLETED"
           /\ p \in Fine /\ MatrixCell(u, p) = "COMPLETED" => whole
<1>. DEFINE N == NodesOf[p]
            P == RoadmapProgress(u, p)
<1>1. P \subseteq N /\ N \subseteq Topic
  BY ReadAssumption DEF RoadmapProgress
<1>2. IsFiniteSet(N) /\ IsFiniteSet(P)
  BY <1>1, FS_Subset, ReadAssumption
<1>. HIDE DEF N, P
<1>3. /\ Cardinality(N) \in Nat /\ Cardinality(P) \in 0 .. Cardinality(N)
      /\ Cardinality(P) = Cardinality(N) => P = N
      /\ Cardinality(N) = 0 <=> N = {}
  BY <1>1, <1>2, FS_Subset, FS_CardinalityType, FS_EmptySet
<1>4. MatrixCell(u, p) = "COMPLETED" <=>
         Cardinality(N) > 0 /\ 200 * (Cardinality(N) - Cardinality(P)) <= Cardinality(N)
  BY <1>3, WholeShare DEF MatrixCell, N, P
<1>5. p \in Fine <=> Cardinality(N) < 200
  BY DEF Fine, N
<1>. QED BY <1>3, <1>4, <1>5 DEF N, P

\* The matrix tells what is solved, up to its rounding.
LEMMA MatrixHolds == ReadInv => MatrixIsExact
<1>. SUFFICES ASSUME ReadInv PROVE MatrixIsExact
  OBVIOUS
<1>1. NotRoundedUp
  <2>1. \A total \in 1 .. 199 : \A done \in 0 .. total - 1 : AssignmentStatus(done, total) # "COMPLETED"
    <3>. TAKE total \in 1 .. 199
    <3>. TAKE done \in 0 .. total - 1
    <3>. QED BY WholeShare
  <2>2. AssignmentStatus(199, 200) = "COMPLETED"
    BY WholeShare
  <2>. QED BY <2>1, <2>2 DEF NotRoundedUp
<1>. QED BY <1>1, CellIs DEF MatrixIsExact

-----------------------------------------------------------------------------
(* The dashboard and the lists                                              *)

\* Enough completions are read, or too few paths are counted, never too many.
LEMMA RoadmapsHold == ReadInv => RoadmapsAreCounted
<1>. SUFFICES ASSUME ReadInv, NEW u \in Reader
     PROVE  /\ \A p \in RoadmapsCompleted(u) : MatrixCell(u, p) = "COMPLETED"
            /\ Cardinality(By(completions, u)) <= TakeRecent =>
                  \A p \in Fine : MatrixCell(u, p) = "COMPLETED" => p \in RoadmapsCompleted(u)
  BY DEF RoadmapsAreCounted, RoadmapsCompleted, Fine
<1>1. /\ Timed(By(completions, u)) /\ TakeRecent \in Nat
      /\ RecentCompletions(u) \subseteq By(completions, u)
  BY RowsTimed, LatestIs, ReadAssumption DEF RecentCompletions
<1>2. ASSUME NEW p \in RoadmapsCompleted(u) PROVE MatrixCell(u, p) = "COMPLETED"
  <2>1. p \in Course /\ NodesOf[p] # {} /\ NodesOf[p] \subseteq Nodes(RecentCompletions(u))
    BY DEF RoadmapsCompleted
  <2>2. NodesOf[p] \subseteq Nodes(By(completions, u))
    BY <1>1, <2>1 DEF Nodes
  <2>. QED BY <2>1, <2>2, CellIs DEF RoadmapProgress
<1>3. ASSUME Cardinality(By(completions, u)) <= TakeRecent, NEW p \in Fine,
             MatrixCell(u, p) = "COMPLETED"
      PROVE  p \in RoadmapsCompleted(u)
  <2>1. RecentCompletions(u) = By(completions, u)
    BY <1>1, <1>3, LatestIsAll DEF RecentCompletions
  <2>2. p \in Course /\ NodesOf[p] # {} /\ RoadmapProgress(u, p) = NodesOf[p]
    BY <1>3, CellIs DEF Fine
  <2>. QED BY <2>1, <2>2 DEF RoadmapsCompleted, RoadmapProgress
<1>. QED BY <1>2, <1>3

\* The first of a challenge among the latest is its first of all.
LEMMA FirstOfLatest ==
    ASSUME NEW A, Timed(A), NEW n \in Nat
    PROVE  FirstOfEach(Latest(A, n)) \subseteq FirstOfEach(A)
<1>. SUFFICES ASSUME NEW s \in FirstOfEach(Latest(A, n)), NEW q \in A, q.of = s.of, ~(q.at <= s.at)
     PROVE FALSE
  BY LatestIs DEF FirstOfEach
<1>1. s \in Latest(A, n) /\ s \in A
  BY LatestIs DEF FirstOfEach
<1>2. q.at > s.at
  BY <1>1 DEF Timed
<1>3. q \in Latest(A, n)
  BY <1>1, <1>2, LatestIsGapless
<1>. QED BY <1>3 DEF FirstOfEach

\* What to resume is the last of the sessions that are read, which are the last of all.
LEMMA ResumeHolds == ReadInv => ResumesTheLast
<1>. DEFINE open(u) == {s \in FirstOfEach(By(labSessions, u)) : s.status # "COMPLETED"}
<1>. SUFFICES ASSUME ReadInv, NEW u \in Reader
     PROVE  /\ Nodes(InProgress(u)) \subseteq Nodes(open(u))
            /\ Cardinality(By(labSessions, u)) <= TakeSessions /\ open(u) # {} =>
                 RecommendedNext(u) = Nodes(Latest(open(u), 1))
  BY DEF ResumesTheLast
<1>. DEFINE S == By(labSessions, u)
            recent == FirstOfEach(Latest(S, TakeSessions))
            listed == {s \in recent : s.status # "COMPLETED"}
<1>1. Timed(S) /\ TakeSessions \in Nat /\ TakeShown \in Nat \ {0}
  BY RowsTimed, ReadAssumption
<1>2. InProgress(u) = Latest(listed, TakeShown) /\ InProgress(u) \subseteq listed
  BY LatestIs DEF InProgress
<1>3. listed \subseteq open(u)
  <2>1. recent \subseteq FirstOfEach(S)
    <3>. HIDE DEF S
    <3>. QED BY <1>1, FirstOfLatest
  <2>. QED BY <2>1
<1>4. ASSUME Cardinality(S) <= TakeSessions, open(u) # {}
      PROVE  RecommendedNext(u) = Nodes(Latest(open(u), 1))
  <2>1. listed = open(u)
    <3>1. Latest(S, TakeSessions) = S
      <4>. HIDE DEF S
      <4>. QED BY <1>1, <1>4, LatestIsAll
    <3>. QED BY <3>1
  <2>2. Timed(open(u))
    <3>1. open(u) \subseteq S
      BY DEF FirstOfEach
    <3>. HIDE DEF S, open
    <3>. QED BY <1>1, <3>1, TimedSubset
  <2>. HIDE DEF open, listed, recent, S
  <2>3. Latest(InProgress(u), 1) = Latest(open(u), 1)
    BY <1>1, <1>2, <2>1, <2>2, LatestTwice
  <2>4. InProgress(u) # {}
    BY <1>1, <1>2, <1>4, <2>1, <2>2, LatestIsSome
  <2>. QED BY <2>3, <2>4 DEF RecommendedNext
<1>5. Nodes(InProgress(u)) \subseteq Nodes(open(u))
  <2>. HIDE DEF open, listed
  <2>. QED BY <1>2, <1>3 DEF Nodes
<1>. QED BY <1>4, <1>5

\* The solved sessions as entries of a feed, of whoever is followed.
LEMMA SolvedTimed ==
    ASSUME ReadInv, NEW V
    PROVE  Timed(UNION {SolvedBy(v) : v \in V})
<1>. DEFINE T == {t \in labSessions : t.status = "COMPLETED" /\ t.by \in V}
            solved == UNION {SolvedBy(v) : v \in V}
            f == [t \in T |-> [at |-> t.end, by |-> t.by]]
<1>1. \A r \in solved : \E t \in T : r = f[t]
  BY DEF SolvedBy, By
<1>2. \A t \in T : f[t] \in solved
  BY DEF SolvedBy, By
<1>3. \A t \in T : t.end \in 0 .. MaxRows /\ f[t].at = t.end
  BY DEF ReadInv, ReadTypeOK, SessionRow
<1>4. IsFiniteSet(T)
  BY FS_Subset DEF ReadInv
<1>5. f \in [T -> solved]
  BY <1>2
<1>. HIDE DEF T, f, solved
<1>6. f \in Surjection(T, solved)
  BY <1>1, <1>5 DEF Surjection
<1>7. IsFiniteSet(solved)
  BY <1>4, <1>6, FS_Surjection
<1>. QED BY <1>1, <1>3, <1>7 DEF Timed, solved

\* A feed is cut off once for each kind and once again, a history for each kind.
LEMMA ListsHold == ReadInv => ListsAreLatest
<1>. SUFFICES ASSUME ReadInv, NEW u \in Reader
     PROVE  /\ Feed(u) = Latest(UNION {SolvedBy(v) \cup By(earned, v) : v \in Followed(u)}, TakeHistory)
            /\ \A r \in History(u), kind \in {completions, submissions} :
                  r \in kind => \A q \in By(kind, u) : q.at > r.at => q \in History(u)
  BY DEF ListsAreLatest
<1>0. TakeHistory \in Nat
  BY ReadAssumption
<1>1. Feed(u) = Latest(UNION {SolvedBy(v) \cup By(earned, v) : v \in Followed(u)}, TakeHistory)
  <2>. DEFINE solved == UNION {SolvedBy(v) : v \in Followed(u)}
              badges == {b \in earned : b.by \in Followed(u)}
  <2>1. Timed(solved)
    BY SolvedTimed
  <2>2. Timed(badges)
    <3>1. badges \in SUBSET earned /\ Timed(earned)
      BY RowsTimed
    <3>. QED BY <3>1, TimedSubset
  <2>3. UNION {SolvedBy(v) \cup By(earned, v) : v \in Followed(u)} = solved \cup badges
    BY DEF By
  <2>4. Feed(u) = Latest(Latest(solved, TakeHistory) \cup Latest(badges, TakeHistory), TakeHistory)
    BY DEF Feed
  <2>. HIDE DEF solved, badges
  <2>. QED BY <1>0, <2>1, <2>2, <2>3, <2>4, LatestMerged
<1>2. ASSUME NEW r \in History(u), NEW kind \in {completions, submissions}, r \in kind,
             NEW q \in By(kind, u), q.at > r.at
      PROVE  q \in History(u)
  <2>1. Timed(By(kind, u)) /\ By(kind, u) \subseteq kind
    BY RowsTimed
  <2>2. r \in Latest(By(kind, u), TakeHistory)
    <3>1. /\ Latest(By(completions, u), TakeHistory) \subseteq completions
          /\ Latest(By(submissions, u), TakeHistory) \subseteq submissions
      BY LatestIs, RowsTimed
    <3>2. completions \cap submissions = {}
      BY DEF ReadInv
    <3>. QED BY <1>2, <3>1, <3>2 DEF History
  <2>3. q \in Latest(By(kind, u), TakeHistory)
    BY <1>0, <1>2, <2>1, <2>2, LatestIsGapless
  <2>. QED BY <2>3 DEF History
<1>. QED BY <1>1, <1>2

\* Each challenge of a list has a first row.
LEMMA FirstExists ==
    ASSUME NEW A, Timed(A)
    PROVE  Nodes(FirstOfEach(A)) = Nodes(A)
<1>1. FirstOfEach(A) \subseteq A
  BY DEF FirstOfEach
<1>2. ASSUME NEW x \in A PROVE \E m \in FirstOfEach(A) : m.of = x.of
  <2>. DEFINE same == {y \in A : y.of = x.of}
  <2>1. same # {} /\ \A y \in same : y.at \in 0 .. MaxRows
    BY <1>2 DEF Timed
  <2>2. PICK m \in same : \A y \in same : y.at <= m.at
    <3>. HIDE DEF same
    <3>. QED BY <2>1, LastOf, ReadAssumption
  <2>. QED BY <2>2 DEF FirstOfEach
<1>. QED BY <1>1, <1>2 DEF Nodes

\* Two sessions have two times.
LEMMA ProfileHolds == ReadInv => ProfileIsOnce
<1>. DEFINE solved(u) == {x \in By(labSessions, u) : x.status = "COMPLETED"}
<1>. SUFFICES ASSUME ReadInv, NEW u \in Reader
     PROVE  /\ \A s, t \in Profile(u) : s.of = t.of => s = t
            /\ Nodes(Profile(u)) = Nodes(Latest(solved(u), TakeSessions))
  BY DEF ProfileIsOnce
<1>1. /\ Latest(solved(u), TakeSessions) \subseteq solved(u) /\ solved(u) \subseteq By(labSessions, u)
      /\ By(labSessions, u) \subseteq labSessions
  BY LatestIs DEF By
<1>2. Profile(u) = FirstOfEach(Latest(solved(u), TakeSessions))
  BY DEF Profile
<1>3. ASSUME NEW s \in Profile(u), NEW t \in Profile(u), s.of = t.of PROVE s = t
  <2>1. s \in labSessions /\ t \in labSessions
    BY <1>1, <1>2 DEF FirstOfEach
  <2>2. s.at <= t.at /\ t.at <= s.at
    BY <1>2, <1>3 DEF FirstOfEach
  <2>. QED BY <2>1, <2>2 DEF ReadInv, ReadTypeOK, SessionRow
<1>4. Timed(Latest(solved(u), TakeSessions))
  <2>. HIDE DEF solved
  <2>. QED BY <1>1, RowsTimed, TimedSubset
<1>. QED BY <1>2, <1>3, <1>4, FirstExists

-----------------------------------------------------------------------------
(* The boards                                                               *)

\* Whoever has points is one of finitely many.
LEMMA SolversFinite ==
    ASSUME ReadInv, NEW Q \in SUBSET completions
    PROVE  IsFiniteSet({r.by : r \in Q})
<1>. DEFINE f == [r \in Q |-> r.by]
            T == {r.by : r \in Q}
<1>1. IsFiniteSet(Q)
  BY FS_Subset DEF ReadInv
<1>2. f \in Surjection(Q, T)
  BY DEF Surjection
<1>. HIDE DEF f
<1>. QED BY <1>1, <1>2, FS_Surjection

\* Points are counted, and none are without a completion.
LEMMA XpIs ==
    ASSUME ReadInv
    PROVE  /\ Cardinality(completions) \in Nat
           /\ \A u : /\ Xp(u) \in 0 .. Cardinality(completions)
                     /\ Xp(u) > 0 => u \in {r.by : r \in completions}
<1>1. IsFiniteSet(completions) /\ Cardinality(completions) \in Nat
  BY FS_CardinalityType DEF ReadInv
<1>. SUFFICES ASSUME NEW u
     PROVE  /\ Xp(u) \in 0 .. Cardinality(completions)
            /\ Xp(u) > 0 => u \in {r.by : r \in completions}
  BY <1>1
<1>2. By(completions, u) \subseteq completions
  BY DEF By
<1>3. /\ IsFiniteSet(By(completions, u)) /\ Xp(u) \in Nat /\ Xp(u) <= Cardinality(completions)
  BY <1>1, <1>2, FS_Subset, FS_CardinalityType DEF Xp
<1>4. Xp(u) > 0 => By(completions, u) # {}
  BY <1>3, FS_EmptySet DEF Xp
<1>. QED BY <1>1, <1>3, <1>4 DEF By

\* A public board has fewer to be ranked among, and whoever has most points is on a board.
LEMMA BoardsHold == ReadInv => BoardsAgree
<1>. SUFFICES ASSUME ReadInv PROVE BoardsAgree
  OBVIOUS
<1>1. ASSUME NEW t \in Team, NEW u \in PublicBoard(t)
      PROVE  u \in Roster(t) /\ Rank(Roster(t) \ Private, u) <= Rank(Roster(t), u)
  <2>. DEFINE over(scope) == {v \in scope : Xp(v) > Xp(u)}
  <2>1. u \in Roster(t)
    BY DEF PublicBoard
  <2>2. over(Roster(t)) \subseteq {r.by : r \in completions}
    BY XpIs
  <2>3. IsFiniteSet(over(Roster(t)))
    BY <2>2, SolversFinite, FS_Subset
  <2>4. over(Roster(t) \ Private) \subseteq over(Roster(t))
    OBVIOUS
  <2>5. /\ Rank(Roster(t) \ Private, u) = 1 + Cardinality(over(Roster(t) \ Private))
        /\ Rank(Roster(t), u) = 1 + Cardinality(over(Roster(t)))
    BY DEF Rank
  <2>. HIDE DEF over
  <2>6. /\ Cardinality(over(Roster(t) \ Private)) <= Cardinality(over(Roster(t)))
        /\ Cardinality(over(Roster(t) \ Private)) \in Nat /\ Cardinality(over(Roster(t))) \in Nat
    BY <2>3, <2>4, FS_Subset, FS_CardinalityType
  <2>. QED BY <2>1, <2>5, <2>6
<1>2. ASSUME NEW c \in Topic, CategoryBoard(c) = {}, NEW u \in Reader \ Private,
             c \in Nodes(By(completions, u))
      PROVE  FALSE
  <2>. DEFINE scope == {r.by : r \in {q \in completions : q.of = c}} \ Private
              f == [v \in scope |-> Xp(v)]
  <2>1. u \in scope
    BY <1>2 DEF Nodes, By
  <2>2. f \in [scope -> 0 .. Cardinality(completions)] /\ Cardinality(completions) \in Nat
    BY XpIs
  <2>3. PICK m \in scope : \A v \in scope : f[v] <= f[m]
    <3>. HIDE DEF scope, f
    <3>. QED BY <2>1, <2>2, LargestOf
  <2>4. {v \in scope : Xp(v) > Xp(m)} = {}
    <3>1. \A v \in scope : Xp(v) <= Xp(m)
      BY <2>3
    <3>2. \A v : Xp(v) \in Nat
      BY XpIs
    <3>. QED BY <3>1, <3>2
  <2>5. Rank(scope, m) = 1
    BY <2>4, FS_EmptySet DEF Rank
  <2>6. m \in CategoryBoard(c)
    BY <2>3, <2>5, ReadAssumption DEF CategoryBoard
  <2>. QED BY <1>2, <2>6
<1>. QED BY <1>1, <1>2 DEF BoardsAgree

-----------------------------------------------------------------------------
(* The graph                                                                *)

\* What the prerequisites of a node lead to is closed.
LEMMA AncestorsLead ==
    ASSUME NEW n \in Topic
    PROVE  /\ Ancestors[n] \in SUBSET Topic /\ Leads(n, Ancestors[n])
           /\ \A S \in SUBSET Topic : Leads(n, S) => Ancestors[n] \subseteq S
<1>1. \A m : m \in Ancestors[n] <=> m \in Topic /\ \A S \in SUBSET Topic : Leads(n, S) => m \in S
  BY DEF Ancestors
<1>2. ASSUME NEW m \in Parents(n) PROVE m \in Ancestors[n]
  BY <1>1, <1>2 DEF Leads, Parents
<1>3. ASSUME NEW k \in Ancestors[n], NEW m \in Parents(k) PROVE m \in Ancestors[n]
  <2>1. ASSUME NEW S \in SUBSET Topic, Leads(n, S) PROVE m \in S
    BY <1>1, <2>1 DEF Leads
  <2>. QED BY <1>1, <2>1 DEF Parents
<1>4. Leads(n, Ancestors[n])
  BY <1>2, <1>3 DEF Leads
<1>. QED BY <1>1, <1>4

\* A node's ancestors are its parents and theirs: that set leads to nothing else.
LEMMA AncestorsHold == AncestorsAreClosed
<1>1. ASSUME NEW n \in Topic, NEW m \in Topic
      PROVE  m \in Ancestors[n] <=> m \in Parents(n) \/ \E k \in Parents(n) : m \in Ancestors[k]
  <2>0. Parents(n) \subseteq Topic
    BY DEF Parents
  <2>1. Parents(n) \subseteq Ancestors[n]
    BY AncestorsLead DEF Leads
  <2>2. ASSUME NEW k \in Parents(n) PROVE Ancestors[k] \subseteq Ancestors[n]
    <3>1. k \in Ancestors[n] /\ Leads(n, Ancestors[n]) /\ Ancestors[n] \in SUBSET Topic
      BY <2>1, AncestorsLead
    <3>2. Leads(k, Ancestors[n])
      BY <3>1 DEF Leads
    <3>. QED BY <2>0, <3>1, <3>2, AncestorsLead
  <2>3. ASSUME m \in Ancestors[n]
        PROVE  m \in Parents(n) \/ \E k \in Parents(n) : m \in Ancestors[k]
    <3>. DEFINE S == Parents(n) \cup UNION {Ancestors[k] : k \in Parents(n)}
    <3>1. S \in SUBSET Topic
      BY <2>0, AncestorsLead
    <3>2. ASSUME NEW j \in S PROVE Parents(j) \subseteq S
      <4>1. CASE j \in Parents(n)
        BY <2>0, <4>1, AncestorsLead DEF Leads
      <4>2. CASE \E k \in Parents(n) : j \in Ancestors[k]
        BY <2>0, <4>2, AncestorsLead DEF Leads
      <4>. QED BY <4>1, <4>2
    <3>3. Leads(n, S)
      <4>1. Parents(n) \subseteq S
        OBVIOUS
      <4>. HIDE DEF S
      <4>. QED BY <3>2, <4>1 DEF Leads
    <3>4. m \in S
      <4>. HIDE DEF S
      <4>. QED BY <2>3, <3>1, <3>3, AncestorsLead
    <3>. QED BY <3>4
  <2>. QED BY <2>1, <2>2, <2>3
<1>2. \A n, m \in Topic : m \in Parents(n) <=> n \in Children(m)
  BY DEF Parents, Children
<1>. QED BY <1>1, <1>2 DEF AncestorsAreClosed

\* Of what is left, a node with the fewest ancestors has none that is left.
LEMMA FrontierHolds == ReadInv => FrontierIsOpen
<1>. SUFFICES ASSUME ReadInv, Acyclic, NEW u \in Reader, Nodes(By(completions, u)) # Topic
     PROVE  Frontier(u) # {}
  BY AncestorsHold DEF FrontierIsOpen
<1>. DEFINE done == Nodes(By(completions, u))
            left == Topic \ done
            sets == {Ancestors[n] : n \in left}
<1>1. done \subseteq Topic /\ left # {}
  BY DEF ReadInv, ReadTypeOK, RowOf, Nodes, By
<1>2. sets \subseteq SUBSET Topic /\ sets # {}
  BY <1>1, AncestorsLead
<1>3. IsWellFoundedOn(StrictSubsetOrdering(Topic), SUBSET Topic)
  BY ReadAssumption, FS_StrictSubsetOrderingWellFounded, FS_FiniteSubsetsOfFinite
<1>4. \E w \in sets : \A v \in sets : <<v, w>> \notin StrictSubsetOrdering(Topic)
  <2>. HIDE DEF sets
  <2>. QED BY <1>2, <1>3, WFMin
<1>5. PICK n \in left : \A v \in sets : <<v, Ancestors[n]>> \notin StrictSubsetOrdering(Topic)
  BY <1>4
<1>6. ASSUME NEW m \in Parents(n), m \notin done PROVE FALSE
  <2>1. m \in left /\ Ancestors[m] \in sets
    BY <1>6 DEF Parents
  <2>2. m \in Ancestors[n] /\ Ancestors[m] \subseteq Ancestors[n]
    <3>1. n \in Topic /\ m \in Topic
      BY <2>1
    <3>2. m \in Ancestors[n]
      BY <1>6, <3>1, AncestorsHold DEF AncestorsAreClosed
    <3>3. \A x \in Topic : x \in Ancestors[m] => x \in Ancestors[n]
      BY <1>6, <3>1, AncestorsHold DEF AncestorsAreClosed
    <3>. QED BY <3>1, <3>2, <3>3, AncestorsLead
  <2>3. m \notin Ancestors[m]
    BY <2>1 DEF Acyclic
  <2>4. Ancestors[m] \in SUBSET Topic /\ Ancestors[n] \in SUBSET Topic
    BY <2>1, AncestorsLead
  <2>5. <<Ancestors[m], Ancestors[n]>> \in StrictSubsetOrdering(Topic)
    BY <2>2, <2>3, <2>4 DEF StrictSubsetOrdering
  <2>. QED BY <1>5, <2>1, <2>5
<1>7. n \in Frontier(u)
  BY <1>6 DEF Frontier
<1>. QED BY <1>7

-----------------------------------------------------------------------------
(* What follows                                                             *)

\* The list and the page ask the same, one by listing and one by refusing.
LEMMA ListedHolds == ListedIsOpen
BY DEF ListedIsOpen, Listed, Forbidden

\* What users are told of their rows agrees with them, and the answers with each other, for
\* any number of users, challenges, paths and rows, and wherever the lists are cut off.
THEOREM AnswersCorrect == ReadSpec => []AnswersSound
<1>1. ReadInv => AnswersSound
  BY RoadmapsHold, ResumeHolds, ListsHold, ProfileHolds, ListedHolds, BoardsHold,
     MatrixHolds, FrontierHolds
  DEF AnswersSound, ReadInv
<1>. QED BY <1>1, ReadStart, ReadStep, PTL DEF ReadSpec
=============================================================================
