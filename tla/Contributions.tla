---------------------------- MODULE Contributions ----------------------------
(***************************************************************************)
(* What users contribute in the core service - comments and votes          *)
(* (social/comment.routes.ts), shares (share.routes.ts), lists             *)
(* (content/list.routes.ts), an organization's scenarios and assignments   *)
(* (org.routes.ts) - and what deletes it: its author, or an administrator  *)
(* who deletes a user, an organization or a challenge                      *)
(* (admin/admin.routes.ts), with everything the schema's onDelete says.    *)
(*                                                                         *)
(* A route looks rows up, and then writes one; other requests come between *)
(* the two.  A row has up to three references: whose it is, what it is on  *)
(* and what it is in.                                                      *)
(***************************************************************************)
EXTENDS Integers, FiniteSets

CONSTANTS
    Admin, Someone,   \* the rows of an administrator and of a user,
    Tenant,           \* of an organization,
    Secret, Public,     \* of a challenge it has contributed and of another one,
    Membership,       \* of the user's membership,
    Extra,            \* and rows that may be written
    Writer,           \* who contributes
    Job,              \* requests in progress at a time
    MaxJobs           \* requests

Account == {Admin, Someone}
Lab    == {Secret, Public}
Id     == Account \cup Lab \cup {Tenant, Membership} \cup Extra
Null   == 0

ASSUME ContributionAssumption ==
    /\ Id \subseteq Nat \ {Null} /\ Job \subseteq Nat /\ MaxJobs \in Nat
    /\ Admin # Someone /\ Secret # Public /\ Tenant # Membership
    /\ Account \cap Lab = {} /\ {Tenant, Membership} \cap (Account \cup Lab) = {}
    /\ Extra \cap (Account \cup Lab \cup {Tenant, Membership}) = {}
    /\ Writer \subseteq Account

VARIABLES
    table,    \* id -> row
    admins,   \* User.role = ADMIN
    moved,    \* users whose organization an administrator has set
    fresh,    \* ids no row has had
    job,      \* what a request has found, and will write
    jobs      \* requests so far

contributionVars == <<table, admins, moved, fresh, job, jobs>>

RefKind == {"user", "challenge", "member", "scenario", "assignment", "comment", "vote", "share",
            "list", "item", "session"}
RowKind == RefKind \cup {"none", "org"}

\* The references the schema declares, and what becomes of a row when the row it refers
\* to is deleted.  An assignment's user is a string and no reference.
OnDelete ==
    [k \in RowKind |->
       CASE k \in {"user", "challenge"} -> [by |-> "-", on |-> "-", in |-> "SetNull"]
         [] k = "member"     -> [by |-> "Cascade", on |-> "-", in |-> "Cascade"]
         [] k = "scenario"   -> [by |-> "Restrict", on |-> "-", in |-> "Cascade"]
         [] k = "assignment" -> [by |-> "-", on |-> "-", in |-> "Cascade"]
         [] k = "comment"    -> [by |-> "Cascade", on |-> "Cascade", in |-> "Cascade"]
         [] k = "vote"       -> [by |-> "Cascade", on |-> "Cascade", in |-> "-"]
         [] k = "share"      -> [by |-> "Cascade", on |-> "SetNull", in |-> "-"]
         [] k = "list"       -> [by |-> "Cascade", on |-> "-", in |-> "-"]
         [] k = "item"       -> [by |-> "-", on |-> "Cascade", in |-> "Cascade"]
         [] k = "session"    -> [by |-> "Cascade", on |-> "Restrict", in |-> "-"]
         [] OTHER            -> [by |-> "-", on |-> "-", in |-> "-"]]
Field == {"by", "on", "in"}

Record(kind, by, on, in, val) == [kind |-> kind, by |-> by, on |-> on, in |-> in, val |-> val]
NoRecord == Record("none", Null, Null, Null, 0)

RecordOK(r) ==
    /\ r.kind \in RowKind /\ r.val \in -1 .. 1
    /\ {r.by, r.on, r.in} \subseteq Id \cup {Null}

\* A request is idle, or will insert a row, change a vote, delete a row, or make a user
\* an administrator or none, or of an organization or of none.
NoJob == [pc |-> "idle", row |-> NoRecord, id |-> Null]

ContributionTypeOK ==
    /\ DOMAIN table = Id /\ \A i \in Id : RecordOK(table[i])
    /\ admins \subseteq Account /\ moved \subseteq Account /\ fresh \subseteq Extra
    /\ \A j \in Job : /\ job[j].pc \in {"idle", "insert", "vote", "delete", "role", "home"}
                      /\ job[j].id \in Id \cup {Null} /\ RecordOK(job[j].row)
    /\ jobs \in 0 .. MaxJobs

ContributionInit ==
    /\ table = [i \in Id |->
          CASE i = Tenant     -> Record("org", Null, Null, Null, 0)
            [] i = Admin      -> Record("user", Null, Null, Null, 0)
            [] i = Someone    -> Record("user", Null, Null, Tenant, 0)
            [] i = Secret     -> Record("challenge", Null, Null, Tenant, 0)
            [] i = Public       -> Record("challenge", Null, Null, Null, 0)
            [] i = Membership -> Record("member", Someone, Null, Tenant, 0)
            [] OTHER          -> NoRecord]
    /\ admins = {Admin} /\ moved = {} /\ fresh = Extra
    /\ job = [j \in Job |-> NoJob] /\ jobs = 0

Is(i, kind) == i # Null /\ table[i].kind = kind
There(i)  == table[i].kind # "none"

-----------------------------------------------------------------------------
(* What the database does                                                  *)

\* A row that is the only one of its kind with these references.
UniqueKey(r) ==
    CASE r.kind = "vote"   -> <<r.kind, r.by, r.on>>
      [] r.kind = "list"   -> <<r.kind, r.by, r.val>>
      [] r.kind = "item"   -> <<r.kind, r.in, r.on>>
      [] r.kind = "assignment" -> <<r.kind, r.by, r.in>>
      [] OTHER -> <<"not unique">>

Unique(r) == UniqueKey(r) = <<"not unique">> \/ \A i \in Id : UniqueKey(table[i]) # UniqueKey(r)

\* Every reference is null, or of a row that is there.
Sound(r) == \A f \in Field : r[f] = Null \/ OnDelete[r.kind][f] = "-" \/ There(r[f])

\* A row is written with an id of its own, or refused.
Insert(r) ==
    IF Sound(r) /\ Unique(r)
    THEN \E i \in fresh : /\ \A k \in fresh : i <= k
                          /\ table' = [table EXCEPT ![i] = r]
                          /\ fresh' = fresh \ {i}
    ELSE UNCHANGED <<table, fresh>>

References(policy, S) ==
    {i \in Id : \E f \in Field : OnDelete[table[i].kind][f] = policy /\ table[i][f] \in S}

\* The rows that go with a row: the fewest that no other row goes with.  Users, challenges
\* and organizations go with none.
Cascade(id) ==
    LET sets   == {{id} \cup S : S \in SUBSET (Extra \cup {Membership})}
        closed == {S \in sets : References("Cascade", S) \subseteq S}
    IN  {i \in Id : \A S \in closed : i \in S}

\* What is left of a row when others are gone.
Left(r, gone) ==
    LET kept(f) == IF OnDelete[r.kind][f] = "SetNull" /\ r[f] \in gone THEN Null ELSE r[f]
    IN  Record(r.kind, kept("by"), kept("on"), kept("in"), r.val)

\* The deletion of a row, with those that go with it, unless another one forbids it.
Remove(id) ==
    LET gone == Cascade(id) IN
    IF There(id) /\ References("Restrict", gone) \subseteq gone
    THEN table' = [i \in Id |-> IF i \in gone THEN NoRecord ELSE Left(table[i], gone)]
    ELSE UNCHANGED table

-----------------------------------------------------------------------------
(* Requests: what a route looks up                                         *)

Accepts(j, next) ==
    /\ job[j].pc = "idle" /\ jobs < MaxJobs
    /\ \A k \in Job : k < j => job[k].pc # "idle"
    /\ jobs' = jobs + 1
    /\ job' = [job EXCEPT ![j] = next]
    /\ UNCHANGED <<table, admins, moved, fresh>>

Inserts(r) == [NoJob EXCEPT !.pc = "insert", !.row = r]
Deletes(id) == [NoJob EXCEPT !.pc = "delete", !.id = id]

\* Mutant of PostComment: the parent may be of any challenge.
PostAnywhere(j, u, c, p) ==
    /\ Is(c, "challenge")
    /\ p = Null \/ Is(p, "comment")
    /\ Accepts(j, Inserts(Record("comment", u, c, p, 0)))

\* POST /challenges/:id/comments: the challenge, and the parent, which must be its own.
PostComment(j, u, c, p) ==
    /\ Is(c, "challenge")
    /\ p = Null \/ (Is(p, "comment") /\ table[p].on = c)
    /\ Accepts(j, Inserts(Record("comment", u, c, p, 0)))

\* POST /comments/:id/vote: the comment, and the vote the user has given it.
VoteOf(u, p) == {i \in Id : Is(i, "vote") /\ table[i].by = u /\ table[i].on = p}

Vote(j, u, p, val) ==
    /\ Is(p, "comment")
    /\ LET r == Record("vote", u, p, Null, val) IN
       IF VoteOf(u, p) = {}
       THEN val # 0 /\ Accepts(j, Inserts(r))
       ELSE \E i \in VoteOf(u, p) :
              Accepts(j, IF val \in {0, table[i].val} THEN [Deletes(i) EXCEPT !.row = r]
                            ELSE [NoJob EXCEPT !.pc = "vote", !.row = r])

\* DELETE /comments/:id and /lists/:id: by the author; a comment by an administrator too,
\* as the database has it.
DeleteOwn(j, u, i) ==
    /\ Is(i, "comment") \/ Is(i, "list")
    /\ table[i].by = u \/ (Is(i, "comment") /\ There(u) /\ u \in admins)
    /\ Accepts(j, Deletes(i))

\* POST /shares: by a user there is, of a challenge there is; whether it is solved is not
\* asked.
Share(j, u, c) ==
    /\ Is(u, "user") /\ Is(c, "challenge")
    /\ Accepts(j, Inserts(Record("share", u, c, Null, 0)))

\* POST /lists: of two lists with one name the second is refused.
CreateList(j, u) ==
    /\ Unique(Record("list", u, Null, Null, 0))
    /\ Accepts(j, Inserts(Record("list", u, Null, Null, 0)))

\* POST /lists/:id/items, by the list's owner.
AddChallenge(j, u, l, c) ==
    /\ Is(l, "list") /\ table[l].by = u /\ Is(c, "challenge")
    /\ Accepts(j, Inserts(Record("item", Null, c, l, 0)))

\* checkOrgAccess
Access(u, o) == \E i \in Id : Is(i, "member") /\ table[i].by = u /\ table[i].in = o

\* POST /orgs/:orgId/scenarios and /assignments, by a member who may; an assignment's
\* user need not be one.  One for the whole organization is refused by Prisma, which
\* takes no null in a unique key.
OrgWrites(j, u) ==
    /\ Access(u, Tenant)
    /\ \/ Accepts(j, Inserts(Record("scenario", u, Null, Tenant, 0)))
       \/ \E v \in Account : Accepts(j, Inserts(Record("assignment", v, Null, Tenant, 0)))

\* POST /challenges/:id/start (module LabSession).
StartLab(j, u, c) ==
    /\ Is(c, "challenge") /\ There(u)
    /\ Accepts(j, Inserts(Record("session", u, c, Null, 0)))

\* requireAdmin reads the role from the database; then the route writes.
Administers(j, a) ==
    /\ There(a) /\ a \in admins
    /\ \/ \E i \in Account \cup Lab \cup {Tenant} :
            Accepts(j, Deletes(i))
       \/ \E u \in Account : Accepts(j, [NoJob EXCEPT !.pc = "role", !.id = u])
       \/ \E u \in Account, o \in {Tenant, Null} :
            Accepts(j, [NoJob EXCEPT !.pc = "home", !.id = u, !.row = Record("user", Null, Null, o, 0)])

-----------------------------------------------------------------------------
(* ... and what it writes                                                  *)

Answers(j) == job' = [job EXCEPT ![j] = NoJob]

WriteInsert(j) ==
    /\ job[j].pc = "insert"
    /\ Insert(job[j].row)
    /\ Answers(j)
    /\ UNCHANGED <<admins, moved, jobs>>

WriteVote(j) ==
    /\ job[j].pc = "vote"
    /\ LET r == job[j].row IN
       table' = [i \in Id |-> IF i \in VoteOf(r.by, r.on) THEN r ELSE table[i]]
    /\ Answers(j)
    /\ UNCHANGED <<admins, moved, fresh, jobs>>

\* A vote is deleted by its user and its comment, another row by its id; one that is gone
\* is an error.
Target(j) ==
    IF job[j].row.kind = "vote" THEN VoteOf(job[j].row.by, job[j].row.on) ELSE {job[j].id}

WriteDelete(j) ==
    /\ job[j].pc = "delete"
    /\ IF Target(j) = {} THEN UNCHANGED table ELSE \E i \in Target(j) : Remove(i)
    /\ admins' = {u \in admins : table'[u].kind = "user"}
    /\ Answers(j)
    /\ UNCHANGED <<moved, fresh, jobs>>

WriteRole(j) ==
    /\ job[j].pc = "role"
    /\ admins' = IF ~There(job[j].id) THEN admins
                 ELSE IF job[j].id \in admins THEN admins \ {job[j].id}
                 ELSE admins \cup {job[j].id}
    /\ Answers(j)
    /\ UNCHANGED <<table, moved, fresh, jobs>>

\* PATCH /admin/users/:id sets the user's organization, and no membership.
WriteHome(j) ==
    /\ job[j].pc = "home"
    /\ IF There(job[j].id) /\ Sound(job[j].row)
       THEN /\ table' = [table EXCEPT ![job[j].id].in = job[j].row.in]
            /\ moved' = moved \cup {job[j].id}
       ELSE UNCHANGED <<table, moved>>
    /\ Answers(j)
    /\ UNCHANGED <<admins, fresh, jobs>>

ContributionNext ==
    \E j \in Job :
      \/ \E u \in Account : Administers(j, u) \/ \E i \in Extra : DeleteOwn(j, u, i)
      \/ \E u \in Writer :
           \/ \E c \in Lab : \E p \in Extra \cup {Null} : PostComment(j, u, c, p)
           \/ \E p \in Extra, val \in -1 .. 1 : Vote(j, u, p, val)
           \/ \E c \in Lab : Share(j, u, c) \/ StartLab(j, u, c)
           \/ CreateList(j, u)
           \/ \E l \in Extra, c \in Lab : AddChallenge(j, u, l, c)
           \/ OrgWrites(j, u)
      \/ WriteInsert(j) \/ WriteVote(j) \/ WriteDelete(j) \/ WriteRole(j) \/ WriteHome(j)

ContributionSpec == ContributionInit /\ [][ContributionNext]_contributionVars

-----------------------------------------------------------------------------
(* What the contributions promise                                          *)

Comments == {i \in Id : Is(i, "comment")}

\* GET /challenges/:id/comments: the comments without a parent, and the replies to them.
Shown(c) ==
    LET top == {i \in Comments : table[i].on = c /\ table[i].in = Null}
    IN  top \cup {i \in Comments : table[i].in \in top}

\* A thread is of one challenge, whatever is deleted between the look-up of the parent
\* and the insertion of the reply: a challenge shows no comment on another one.
ThreadsAreWhole ==
    /\ \A i \in Comments : table[i].in # Null =>
          table[i].in \in Comments /\ table[table[i].in].on = table[i].on
    /\ \A c \in Lab : \A i \in Shown(c) : table[i].on = c

\* The score of a comment counts a user once, whichever way two of his requests cross.
VotedOnce == \A p \in Comments, u \in Account : Cardinality(VoteOf(u, p)) <= 1

\* A challenge that an organization contributed is opened to others only by the deletion
\* of the organization; and whoever sees it is a member, or was moved by an administrator.
SecretHolds ==
    /\ There(Secret) /\ There(Tenant) => table[Secret].in = Tenant
    /\ \A u \in Account : table[u].in = Tenant => Access(u, Tenant) \/ u \in moved

\* What a user has tried keeps its challenge, and a scenario keeps its author: neither is
\* deleted from under the other, by an administrator's request that checked before.
UsedIsKept ==
    \A i \in Id : /\ Is(i, "session") => Is(table[i].on, "challenge") /\ Is(table[i].by, "user")
                  /\ Is(i, "scenario") => Is(table[i].by, "user") /\ Is(table[i].in, "org")
                  /\ Is(i, "item") => Is(table[i].in, "list") /\ Is(table[i].on, "challenge")

\* Before the first request there is nothing to look at.
ContributionsSound ==
    jobs > 0 => /\ ContributionTypeOK
                /\ ThreadsAreWhole /\ VotedOnce /\ SecretHolds /\ UsedIsKept
=============================================================================
