-------------------------- MODULE WorkspaceAccess --------------------------
(***************************************************************************)
(* Accounts, workspaces and their members.  Source: apps/api/src/modules/  *)
(* workspaces/ and auth/.                                                  *)
(*                                                                         *)
(* A request that manages members reads three times, each time in a        *)
(* statement of its own: the guard reads the role of its user, the service *)
(* reads the membership of its user again, then the member it is about.    *)
(* Its write names the member by id and checks nothing any more.  A user   *)
(* is the row of an e-mail address, a workspace is a slug; both are unique.*)
(***************************************************************************)
EXTENDS Naturals, Sequences

CONSTANTS Users,       \* e-mail addresses
          Registered,  \* those that have registered and logged in before
          Workspaces,  \* slugs
          Passwords,
          Requests,    \* requests the API can be working on at once
          None,        \* no user, no password, no role
          MaxRows,     \* bound: memberships ever made
          MaxRequests  \* bound: requests about members and accounts

ASSUME AccessAssumption ==
  /\ Registered \subseteq Users
  /\ None \notin Users \cup Workspaces \cup Passwords
  /\ Passwords # {}
  /\ {MaxRows, MaxRequests} \subseteq Nat

Roles == {"OWNER", "ADMIN", "MEMBER", "VIEWER"}
Managers == {"OWNER", "ADMIN"}
Kinds == {"ADD", "UPDATE", "REMOVE", "REGISTER"}

VARIABLES account, \* User: the status and the password of each address
          tokens,  \* users who hold an access token
          creator, \* Workspace: who made it, a ghost the row does not keep
          members, \* WorkspaceMember: the row of each id, oldest first
          request, \* the requests under way
          made     \* how many there have been

vars == <<account, tokens, creator, members, request, made>>

NoAccount == [status |-> "ABSENT", password |-> None]
Row(w, u, role) == [ws |-> w, user |-> u, role |-> role]
\* What is left of a row that was deleted.
Removed == Row(None, None, None)

\* args: what the client sent.  actor, member: the consts of the handler, an
\* id and a role.  found: the account a registration has read.  roles: those
\* of its user in the workspace since the guard, a ghost.
Nobody == [id |-> 0, role |-> None]
NoArgs == [kind |-> "ADD", user |-> None, ws |-> None, id |-> 0, role |-> None,
           about |-> None, password |-> None]
NoRequest == [step |-> "IDLE", args |-> NoArgs, actor |-> Nobody, member |-> Nobody,
              found |-> "ABSENT", roles |-> {}]

\* The row of the unique index on (workspaceId, userId).
Rows(w, u) == {i \in DOMAIN members : members[i].ws = w /\ members[i].user = u}
IsMember(w, u) == Rows(w, u) # {}
Membership(w, u) == LET i == CHOOSE i \in Rows(w, u) : TRUE
                    IN [id |-> i, role |-> members[i].role]
RoleOf(w, u) == IF IsMember(w, u) THEN Membership(w, u).role ELSE None

Init ==
  /\ account \in [Users -> {NoAccount} \cup [status: {"JOINED"}, password: Passwords]]
  /\ \A u \in Users : account[u] # NoAccount <=> u \in Registered
  /\ tokens = Registered
  /\ creator = [w \in {} |-> None] /\ members = <<>>
  /\ request = [r \in Requests |-> NoRequest]
  /\ made = 0

----------------------------------------------------------------------------
\* Also a refusal is an end: the client is told, nothing is written.
End(r) == request' = [request EXCEPT ![r] = NoRequest]

\* Every write of a membership is seen by the ghosts of all requests.
Watch(after, s) ==
  LET args == request[s].args
      now == {after[i].role : i \in {i \in DOMAIN after :
                 after[i].ws = args.ws /\ after[i].user = args.user}}
  IN [request[s] EXCEPT !.roles =
        IF request[s].step \in {"ACTOR", "MEMBER", "WRITE"} THEN @ \cup now ELSE @]

\* A write of r, which is then over.
Store(r, after) ==
  /\ members' = after
  /\ request' = [s \in Requests |-> IF s = r THEN NoRequest ELSE Watch(after, s)]

\* create: the workspace and its owner in one statement.
CreateWorkspace(u, w) ==
  /\ u \in tokens /\ w \notin DOMAIN creator /\ Len(members) < MaxRows
  /\ creator' = [v \in DOMAIN creator \cup {w} |-> IF v = w THEN u ELSE creator[v]]
  /\ members' = Append(members, Row(w, u, "OWNER"))
  /\ UNCHANGED <<account, tokens, request, made>>

Args(r) == request[r].args

\* WorkspaceRolesGuard: the role is read, not taken from the token.  A call
\* that the guard refuses is not modelled: it writes nothing.
Guard(r, args) ==
  /\ request[r].step = "IDLE" /\ made < MaxRequests
  /\ args.user \in tokens /\ RoleOf(args.ws, args.user) \in Managers
  /\ request' = [request EXCEPT ![r] =
       [NoRequest EXCEPT !.step = "ACTOR", !.args = args,
                         !.roles = {RoleOf(args.ws, args.user)}]]
  /\ made' = made + 1
  /\ UNCHANGED <<account, tokens, creator, members>>

AskAdd(r, u, w, about, role) ==
  Guard(r, [NoArgs EXCEPT !.user = u, !.ws = w, !.about = about, !.role = role])

AskUpdate(r, u, w, id, role) ==
  Guard(r, [NoArgs EXCEPT !.kind = "UPDATE", !.user = u, !.ws = w, !.id = id, !.role = role])

AskRemove(r, u, w, id) ==
  Guard(r, [NoArgs EXCEPT !.kind = "REMOVE", !.user = u, !.ws = w, !.id = id])

\* assertCanAssignRole
CanAssign(actor, role) ==
  /\ role # "OWNER"
  /\ ~(actor.role = "ADMIN" /\ role = "ADMIN")

\* getActorMembership
ReadActor(r) ==
  /\ request[r].step = "ACTOR"
  /\ LET args == Args(r)
         actor == Membership(args.ws, args.user)
     IN IF ~IsMember(args.ws, args.user) THEN End(r)
        ELSE IF args.kind # "ADD"
          THEN request' = [request EXCEPT ![r].step = "MEMBER", ![r].actor = actor]
          ELSE IF CanAssign(actor, args.role)
            THEN request' = [request EXCEPT ![r].step = "WRITE", ![r].actor = actor]
            ELSE End(r)
  /\ UNCHANGED <<account, tokens, creator, members, made>>

\* assertCanUpdateMember
CanUpdate(actor, member, role) ==
  /\ member.role # "OWNER" /\ role # "OWNER"
  /\ actor.id # member.id
  /\ actor.role = "ADMIN" => member.role # "ADMIN" /\ role # "ADMIN"

\* Mutant: only the own membership is protected.
CanRemoveAnyone(actor, member) == actor.id # member.id

\* assertCanRemoveMember
CanRemove(actor, member) ==
  /\ member.role # "OWNER"
  /\ actor.id # member.id
  /\ ~(actor.role = "ADMIN" /\ member.role = "ADMIN")

\* Mutant: a member of any workspace is found.
FindsAnywhere(id, w) == id \in DOMAIN members /\ members[id] # Removed

\* getMember looks for the id among the members of the workspace.
Finds(id, w) == id \in DOMAIN members /\ members[id].ws = w

ReadMember(r) ==
  /\ request[r].step = "MEMBER"
  /\ LET args == Args(r)
         actor == request[r].actor
         member == [id |-> args.id, role |-> members[args.id].role]
     IN IF /\ Finds(args.id, args.ws)
           /\ IF args.kind = "UPDATE" THEN CanUpdate(actor, member, args.role)
                                      ELSE CanRemove(actor, member)
          THEN request' = [request EXCEPT ![r].step = "WRITE", ![r].member = member]
          ELSE End(r)
  /\ UNCHANGED <<account, tokens, creator, members, made>>

\* addMember, one transaction: an unknown address gets an account without a
\* password, and a second membership is refused.
Add(r) ==
  /\ request[r].step = "WRITE" /\ Args(r).kind = "ADD"
  /\ LET args == Args(r) IN
       IF IsMember(args.ws, args.about)
         THEN End(r) /\ UNCHANGED <<account, members>>
         ELSE /\ Len(members) < MaxRows
              /\ account' = [account EXCEPT ![args.about] =
                               IF @ = NoAccount THEN [@ EXCEPT !.status = "INVITED"] ELSE @]
              /\ Store(r, Append(members, Row(args.ws, args.about, args.role)))
  /\ UNCHANGED <<tokens, creator, made>>

\* A row that is gone is an error of the statement.
Write(r, kind, row) ==
  /\ request[r].step = "WRITE" /\ Args(r).kind = kind
  /\ IF members[Args(r).id] = Removed
       THEN End(r) /\ UNCHANGED members
       ELSE Store(r, [members EXCEPT ![Args(r).id] = row])
  /\ UNCHANGED <<account, tokens, creator, made>>

Update(r) == Write(r, "UPDATE", [members[Args(r).id] EXCEPT !.role = Args(r).role])
Remove(r) == Write(r, "REMOVE", Removed)

----------------------------------------------------------------------------
(***************************************************************************)
(* Accounts.                                                               *)
(***************************************************************************)

\* Mutant: nobody looks whether there is a password.
OpenAlways(u) == TRUE

\* An invited user may still choose a password.
Open(u) == account[u].password = None

\* The first statement of register; a registration it refuses writes nothing.
ReadAccount(r, u, p) ==
  /\ request[r].step = "IDLE" /\ made < MaxRequests
  /\ Open(u)
  /\ request' = [request EXCEPT ![r] =
       [NoRequest EXCEPT !.step = "SET", !.found = account[u].status,
                         !.args = [NoArgs EXCEPT !.kind = "REGISTER", !.about = u, !.password = p]]]
  /\ made' = made + 1
  /\ UNCHANGED <<account, tokens, creator, members>>

SetPassword(u, p) == account' = [account EXCEPT ![u] =
  [status |-> IF @.status = "ABSENT" THEN "JOINED" ELSE @.status, password |-> p]]

\* register creates the user, unless the address has been taken since, or
\* updates the one it found.
WriteAccount(r) ==
  /\ request[r].step = "SET"
  /\ LET u == Args(r).about IN
       IF request[r].found = "ABSENT" /\ account[u] # NoAccount
         THEN UNCHANGED account ELSE SetPassword(u, Args(r).password)
  /\ End(r)
  /\ UNCHANGED <<tokens, creator, members, made>>

Login(u, p) ==
  /\ u \notin tokens /\ account[u].password = p
  /\ tokens' = tokens \cup {u}
  /\ UNCHANGED <<account, creator, members, request, made>>

Next ==
  \/ \E u \in Users, w \in Workspaces : CreateWorkspace(u, w)
  \/ \E u \in Users, p \in Passwords : Login(u, p)
  \/ \E r \in Requests :
       \/ ReadActor(r) \/ ReadMember(r) \/ Add(r) \/ Update(r) \/ Remove(r)
       \/ WriteAccount(r)
       \/ \E u \in Users, p \in Passwords : ReadAccount(r, u, p)
       \/ \E u \in Users, w \in DOMAIN creator :
            \/ \E about \in Users, role \in Roles : AskAdd(r, u, w, about, role)
            \/ \E id \in DOMAIN members, role \in Roles : AskUpdate(r, u, w, id, role)
            \/ \E id \in DOMAIN members : AskRemove(r, u, w, id)

Spec == Init /\ [][Next]_vars

----------------------------------------------------------------------------
(***************************************************************************)
(* Properties.                                                             *)
(***************************************************************************)

Ids == 1..MaxRows

AccountType == [status: {"ABSENT", "INVITED", "JOINED"}, password: Passwords \cup {None}]
RowType == [ws: Workspaces, user: Users, role: Roles] \cup {Removed}
ArgsType == [kind: Kinds, user: Users \cup {None}, ws: Workspaces \cup {None},
             id: {0} \cup Ids, role: Roles \cup {None}, about: Users \cup {None},
             password: Passwords \cup {None}]
SubjectType == [id: {0} \cup Ids, role: Roles \cup {None}]
RequestType == [step: {"IDLE", "ACTOR", "MEMBER", "WRITE", "SET"}, args: ArgsType,
                actor: SubjectType, member: SubjectType,
                found: {"ABSENT", "INVITED", "JOINED"}, roles: SUBSET Roles]

\* Every variable has its type, and nobody has a token without a password.
TypeOK ==
  /\ account \in [Users -> AccountType]
  /\ tokens \subseteq {u \in Users : account[u].password # None}
  /\ DOMAIN creator \subseteq Workspaces
  /\ creator \in [DOMAIN creator -> Users]
  /\ members \in Seq(RowType) /\ Len(members) <= MaxRows
  /\ request \in [Requests -> RequestType]
  /\ made \in 0..MaxRequests

\* A workspace always has one owner, and it is the user who made it, although
\* roles are checked on rows that may have changed before the write.
OwnerStays ==
  \A w \in DOMAIN creator : \E i \in DOMAIN members :
    /\ members[i] = Row(w, creator[w], "OWNER")
    /\ \A j \in DOMAIN members : members[j].ws = w /\ members[j].role = "OWNER" => j = i

Rank == [role \in Roles |-> CASE role = "OWNER" -> 3 [] role = "ADMIN" -> 2 [] OTHER -> 1]
Below(role, other) == role = None \/ Rank[role] < Rank[other]

\* The memberships a step of r writes.
Written(r) ==
  IF request[r].step = "WRITE" /\ request'[r].step = "IDLE"
    THEN {i \in DOMAIN members' : i \notin DOMAIN members \/ members'[i] # members[i]}
    ELSE {}

\* Members are added, changed and removed by managers of their workspace, who
\* only deal with and give roles below their own.  The service leaves half of
\* this to the guard and acts on a later read, so a user whose role changed
\* while the request was under way is excepted.
WithinRank ==
  [][\A r \in Requests : \A i \in Written(r) :
       LET args == request[r].args
           before == IF i \in DOMAIN members THEN members[i].ws ELSE args.ws
       IN /\ request[r].roles \cap Managers # {} /\ before = args.ws
          /\ i \in DOMAIN members => i = request[r].member.id
          /\ \A role \in Roles : request[r].roles = {role} =>
               Below(request[r].member.role, role) /\ Below(args.role, role)]_vars

\* A password that was set is set for good; an address that was invited before
\* it had one may see a second registration win (register reads, then writes).
PasswordIsKept ==
  [][\A u \in Users : account[u].password # None =>
       account'[u].password = account[u].password \/ account[u].status = "INVITED"]_account

=============================================================================
