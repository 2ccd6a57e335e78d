----------------------- MODULE WorkspaceAccessProofs -----------------------
(***************************************************************************)
(* Theorems about WorkspaceAccess, for any users, workspaces, requests and *)
(* bounds.  Every workspace keeps its one owner: roles are checked on rows *)
(* read in earlier statements, and what makes this safe is that only       *)
(* create writes an OWNER, so a row that was not one when it was read is   *)
(* none when it is written.  A password is not replaced: what register     *)
(* knows between its two statements.  Members are managed by managers,     *)
(* within their rank: what a request about members knows between its four. *)
(***************************************************************************)
EXTENDS WorkspaceAccess, TLAPS

\* What the client of a request may have sent.
Asked(args) ==
  /\ args.kind \in {"ADD", "UPDATE", "REMOVE"}
  /\ args.ws \in DOMAIN creator
  /\ args.kind = "ADD" => args.about \in Users /\ args.role \in Roles
  /\ args.kind = "UPDATE" => args.role \in Roles /\ args.id \in DOMAIN members
  /\ args.kind = "REMOVE" => args.id \in DOMAIN members

\* What has passed the checks neither makes an owner nor touches one.
Writable(args) ==
  /\ args.kind \in {"ADD", "UPDATE"} => args.role # "OWNER"
  /\ args.kind \in {"UPDATE", "REMOVE"} =>
       members[args.id] = Removed \/ members[args.id].role # "OWNER"

Fits(q) ==
  /\ q \in RequestType
  /\ q.step \in {"ACTOR", "MEMBER", "WRITE"} => Asked(q.args)
  /\ q.step = "MEMBER" => q.args.kind # "ADD"
  /\ q.step = "WRITE" => Writable(q.args)
  /\ q.step = "SET" => q.args.about \in Users /\ q.args.password \in Passwords

RowsHaveWorkspace ==
  \A i \in DOMAIN members : members[i] = Removed \/ members[i].ws \in DOMAIN creator

Inv == /\ TypeOK
       /\ \A r \in Requests : Fits(request[r])
       /\ RowsHaveWorkspace
       /\ OwnerStays

----------------------------------------------------------------------------
LEMMA NothingAsked == NoRequest \in RequestType /\ Fits(NoRequest)
  BY DEF NoRequest, NoArgs, Nobody, RequestType, ArgsType, SubjectType, Kinds, Fits

\* What fits goes on to fit while no row becomes an owner's.
LEMMA FitsStays ==
  ASSUME NEW q, Fits(q),
         DOMAIN creator \subseteq DOMAIN creator',
         DOMAIN members \subseteq DOMAIN members',
         \A i \in DOMAIN members : \/ members'[i] = members[i] \/ members'[i] = Removed
                                   \/ members'[i].role # "OWNER"
  PROVE  Fits(q)'
  BY DEF Fits, Asked, Writable, Removed

\* Rows as the actions write them.
LEMMA RowType1 ==
  ASSUME NEW w \in Workspaces, NEW u \in Users, NEW role \in Roles
  PROVE  /\ Row(w, u, role) \in RowType
         /\ Row(w, u, role).ws = w /\ Row(w, u, role).user = u /\ Row(w, u, role).role = role
  BY DEF Row, RowType

LEMMA RemovedIsNoRow ==
  /\ Removed \in RowType /\ Removed.ws = None
  /\ \A row \in RowType : row # Removed => row \in [ws: Workspaces, user: Users, role: Roles]
  /\ \A w \in Workspaces : w # None
  BY AccessAssumption DEF Row, RowType, Removed

LEMMA MembersSeq ==
  ASSUME TypeOK
  PROVE  /\ Len(members) \in Nat /\ DOMAIN members = 1..Len(members)
         /\ DOMAIN members \subseteq Ids
         /\ \A i \in DOMAIN members : members[i] \in RowType
  BY AccessAssumption DEF TypeOK, Ids

LEMMA RoleIsRead ==
  ASSUME TypeOK, NEW w \in Workspaces, NEW u
  PROVE  /\ IsMember(w, u) => Membership(w, u) \in SubjectType /\ Membership(w, u).role \in Roles
         /\ RoleOf(w, u) \in Roles \cup {None}
  <1>1. ASSUME IsMember(w, u)
        PROVE  Membership(w, u) \in SubjectType /\ Membership(w, u).role \in Roles
    <2>1. PICK i \in Rows(w, u) : Membership(w, u) = [id |-> i, role |-> members[i].role]
      BY <1>1 DEF IsMember, Membership
    <2>2. i \in DOMAIN members /\ members[i].ws = w
      BY DEF Rows
    <2>3. members[i] \in [ws: Workspaces, user: Users, role: Roles]
      BY <2>2, MembersSeq, RemovedIsNoRow
    <2> QED
      BY <2>1, <2>2, <2>3, MembersSeq DEF SubjectType
  <1> QED
    BY <1>1 DEF RoleOf

\* A step that writes no membership keeps everything about them, and what was
\* true of the request it moves on with is true of all.
LEMMA RequestMoves ==
  ASSUME Inv, NEW r \in Requests, NEW q, Fits(q),
         request' = [request EXCEPT ![r] = q], UNCHANGED <<creator, members>>,
         account' \in [Users -> AccountType],
         tokens' \subseteq {u \in Users : account'[u].password # None},
         made' \in 0..MaxRequests
  PROVE  Inv'
  <1>1. request' \in [Requests -> RequestType]
    BY DEF Inv, TypeOK, Fits
  <1>2. TypeOK'
    BY <1>1 DEF Inv, TypeOK
  <1>3. ASSUME NEW s \in Requests PROVE Fits(request[s])'
    <2>1. request'[s] = q \/ request'[s] = request[s]
      BY DEF Inv, TypeOK
    <2> QED
      BY <2>1 DEF Inv, Fits, Asked, Writable
  <1>4. RowsHaveWorkspace' /\ OwnerStays'
    BY DEF Inv, RowsHaveWorkspace, OwnerStays
  <1> QED
    BY <1>2, <1>3, <1>4 DEF Inv

LEMMA GuardMoves ==
  ASSUME Inv, NEW r \in Requests, NEW args \in ArgsType, Asked(args), args.user \in Users,
         Guard(r, args)
  PROVE  Inv'
  <1> DEFINE q == [NoRequest EXCEPT !.step = "ACTOR", !.args = args,
                                    !.roles = {RoleOf(args.ws, args.user)}]
  <1>1. RoleOf(args.ws, args.user) \in Roles
    BY DEF Guard, Managers, Roles
  <1>2. q \in RequestType /\ q.step = "ACTOR" /\ q.args = args
    BY <1>1, NothingAsked DEF RequestType, NoRequest
  <1>3. Fits(q)
    BY <1>2 DEF Fits
  <1>4. request' = [request EXCEPT ![r] = q] /\ made' \in 0..MaxRequests
    BY AccessAssumption DEF Guard, Inv, TypeOK
  <1> HIDE DEF q
  <1> QED
    BY <1>3, <1>4, RequestMoves DEF Guard, Inv, TypeOK

LEMMA AskMoves ==
  ASSUME Inv, NEW r \in Requests, NEW u \in Users, NEW w \in DOMAIN creator,
         \/ \E about \in Users, role \in Roles : AskAdd(r, u, w, about, role)
         \/ \E id \in DOMAIN members, role \in Roles : AskUpdate(r, u, w, id, role)
         \/ \E id \in DOMAIN members : AskRemove(r, u, w, id)
  PROVE  Inv'
  <1>0. w \in Workspaces /\ DOMAIN members \subseteq Ids
    BY MembersSeq DEF Inv, TypeOK
  <1>1. ASSUME NEW about \in Users, NEW role \in Roles, AskAdd(r, u, w, about, role)
        PROVE  Inv'
    <2> DEFINE args == [NoArgs EXCEPT !.user = u, !.ws = w, !.about = about, !.role = role]
    <2>1. args \in ArgsType /\ Asked(args) /\ args.user \in Users
      BY <1>0 DEF ArgsType, NoArgs, Asked, Kinds
    <2> QED
      BY <1>1, <2>1, GuardMoves DEF AskAdd
  <1>2. ASSUME NEW id \in DOMAIN members, NEW role \in Roles, AskUpdate(r, u, w, id, role)
        PROVE  Inv'
    <2> DEFINE args == [NoArgs EXCEPT !.kind = "UPDATE", !.user = u, !.ws = w, !.id = id,
                                      !.role = role]
    <2>1. args \in ArgsType /\ Asked(args) /\ args.user \in Users
      BY <1>0 DEF ArgsType, NoArgs, Asked, Kinds
    <2> QED
      BY <1>2, <2>1, GuardMoves DEF AskUpdate
  <1>3. ASSUME NEW id \in DOMAIN members, AskRemove(r, u, w, id)
        PROVE  Inv'
    <2> DEFINE args == [NoArgs EXCEPT !.kind = "REMOVE", !.user = u, !.ws = w, !.id = id]
    <2>1. args \in ArgsType /\ Asked(args) /\ args.user \in Users
      BY <1>0 DEF ArgsType, NoArgs, Asked, Kinds
    <2> QED
      BY <1>3, <2>1, GuardMoves DEF AskRemove
  <1> QED
    BY <1>1, <1>2, <1>3

LEMMA EndMoves ==
  ASSUME Inv, NEW r \in Requests, End(r), UNCHANGED <<tokens, creator, members, made>>,
         account' \in [Users -> AccountType],
         \A u \in Users : account[u].password # None => account'[u].password # None
  PROVE  Inv'
  <1>1. request' = [request EXCEPT ![r] = NoRequest] /\ Fits(NoRequest)
    BY NothingAsked DEF End
  <1> QED
    BY <1>1, RequestMoves DEF Inv, TypeOK

LEMMA ReadActorMoves ==
  ASSUME Inv, NEW r \in Requests, ReadActor(r)
  PROVE  Inv'
  <1> DEFINE args == Args(r)
             actor == Membership(args.ws, args.user)
  <1>0. /\ UNCHANGED <<account, tokens, creator, members, made>>
        /\ Fits(request[r]) /\ request[r].step = "ACTOR" /\ Asked(args)
        /\ args = request[r].args /\ request[r] \in RequestType
    BY DEF ReadActor, Inv, Fits, Args
  <1>1. CASE End(r)
    BY <1>0, <1>1, EndMoves DEF Inv, TypeOK
  <1>2. ASSUME NEW step \in {"MEMBER", "WRITE"}, IsMember(args.ws, args.user),
               step = "WRITE" => args.kind = "ADD" /\ CanAssign(actor, args.role),
               step = "MEMBER" => args.kind # "ADD",
               request' = [request EXCEPT ![r].step = step, ![r].actor = actor]
        PROVE  Inv'
    <2> DEFINE q == [request[r] EXCEPT !.step = step, !.actor = actor]
    <2>1. actor \in SubjectType
      BY <1>0, <1>2, RoleIsRead DEF Inv, TypeOK, Asked
    <2>2. q \in RequestType /\ q.step = step /\ q.args = args
      BY <1>0, <2>1 DEF RequestType
    <2>3. Fits(q)
      BY <1>0, <1>2, <2>2 DEF Fits, Writable, CanAssign, Asked
    <2>4. request' = [request EXCEPT ![r] = q]
      BY <1>2 DEF Inv, TypeOK
    <2> HIDE DEF q
    <2> QED
      BY <1>0, <2>3, <2>4, RequestMoves DEF Inv, TypeOK
  <1> HIDE DEF actor
  <1> QED
    BY <1>1, <1>2 DEF ReadActor, actor

LEMMA ReadMemberMoves ==
  ASSUME Inv, NEW r \in Requests, ReadMember(r)
  PROVE  Inv'
  <1> DEFINE args == Args(r)
             member == [id |-> args.id, role |-> members[args.id].role]
  <1>0. /\ UNCHANGED <<account, tokens, creator, members, made>>
        /\ Fits(request[r]) /\ request[r].step = "MEMBER" /\ Asked(args)
        /\ args = request[r].args /\ request[r] \in RequestType
    BY DEF ReadMember, Inv, Fits, Args
  <1>1. CASE End(r)
    BY <1>0, <1>1, EndMoves DEF Inv, TypeOK
  <1>2. ASSUME Finds(args.id, args.ws),
               IF args.kind = "UPDATE" THEN CanUpdate(request[r].actor, member, args.role)
                                       ELSE CanRemove(request[r].actor, member),
               request' = [request EXCEPT ![r].step = "WRITE", ![r].member = member]
        PROVE  Inv'
    <2> DEFINE q == [request[r] EXCEPT !.step = "WRITE", !.member = member]
    <2>1. args.id \in DOMAIN members /\ members[args.id].ws \in Workspaces
      BY <1>0, <1>2 DEF Finds, Asked, Inv, TypeOK
    <2>2. members[args.id].role \in Roles /\ args.id \in Ids
      BY <2>1, MembersSeq, RemovedIsNoRow DEF Inv
    <2>3. q \in RequestType /\ q.step = "WRITE" /\ q.args = args
      BY <1>0, <2>2 DEF RequestType, SubjectType
    <2>4. members[args.id].role # "OWNER"
      BY <1>2 DEF CanUpdate, CanRemove
    <2>5. args.kind = "UPDATE" => args.role # "OWNER"
      BY <1>2 DEF CanUpdate
    <2>6. Fits(q)
      BY <1>0, <2>3, <2>4, <2>5 DEF Fits, Writable, Asked
    <2>7. request' = [request EXCEPT ![r] = q]
      BY <1>2 DEF Inv, TypeOK
    <2> HIDE DEF q
    <2> QED
      BY <1>0, <2>6, <2>7, RequestMoves DEF Inv, TypeOK
  <1> HIDE DEF member
  <1> QED
    BY <1>1, <1>2 DEF ReadMember, member

----------------------------------------------------------------------------
\* The writes.

\* No write of a request makes an owner or touches one.
LEMMA StoreMoves ==
  ASSUME Inv, NEW r \in Requests, NEW after, Store(r, after),
         UNCHANGED <<tokens, creator, made>>,
         account' \in [Users -> AccountType],
         \A u \in Users : account[u].password # None => account'[u].password # None,
         after \in Seq(RowType), Len(after) <= MaxRows, Len(members) <= Len(after),
         \A i \in DOMAIN members : after[i] = members[i]
            \/ /\ members[i] = Removed \/ members[i].role # "OWNER"
               /\ after[i] = Removed \/ after[i].role # "OWNER",
         \A i \in DOMAIN after \ DOMAIN members : after[i].role # "OWNER",
         \A i \in DOMAIN after : after[i] = Removed \/ after[i].ws \in DOMAIN creator
  PROVE  Inv'
  <1>0. /\ members' = after /\ DOMAIN after = 1..Len(after)
        /\ DOMAIN members = 1..Len(members) /\ Len(members) \in Nat /\ Len(after) \in Nat
        /\ DOMAIN members \subseteq DOMAIN after
        /\ \A i \in DOMAIN after : after[i] \in RowType
    BY MembersSeq DEF Store, Inv
  <1>1. ASSUME NEW s \in Requests
        PROVE  /\ request'[s] \in RequestType
               /\ request'[s] = NoRequest \/
                    /\ request'[s].step = request[s].step
                    /\ request'[s].args = request[s].args
    <2>1. CASE s = r
      BY <2>1, NothingAsked DEF Store
    <2>2. CASE s # r
      <3>1. request'[s] = Watch(after, s)
        BY <2>2 DEF Store
      <3> DEFINE args == request[s].args
                 now == {after[i].role : i \in {i \in DOMAIN after :
                           after[i].ws = args.ws /\ after[i].user = args.user}}
      <3>2. ASSUME request[s].step \in {"ACTOR", "MEMBER", "WRITE"}
            PROVE  now \subseteq Roles
        <4>1. args.ws \in Workspaces
          BY <3>2 DEF Inv, Fits, Asked, TypeOK
        <4>2. ASSUME NEW i \in DOMAIN after, after[i].ws = args.ws
              PROVE  after[i].role \in Roles
          BY <1>0, <4>1, <4>2, RemovedIsNoRow
        <4> QED
          BY <4>2
      <3>3. request[s] \in RequestType
        BY DEF Inv, TypeOK
      <3> DEFINE roles == IF request[s].step \in {"ACTOR", "MEMBER", "WRITE"}
                            THEN request[s].roles \cup now ELSE request[s].roles
      <3>4. Watch(after, s) = [request[s] EXCEPT !.roles = roles]
        BY <3>3 DEF Watch, RequestType
      <3>5. roles \in SUBSET Roles
        BY <3>2, <3>3 DEF RequestType
      <3> HIDE DEF roles
      <3> QED
        BY <3>1, <3>3, <3>4, <3>5 DEF RequestType
    <2> QED
      BY <2>1, <2>2
  <1>2. TypeOK'
    BY <1>0, <1>1 DEF Inv, TypeOK, Store
  <1>3. ASSUME NEW s \in Requests
        PROVE  Fits(request[s])'
    <2>1. Fits(request[s])'
          \/ request'[s] # NoRequest
      BY <1>1, NothingAsked DEF Fits, NoRequest
    <2>2. ASSUME request'[s].step = request[s].step, request'[s].args = request[s].args
          PROVE  Fits(request[s])'
      <3>1. Fits(request[s])
        BY DEF Inv
      <3>2. \A i \in DOMAIN members : \/ members'[i] = members[i] \/ members'[i] = Removed
                                      \/ members'[i].role # "OWNER"
        BY <1>0
      <3> QED
        BY <1>0, <1>1, <2>2, <3>1, <3>2 DEF Fits, Asked, Writable
    <2> QED
      BY <1>1, <2>1, <2>2
  <1>4. RowsHaveWorkspace'
    BY <1>0 DEF RowsHaveWorkspace
  <1>5. OwnerStays'
    <2> SUFFICES ASSUME NEW w \in DOMAIN creator
                 PROVE  \E i \in DOMAIN after : 
                          /\ after[i] = Row(w, creator[w], "OWNER")
                          /\ \A j \in DOMAIN after :
                               after[j].ws = w /\ after[j].role = "OWNER" => j = i
      BY <1>0 DEF OwnerStays
    <2>1. PICK i \in DOMAIN members :
            /\ members[i] = Row(w, creator[w], "OWNER")
            /\ \A j \in DOMAIN members :
                 members[j].ws = w /\ members[j].role = "OWNER" => j = i
      BY DEF Inv, OwnerStays
    <2>2. w \in Workspaces /\ creator[w] \in Users
      BY DEF Inv, TypeOK
    <2>3. members[i].ws = w /\ members[i].role = "OWNER" /\ members[i] # Removed
      BY <2>1, <2>2, RowType1, RemovedIsNoRow DEF Roles
    <2>4. after[i] = members[i]
      BY <2>3
    <2>5. ASSUME NEW j \in DOMAIN after, after[j].ws = w, after[j].role = "OWNER"
          PROVE  j = i
      BY <1>0, <2>1, <2>2, <2>5, RemovedIsNoRow
    <2> QED
      BY <1>0, <2>1, <2>4, <2>5
  <1> QED
    BY <1>2, <1>3, <1>4, <1>5 DEF Inv

LEMMA AddMoves ==
  ASSUME Inv, NEW r \in Requests, Add(r)
  PROVE  Inv'
  <1> DEFINE args == Args(r)
  <1>0. /\ args = request[r].args /\ Fits(request[r]) /\ request[r].step = "WRITE"
        /\ args.kind = "ADD" /\ UNCHANGED <<tokens, creator, made>>
    BY DEF Add, Args, Inv
  <1>1. /\ args.ws \in DOMAIN creator /\ args.ws \in Workspaces
        /\ args.about \in Users /\ args.role \in Roles /\ args.role # "OWNER"
    BY <1>0 DEF Fits, Asked, Writable, Inv, TypeOK
  <1>2. CASE End(r) /\ UNCHANGED <<account, members>>
    BY <1>0, <1>2, EndMoves DEF Inv, TypeOK
  <1>3. ASSUME Len(members) < MaxRows,
               account' = [account EXCEPT ![args.about] =
                             IF @ = NoAccount THEN [@ EXCEPT !.status = "INVITED"] ELSE @],
               Store(r, Append(members, Row(args.ws, args.about, args.role)))
        PROVE  Inv'
    <2> DEFINE row == Row(args.ws, args.about, args.role)
               after == Append(members, row)
    <2>1. row \in RowType /\ row.ws = args.ws /\ row.role = args.role
      BY <1>1, RowType1
    <2>2. /\ account' \in [Users -> AccountType]
          /\ \A u \in Users : account[u].password # None => account'[u].password # None
      BY <1>1, <1>3 DEF Inv, TypeOK, AccountType
    <2>3. members \in Seq(RowType) /\ Len(members) \in Nat /\ MaxRows \in Nat
      BY MembersSeq, AccessAssumption DEF Inv, TypeOK
    <2> HIDE DEF row
    <2>4. /\ after \in Seq(RowType) /\ Len(after) = Len(members) + 1
          /\ DOMAIN after = 1..(Len(members) + 1) /\ DOMAIN members = 1..Len(members)
          /\ after[Len(members) + 1] = row
          /\ \A i \in DOMAIN members : after[i] = members[i]
      BY <2>1, <2>3
    <2>5. \A i \in DOMAIN after \ DOMAIN members : after[i] = row
      BY <2>3, <2>4
    <2>6. \A i \in DOMAIN after : after[i] = Removed \/ after[i].ws \in DOMAIN creator
      BY <1>1, <2>1, <2>4, <2>5 DEF Inv, RowsHaveWorkspace
    <2>7. Store(r, after)
      BY <1>3 DEF row
    <2> HIDE DEF after
    <2> QED
      <3>1. \A i \in DOMAIN after \ DOMAIN members : after[i].role # "OWNER"
        BY <1>1, <2>1, <2>5
      <3>2. /\ Len(after) <= MaxRows /\ Len(members) <= Len(after)
            /\ \A i \in DOMAIN members : after[i] = members[i]
        BY <1>3, <2>3, <2>4
      <3> QED
        BY <1>0, <2>2, <2>4, <2>6, <2>7, <3>1, <3>2, StoreMoves
  <1> QED
    BY <1>2, <1>3 DEF Add

LEMMA WriteMoves ==
  ASSUME Inv, NEW r \in Requests, NEW kind \in {"UPDATE", "REMOVE"}, NEW row,
         Write(r, kind, row),
         members[Args(r).id] # Removed =>
           \/ row = Removed
           \/ row = [members[Args(r).id] EXCEPT !.role = Args(r).role] /\ kind = "UPDATE"
  PROVE  Inv'
  <1> DEFINE id == Args(r).id
             role == Args(r).role
             after == [members EXCEPT ![id] = row]
  <1>0. /\ Args(r) = request[r].args /\ Fits(request[r]) /\ request[r].step = "WRITE"
        /\ Args(r).kind = kind /\ UNCHANGED <<account, tokens, creator, made>>
    BY DEF Write, Args, Inv
  <1>1. /\ id \in DOMAIN members
        /\ members[id] = Removed \/ members[id].role # "OWNER"
        /\ kind = "UPDATE" => role \in Roles /\ role # "OWNER"
    BY <1>0 DEF Fits, Asked, Writable
  <1>2. CASE members[id] = Removed
    BY <1>0, <1>2, EndMoves DEF Write, Inv, TypeOK
  <1>3. CASE members[id] # Removed
    <2>1. /\ members[id] \in [ws: Workspaces, user: Users, role: Roles]
          /\ members[id].ws \in DOMAIN creator
      BY <1>1, <1>3, MembersSeq, RemovedIsNoRow DEF Inv, RowsHaveWorkspace
    <2>2. /\ row \in RowType
          /\ row # Removed => row.role # "OWNER" /\ row.ws = members[id].ws
      BY <1>1, <1>3, <2>1, RemovedIsNoRow DEF RowType
    <2>3. /\ members \in Seq(RowType) /\ DOMAIN members = 1..Len(members)
          /\ Len(members) \in Nat /\ Len(members) <= MaxRows
      BY MembersSeq DEF Inv, TypeOK
    <2>4. /\ after \in Seq(RowType) /\ Len(after) = Len(members)
          /\ DOMAIN after = DOMAIN members /\ after[id] = row
          /\ \A i \in DOMAIN members : i # id => after[i] = members[i]
      BY <1>1, <2>2, <2>3
    <2>5. Store(r, after)
      BY <1>3 DEF Write
    <2>6. \A i \in DOMAIN after : after[i] = Removed \/ after[i].ws \in DOMAIN creator
      BY <1>1, <2>1, <2>2, <2>4 DEF Inv, RowsHaveWorkspace
    <2>7. \A i \in DOMAIN members : after[i] = members[i]
            \/ /\ members[i] = Removed \/ members[i].role # "OWNER"
               /\ after[i] = Removed \/ after[i].role # "OWNER"
      BY <1>1, <2>2, <2>4
    <2>8. /\ account' \in [Users -> AccountType]
          /\ \A u \in Users : account[u].password # None => account'[u].password # None
      BY <1>0 DEF Inv, TypeOK
    <2> HIDE DEF after
    <2>9. /\ Len(after) <= MaxRows /\ Len(members) <= Len(after)
          /\ DOMAIN after \ DOMAIN members = {}
      BY <2>3, <2>4
    <2>10. /\ \A i \in DOMAIN after \ DOMAIN members : after[i].role # "OWNER"
           /\ after \in Seq(RowType) /\ UNCHANGED <<tokens, creator, made>>
      BY <1>0, <2>4, <2>9
    <2> QED
      BY <2>5, <2>6, <2>7, <2>8, <2>9, <2>10, StoreMoves
  <1> QED
    BY <1>2, <1>3

LEMMA CreateMoves ==
  ASSUME Inv, NEW u \in Users, NEW w \in Workspaces, CreateWorkspace(u, w)
  PROVE  Inv'
  <1> DEFINE row == Row(w, u, "OWNER")
  <1>0. /\ w \notin DOMAIN creator /\ UNCHANGED <<account, tokens, request, made>>
        /\ DOMAIN creator' = DOMAIN creator \cup {w}
        /\ creator' \in [DOMAIN creator' -> Users] /\ creator'[w] = u
        /\ \A v \in DOMAIN creator : creator'[v] = creator[v]
    BY DEF CreateWorkspace, Inv, TypeOK
  <1>1. row \in RowType /\ row.ws = w /\ row.role = "OWNER"
    BY RowType1 DEF Roles
  <1>2. /\ members \in Seq(RowType) /\ Len(members) \in Nat /\ Len(members) < MaxRows
        /\ MaxRows \in Nat /\ members' = Append(members, row)
    BY MembersSeq, AccessAssumption DEF Inv, TypeOK, CreateWorkspace
  <1> HIDE DEF row
  <1>3. /\ members' \in Seq(RowType) /\ Len(members') = Len(members) + 1
        /\ DOMAIN members' = DOMAIN members \cup {Len(members) + 1}
        /\ DOMAIN members = 1..Len(members)
        /\ members'[Len(members) + 1] = row
        /\ \A i \in DOMAIN members : members'[i] = members[i]
    BY <1>1, <1>2
  <1>4. TypeOK'
    BY <1>0, <1>2, <1>3 DEF Inv, TypeOK
  <1>5. ASSUME NEW r \in Requests PROVE Fits(request[r])'
    <2>1. Fits(request[r]) /\ request'[r] = request[r]
      BY <1>0 DEF Inv
    <2>2. DOMAIN members \subseteq DOMAIN members' /\ DOMAIN creator \subseteq DOMAIN creator'
      BY <1>0, <1>3
    <2> QED
      BY <1>3, <2>1, <2>2 DEF Fits, Asked, Writable
  <1>6. RowsHaveWorkspace'
    BY <1>0, <1>1, <1>3 DEF Inv, RowsHaveWorkspace
  <1>7. OwnerStays'
    <2> SUFFICES ASSUME NEW v \in DOMAIN creator'
                 PROVE  \E i \in DOMAIN members' :
                          /\ members'[i] = Row(v, creator'[v], "OWNER")
                          /\ \A j \in DOMAIN members' :
                               members'[j].ws = v /\ members'[j].role = "OWNER" => j = i
      BY DEF OwnerStays
    <2>1. CASE v = w
      <3>1. \A j \in DOMAIN members : members[j].ws # w
        BY <1>0, RemovedIsNoRow DEF Inv, RowsHaveWorkspace
      <3>2. members'[Len(members) + 1] = Row(v, creator'[v], "OWNER")
        BY <1>0, <1>3, <2>1 DEF row
      <3> QED
        BY <1>3, <2>1, <3>1, <3>2
    <2>2. CASE v # w
      <3>1. v \in DOMAIN creator /\ creator'[v] = creator[v]
        BY <1>0, <2>2
      <3> QED
        BY <1>1, <1>3, <2>2, <3>1 DEF Inv, OwnerStays
    <2> QED
      BY <2>1, <2>2
  <1> QED
    BY <1>4, <1>5, <1>6, <1>7 DEF Inv

----------------------------------------------------------------------------
\* Accounts.

LEMMA ReadAccountMoves ==
  ASSUME Inv, NEW r \in Requests, NEW u \in Users, NEW p \in Passwords, ReadAccount(r, u, p)
  PROVE  Inv'
  <1> DEFINE args == [NoArgs EXCEPT !.kind = "REGISTER", !.about = u, !.password = p]
             q == [NoRequest EXCEPT !.step = "SET", !.found = account[u].status, !.args = args]
  <1>1. args \in ArgsType /\ args.about = u /\ args.password = p
    BY DEF ArgsType, NoArgs, Kinds
  <1>2. account[u].status \in {"ABSENT", "INVITED", "JOINED"}
    BY DEF Inv, TypeOK, AccountType
  <1> HIDE DEF args
  <1>3. q \in RequestType /\ q.step = "SET" /\ q.args = args
    BY <1>1, <1>2, NothingAsked DEF RequestType, NoRequest
  <1>4. Fits(q)
    BY <1>1, <1>3 DEF Fits
  <1>5. /\ request' = [request EXCEPT ![r] = q] /\ made' \in 0..MaxRequests
        /\ UNCHANGED <<account, tokens, creator, members>>
    BY AccessAssumption DEF ReadAccount, Inv, TypeOK, args
  <1> HIDE DEF q
  <1> QED
    BY <1>4, <1>5, RequestMoves DEF Inv, TypeOK

LEMMA WriteAccountMoves ==
  ASSUME Inv, NEW r \in Requests, WriteAccount(r)
  PROVE  Inv'
  <1> DEFINE u == Args(r).about
             p == Args(r).password
  <1>1. u \in Users /\ p \in Passwords /\ p # None
    BY AccessAssumption DEF WriteAccount, Inv, Fits, Args
  <1>2. SetPassword(u, p) =>
          /\ account' \in [Users -> AccountType]
          /\ \A v \in Users : account[v].password # None => account'[v].password # None
    BY <1>1 DEF SetPassword, Inv, TypeOK, AccountType
  <1>3. /\ account' \in [Users -> AccountType]
        /\ \A v \in Users : account[v].password # None => account'[v].password # None
        /\ End(r) /\ UNCHANGED <<tokens, creator, members, made>>
    BY <1>2 DEF WriteAccount, Inv, TypeOK
  <1> QED
    BY <1>3, EndMoves

LEMMA LoginMoves ==
  ASSUME Inv, NEW u \in Users, NEW p \in Passwords, Login(u, p)
  PROVE  Inv'
  <1>1. account[u].password # None
    BY AccessAssumption DEF Login
  <1>2. TypeOK'
    BY <1>1 DEF Inv, TypeOK, Login
  <1> QED
    BY <1>2 DEF Inv, Login, Fits, Asked, Writable, RowsHaveWorkspace, OwnerStays

----------------------------------------------------------------------------
\* The invariant.

LEMMA InitInv == Init => Inv
  <1> SUFFICES ASSUME Init PROVE Inv
    OBVIOUS
  <1>1. account \in [Users -> AccountType]
    BY DEF Init, AccountType, NoAccount
  <1>2. \A u \in Registered : account[u].password # None
    BY AccessAssumption DEF Init, NoAccount
  <1>3. /\ members = <<>> /\ DOMAIN creator = {} /\ creator \in [DOMAIN creator -> Users]
        /\ request = [r \in Requests |-> NoRequest] /\ made \in 0..MaxRequests
    BY AccessAssumption DEF Init
  <1>4. TypeOK
    BY <1>1, <1>2, <1>3, NothingAsked, AccessAssumption DEF TypeOK, Init
  <1> QED
    BY <1>3, <1>4, NothingAsked DEF Inv, RowsHaveWorkspace, OwnerStays

LEMMA NextInv == Inv /\ [Next]_vars => Inv'
  <1> SUFFICES ASSUME Inv, [Next]_vars PROVE Inv'
    OBVIOUS
  <1>1. ASSUME NEW u \in Users, NEW w \in Workspaces, CreateWorkspace(u, w) PROVE Inv'
    BY <1>1, CreateMoves
  <1>2. ASSUME NEW u \in Users, NEW p \in Passwords, Login(u, p) PROVE Inv'
    BY <1>2, LoginMoves
  <1>3. ASSUME NEW r \in Requests, ReadActor(r) \/ ReadMember(r) PROVE Inv'
    BY <1>3, ReadActorMoves, ReadMemberMoves
  <1>4. ASSUME NEW r \in Requests, Add(r) PROVE Inv'
    BY <1>4, AddMoves
  <1>5. ASSUME NEW r \in Requests, Update(r) \/ Remove(r) PROVE Inv'
    BY <1>5, WriteMoves DEF Update, Remove
  <1>6. ASSUME NEW r \in Requests, WriteAccount(r) PROVE Inv'
    BY <1>6, WriteAccountMoves
  <1>7. ASSUME NEW r \in Requests, NEW u \in Users, NEW p \in Passwords, ReadAccount(r, u, p)
        PROVE  Inv'
    BY <1>7, ReadAccountMoves
  <1>8. ASSUME NEW r \in Requests, NEW u \in Users, NEW w \in DOMAIN creator,
               \/ \E about \in Users, role \in Roles : AskAdd(r, u, w, about, role)
               \/ \E id \in DOMAIN members, role \in Roles : AskUpdate(r, u, w, id, role)
               \/ \E id \in DOMAIN members : AskRemove(r, u, w, id)
        PROVE  Inv'
    BY <1>8, AskMoves
  <1>9. CASE UNCHANGED vars
    BY <1>9 DEF vars, Inv, TypeOK, Fits, Asked, Writable, RowsHaveWorkspace, OwnerStays
  <1> QED
    BY <1>1, <1>2, <1>3, <1>4, <1>5, <1>6, <1>7, <1>8, <1>9 DEF Next

LEMMA InvHolds == Spec => []Inv
  BY InitInv, NextInv, PTL DEF Spec

\* Every variable keeps its type, and only users with a password have a token.
THEOREM TypeCorrect == Spec => []TypeOK
  BY InvHolds, PTL DEF Inv

\* A workspace keeps its one owner, who made it, however many requests check
\* roles on rows that change before they write (workspaces.service.ts:82-150).
THEOREM WorkspacesKeepTheirOwner == Spec => []OwnerStays
  BY InvHolds, PTL DEF Inv

-----------------------------------------------------------------------------
(***************************************************************************)
(* Passwords.                                                              *)
(***************************************************************************)

\* register goes on with an account that was absent, or with an invited one,
\* and an account that was invited stays so.
Registers(q) ==
  q.step = "SET" => \/ q.found = "ABSENT"
                    \/ q.found = "INVITED" /\ account[q.args.about].status = "INVITED"

AccountsFit ==
  /\ \A u \in Users : /\ account[u].status = "ABSENT" => account[u].password = None
                      /\ account[u].status = "JOINED" => account[u].password # None
  /\ \A r \in Requests : Registers(request[r])

LEMMA NothingRegisters == Registers(NoRequest)
  BY DEF Registers, NoRequest

\* A step that leaves the accounts alone, and asks for no new registration but
\* one that fits.
LEMMA AccountsStay ==
  ASSUME AccountsFit, UNCHANGED account,
         \A r \in Requests :
           \/ Registers(request'[r])
           \/ /\ request'[r].step = request[r].step /\ request'[r].args = request[r].args
              /\ request'[r].found = request[r].found
           \/ request'[r].step # "SET"
  PROVE  AccountsFit'
  BY DEF AccountsFit, Registers

\* Store ends r and changes nothing but the history of the others.
LEMMA StoreWatches ==
  ASSUME Inv, NEW r \in Requests, NEW after, Store(r, after), NEW s \in Requests
  PROVE  \/ s = r /\ request'[s] = NoRequest
         \/ /\ s # r /\ request'[s].step = request[s].step
            /\ request'[s].args = request[s].args /\ request'[s].found = request[s].found
            /\ request'[s].actor = request[s].actor /\ request'[s].member = request[s].member
  <1>1. request[s] \in RequestType
    BY DEF Inv, TypeOK
  <1> QED
    BY <1>1 DEF Store, Watch, RequestType

\* End ends r and leaves the others alone.
LEMMA EndEnds ==
  ASSUME Inv, NEW r \in Requests, End(r), NEW s \in Requests
  PROVE  request'[s] = IF s = r THEN NoRequest ELSE request[s]
  BY DEF End, Inv, TypeOK

\* The steps that are not about accounts.
LEMMA OthersKeepAccounts ==
  ASSUME Inv, AccountsFit, Next, UNCHANGED account,
         \A r \in Requests, u \in Users, p \in Passwords : ~ReadAccount(r, u, p)
  PROVE  AccountsFit'
  <1> SUFFICES ASSUME NEW s \in Requests
               PROVE  \/ Registers(request'[s])
                      \/ /\ request'[s].step = request[s].step
                         /\ request'[s].args = request[s].args
                         /\ request'[s].found = request[s].found
                      \/ request'[s].step # "SET"
    BY AccountsStay
  <1>0. request[s] \in RequestType /\ request \in [Requests -> RequestType]
    BY DEF Inv, TypeOK
  <1>1. CASE UNCHANGED request
    BY <1>1
  <1>2. ASSUME NEW r \in Requests, End(r) PROVE Registers(request'[s]) \/ request'[s] = request[s]
    BY <1>2, EndEnds, NothingRegisters DEF Registers
  <1>3. ASSUME NEW r \in Requests, NEW after, Store(r, after)
        PROVE  Registers(request'[s]) \/ /\ request'[s].step = request[s].step
                                         /\ request'[s].args = request[s].args
                                         /\ request'[s].found = request[s].found
    BY <1>3, StoreWatches, NothingRegisters DEF Registers
  <1>4. ASSUME NEW r \in Requests, ReadActor(r) \/ ReadMember(r), ~End(r)
        PROVE  request'[s] = request[s] \/ request'[s].step # "SET"
    BY <1>0, <1>4 DEF ReadActor, ReadMember, RequestType
  <1>5. ASSUME NEW r \in Requests, NEW args, Guard(r, args)
        PROVE  request'[s] = request[s] \/ request'[s].step # "SET"
    BY <1>0, <1>5 DEF Guard, NoRequest
  <1>6. ASSUME NEW u \in Users, NEW w \in Workspaces, CreateWorkspace(u, w)
        PROVE  UNCHANGED request
    BY <1>6 DEF CreateWorkspace
  <1>7. ASSUME NEW u \in Users, NEW p \in Passwords, Login(u, p) PROVE UNCHANGED request
    BY <1>7 DEF Login
  <1>8. ASSUME NEW r \in Requests, Add(r) \/ Update(r) \/ Remove(r) \/ WriteAccount(r)
        PROVE  End(r) \/ \E after : Store(r, after)
    BY <1>8 DEF Add, Update, Remove, Write, WriteAccount
  <1>9. ASSUME NEW r \in Requests, NEW u \in Users, NEW w \in DOMAIN creator,
               \/ \E about \in Users, role \in Roles : AskAdd(r, u, w, about, role)
               \/ \E id \in DOMAIN members, role \in Roles : AskUpdate(r, u, w, id, role)
               \/ \E id \in DOMAIN members : AskRemove(r, u, w, id)
        PROVE  \E args : Guard(r, args)
    BY <1>9 DEF AskAdd, AskUpdate, AskRemove
  <1>10. \/ \E r \in Requests : End(r) \/ \E after : Store(r, after)
         \/ \E r \in Requests : (ReadActor(r) \/ ReadMember(r)) /\ ~End(r)
         \/ \E r \in Requests : \E args : Guard(r, args)
         \/ UNCHANGED request
    BY <1>6, <1>7, <1>8, <1>9 DEF Next
  <1> QED
    BY <1>1, <1>2, <1>3, <1>4, <1>5, <1>10

LEMMA ReadAccountFits ==
  ASSUME Inv, AccountsFit, NEW r \in Requests, NEW u \in Users, NEW p \in Passwords,
         ReadAccount(r, u, p)
  PROVE  AccountsFit'
  <1> DEFINE q == [NoRequest EXCEPT !.step = "SET", !.found = account[u].status,
                     !.args = [NoArgs EXCEPT !.kind = "REGISTER", !.about = u, !.password = p]]
  <1>1. account[u].status \in {"ABSENT", "INVITED"}
    BY DEF ReadAccount, Open, AccountsFit, Inv, TypeOK, AccountType
  <1>2. Registers(q)
    BY <1>1 DEF Registers, NoRequest, NoArgs
  <1>3. \A s \in Requests : request'[s] = IF s = r THEN q ELSE request[s]
    BY DEF ReadAccount, Inv, TypeOK
  <1>4. UNCHANGED account
    BY DEF ReadAccount
  <1> HIDE DEF q
  <1> QED
    BY <1>2, <1>3, <1>4, AccountsStay

\* What addMember does to an account: one without a row gets one.
LEMMA AddFits ==
  ASSUME Inv, AccountsFit, NEW r \in Requests, Add(r)
  PROVE  /\ AccountsFit'
         /\ \A u \in Users : account[u].password # None => account'[u] = account[u]
  <1> DEFINE v == Args(r).about
  <1>1. CASE UNCHANGED account
    <2>1. \A s \in Requests, u \in Users, p \in Passwords : ~ReadAccount(s, u, p)
      BY EndEnds, StoreWatches DEF Add, ReadAccount, NoRequest, Inv, TypeOK
    <2> QED
      BY <1>1, <2>1, OthersKeepAccounts DEF Next
  <1>2. CASE account' # account
    <2>1. PICK after :
            /\ Store(r, after)
            /\ account' = [account EXCEPT ![v] =
                             IF @ = NoAccount THEN [@ EXCEPT !.status = "INVITED"] ELSE @]
      BY <1>2 DEF Add
    <2>2. v \in Users
      BY DEF Add, Inv, Fits, Asked, Args
    <2>3. account[v] = NoAccount
      BY <1>2, <2>1, <2>2 DEF Inv, TypeOK
    <2>4. \A u \in Users : account'[u] = IF u = v THEN [status |-> "INVITED", password |-> None]
                                                  ELSE account[u]
      BY <2>1, <2>2, <2>3 DEF Inv, TypeOK, NoAccount
    <2>5. ASSUME NEW s \in Requests PROVE Registers(request[s])'
      <3>1. Registers(request[s])
        BY DEF AccountsFit
      <3>2. request[s].step = "SET" => request[s].args.about \in Users
        BY DEF Inv, Fits
      <3> QED
        BY <2>1, <2>4, <3>1, <3>2, StoreWatches, NothingRegisters DEF Registers, NoRequest
    <2> QED
      BY <2>3, <2>4, <2>5 DEF AccountsFit, NoAccount
  <1> QED
    BY <1>1, <1>2

\* What register does to an account: one without a password gets one.
LEMMA WriteAccountFits ==
  ASSUME Inv, AccountsFit, NEW r \in Requests, WriteAccount(r)
  PROVE  /\ AccountsFit'
         /\ \A u \in Users : account[u].password # None =>
              account'[u].password = account[u].password \/ account[u].status = "INVITED"
  <1> DEFINE v == Args(r).about
             p == Args(r).password
  <1>1. /\ v \in Users /\ p \in Passwords /\ p # None /\ End(r) /\ v = request[r].args.about
        /\ Registers(request[r]) /\ request[r].step = "SET"
    BY AccessAssumption DEF WriteAccount, Inv, Fits, Args, AccountsFit
  <1>2. CASE UNCHANGED account
    <2>1. \A s \in Requests : Registers(request'[s]) \/ request'[s] = request[s]
      BY <1>1, EndEnds, NothingRegisters DEF Registers
    <2> QED
      BY <1>2, <2>1, AccountsStay
  <1>3. CASE SetPassword(v, p) /\ ~(request[r].found = "ABSENT" /\ account[v] # NoAccount)
    <2>1. \/ account[v] = NoAccount
          \/ account[v].status = "INVITED"
      BY <1>1, <1>3 DEF Registers
    <2>2. \A u \in Users : account'[u] =
            IF u = v THEN [status |-> IF account[v].status = "ABSENT" THEN "JOINED"
                                                                      ELSE account[v].status,
                           password |-> p]
                     ELSE account[u]
      BY <1>1, <1>3 DEF SetPassword, Inv, TypeOK
    <2>3. \A u \in Users : account[u].status = "INVITED" => account'[u].status = "INVITED"
      BY <2>2
    <2>4. ASSUME NEW s \in Requests PROVE Registers(request[s])'
      <3>1. Registers(request[s]) /\ (request[s].step = "SET" => request[s].args.about \in Users)
        BY DEF AccountsFit, Inv, Fits
      <3> QED
        BY <1>1, <2>3, <3>1, EndEnds, NothingRegisters DEF Registers, NoRequest
    <2>5. \A u \in Users : /\ account'[u].status = "ABSENT" => account'[u].password = None
                           /\ account'[u].status = "JOINED" => account'[u].password # None
      BY <1>1, <2>1, <2>2 DEF AccountsFit, NoAccount
    <2>6. \A u \in Users : account[u].password # None =>
            account'[u].password = account[u].password \/ account[u].status = "INVITED"
      BY <2>1, <2>2 DEF NoAccount
    <2> QED
      BY <2>4, <2>5, <2>6 DEF AccountsFit
  <1> QED
    BY <1>1, <1>2, <1>3 DEF WriteAccount

\* The step of PasswordIsKept.
Keeps == \A u \in Users : account[u].password # None =>
           account'[u].password = account[u].password \/ account[u].status = "INVITED"

LEMMA InitAccounts == Init => AccountsFit
  BY AccessAssumption, NothingRegisters DEF Init, AccountsFit, NoAccount

LEMMA NextAccounts ==
  ASSUME Inv, AccountsFit, [Next]_vars
  PROVE  AccountsFit' /\ Keeps
  <1>1. CASE UNCHANGED vars
    BY <1>1 DEF vars, AccountsFit, Registers, Keeps
  <1>2. CASE Next
    <2>1. ASSUME NEW r \in Requests, Add(r) PROVE AccountsFit' /\ Keeps
      BY <2>1, AddFits DEF Keeps
    <2>2. ASSUME NEW r \in Requests, WriteAccount(r) PROVE AccountsFit' /\ Keeps
      BY <2>2, WriteAccountFits DEF Keeps
    <2>3. ASSUME NEW r \in Requests, NEW u \in Users, NEW p \in Passwords, ReadAccount(r, u, p)
          PROVE  AccountsFit' /\ Keeps
      BY <2>3, ReadAccountFits DEF Keeps, ReadAccount
    <2>4. CASE \A r \in Requests : /\ ~Add(r) /\ ~WriteAccount(r)
                                   /\ \A u \in Users, p \in Passwords : ~ReadAccount(r, u, p)
      <3>1. ASSUME NEW u \in Users, NEW w \in Workspaces, CreateWorkspace(u, w)
            PROVE  UNCHANGED account
        BY <3>1 DEF CreateWorkspace
      <3>2. ASSUME NEW u \in Users, NEW p \in Passwords, Login(u, p)
            PROVE  UNCHANGED account
        BY <3>2 DEF Login
      <3>3. ASSUME NEW r \in Requests, ReadActor(r) \/ ReadMember(r) \/ Update(r) \/ Remove(r)
            PROVE  UNCHANGED account
        BY <3>3 DEF ReadActor, ReadMember, Update, Remove, Write
      <3>4. ASSUME NEW r \in Requests, NEW u \in Users, NEW w \in DOMAIN creator,
                   \/ \E about \in Users, role \in Roles : AskAdd(r, u, w, about, role)
                   \/ \E id \in DOMAIN members, role \in Roles : AskUpdate(r, u, w, id, role)
                   \/ \E id \in DOMAIN members : AskRemove(r, u, w, id)
            PROVE  UNCHANGED account
        BY <3>4 DEF AskAdd, AskUpdate, AskRemove, Guard
      <3>5. UNCHANGED account
        BY <1>2, <2>4, <3>1, <3>2, <3>3, <3>4 DEF Next
      <3> QED
        BY <1>2, <2>4, <3>5, OthersKeepAccounts DEF Keeps
    <2> QED
      BY <2>1, <2>2, <2>3, <2>4
  <1> QED
    BY <1>1, <1>2

\* A password that was set is set for good; only an address that was invited
\* may see a second registration win (auth.service.ts:30-75).
THEOREM PasswordsAreKept == Spec => PasswordIsKept
  <1>1. ASSUME Inv, AccountsFit, [Next]_vars
        PROVE  [\A u \in Users : account[u].password # None =>
                  account'[u].password = account[u].password \/ account[u].status = "INVITED"]_account
    BY <1>1, NextAccounts DEF Keeps
  <1>2. Spec => []AccountsFit
    <2>1. Inv /\ AccountsFit /\ [Next]_vars => AccountsFit'
      BY NextAccounts
    <2> QED
      BY <2>1, InitAccounts, InvHolds, PTL DEF Spec
  <1> QED
    BY <1>1, <1>2, InvHolds, PTL DEF Spec, PasswordIsKept

(***************************************************************************)
(* Ranks.                                                                  *)
(***************************************************************************)

\* One membership for a user and a workspace: (workspaceId, userId) is unique.
OneRowEach ==
  \A i, j \in DOMAIN members :
    /\ members[i] # Removed /\ members[j] # Removed
    /\ members[i].ws = members[j].ws /\ members[i].user = members[j].user
    => i = j

AboutMembers == {"ACTOR", "MEMBER", "WRITE"}

\* What a request about members knows at each of its steps: its history has the
\* role the guard saw and every role since, and what it has read has passed the
\* rules it has been through.
Knows(q) ==
  q.step \in AboutMembers =>
    /\ q.roles \cap Managers # {}
    /\ \A i \in DOMAIN members :
         members[i].ws = q.args.ws /\ members[i].user = q.args.user
           => members[i].role \in q.roles
    /\ q.step # "ACTOR" => q.actor.role \in q.roles
    /\ q.step # "WRITE" \/ q.args.kind = "ADD" => q.member = Nobody
    /\ q.args.kind = "REMOVE" => q.args.role = None
    /\ q.step = "WRITE" =>
         /\ q.args.kind = "ADD" => CanAssign(q.actor, q.args.role)
         /\ q.args.kind = "UPDATE" => CanUpdate(q.actor, q.member, q.args.role)
         /\ q.args.kind = "REMOVE" => CanRemove(q.actor, q.member)
         /\ q.args.kind # "ADD" =>
              /\ q.member.id = q.args.id
              /\ members[q.args.id] = Removed \/ members[q.args.id].ws = q.args.ws

RankInv == OneRowEach /\ \A r \in Requests : Knows(request[r])

LEMMA NothingKnown == Knows(NoRequest) /\ NoRequest.step \notin AboutMembers
  BY DEF Knows, NoRequest, AboutMembers

\* A step that writes no membership.
LEMMA RequestKnows ==
  ASSUME Inv, RankInv, UNCHANGED members, NEW r \in Requests, NEW q, Knows(q),
         request' = [request EXCEPT ![r] = q]
  PROVE  RankInv'
  <1>1. \A s \in Requests : request'[s] = IF s = r THEN q ELSE request[s]
    BY DEF Inv, TypeOK
  <1>2. OneRowEach'
    BY DEF RankInv, OneRowEach
  <1>3. ASSUME NEW s \in Requests PROVE Knows(request[s])'
    BY <1>1 DEF RankInv, Knows
  <1> QED
    BY <1>2, <1>3 DEF RankInv

LEMMA EndKnows ==
  ASSUME Inv, RankInv, UNCHANGED members, NEW r \in Requests, End(r)
  PROVE  RankInv'
  BY NothingKnown, RequestKnows DEF End

\* A write keeps what the others know, since their history sees it.
LEMMA StoreKnows ==
  ASSUME Inv, RankInv, NEW r \in Requests, NEW after, Store(r, after),
         DOMAIN members \subseteq DOMAIN after, OneRowEach',
         \A i \in DOMAIN members : \/ after[i] = Removed
                                   \/ members[i] # Removed /\ after[i].ws = members[i].ws
  PROVE  RankInv'
  <1>1. ASSUME NEW s \in Requests, s # r PROVE Knows(request[s])'
    <2> DEFINE args == request[s].args
               now == {after[i].role : i \in {i \in DOMAIN after :
                         after[i].ws = args.ws /\ after[i].user = args.user}}
    <2>1. /\ Knows(request[s]) /\ members' = after /\ request[s] \in RequestType
          /\ Fits(request[s]) /\ request'[s] = Watch(after, s)
      BY <1>1 DEF RankInv, Store, Inv, TypeOK
    <2>2. /\ request'[s].step = request[s].step /\ request'[s].args = args
          /\ request'[s].actor = request[s].actor /\ request'[s].member = request[s].member
      BY <1>1, StoreWatches
    <2>3. CASE request[s].step \in AboutMembers
      <3>1. request'[s].roles = request[s].roles \cup now
        BY <2>1, <2>3 DEF Watch, AboutMembers, RequestType
      <3>2. \A i \in DOMAIN after :
              after[i].ws = args.ws /\ after[i].user = args.user => after[i].role \in now
        OBVIOUS
      <3> HIDE DEF now
      <3>3. args.kind # "ADD" => args.id \in DOMAIN members
        BY <2>1, <2>3 DEF Fits, Asked, AboutMembers, RequestType, ArgsType, Kinds
      <3>4. request[s].step = "WRITE" /\ args.kind # "ADD" =>
              after[args.id] = Removed \/ after[args.id].ws = args.ws
        BY <2>1, <2>3, <3>3 DEF Knows
      <3> QED
        BY <2>1, <2>2, <2>3, <3>1, <3>2, <3>4 DEF Knows
    <2>4. CASE request[s].step \notin AboutMembers
      BY <2>2, <2>4 DEF Knows
    <2> QED
      BY <2>3, <2>4
  <1>2. Knows(request[r])'
    <2>1. request'[r] = NoRequest
      BY StoreWatches
    <2> QED
      BY <2>1 DEF Knows, NoRequest, AboutMembers
  <1> QED
    BY <1>1, <1>2 DEF RankInv

LEMMA CreateKnows ==
  ASSUME Inv, RankInv, NEW u \in Users, NEW w \in Workspaces, CreateWorkspace(u, w)
  PROVE  RankInv'
  <1> DEFINE row == Row(w, u, "OWNER")
             new == Len(members) + 1
  <1>1. /\ w \notin DOMAIN creator /\ members' = Append(members, row) /\ UNCHANGED request
    BY DEF CreateWorkspace
  <1>2. row.ws = w
    BY RowType1 DEF Roles
  <1>3. members \in Seq(RowType) /\ Len(members) \in Nat
    BY MembersSeq DEF Inv, TypeOK
  <1>4. row \in RowType
    BY RowType1 DEF Roles
  <1> HIDE DEF row
  <1>5. /\ DOMAIN members = 1..Len(members) /\ DOMAIN members' = DOMAIN members \cup {new}
        /\ members'[new] = row /\ \A i \in DOMAIN members : members'[i] = members[i]
    BY <1>1, <1>3, <1>4
  <1>6. \A i \in DOMAIN members : members[i].ws # w
    BY <1>1, RemovedIsNoRow DEF Inv, RowsHaveWorkspace
  <1>7. OneRowEach'
    BY <1>2, <1>5, <1>6 DEF RankInv, OneRowEach
  <1>8. ASSUME NEW r \in Requests PROVE Knows(request[r])'
    <2>1. Knows(request[r]) /\ request'[r] = request[r] /\ Fits(request[r])
      BY <1>1 DEF RankInv, Inv
    <2>2. request[r].step \in AboutMembers =>
            /\ request[r].args.ws # w
            /\ request[r].args.kind # "ADD" => request[r].args.id \in DOMAIN members
      BY <1>1, <2>1 DEF Fits, Asked, AboutMembers
    <2> QED
      BY <1>2, <1>5, <2>1, <2>2 DEF Knows
  <1> QED
    BY <1>7, <1>8 DEF RankInv

LEMMA GuardKnows ==
  ASSUME Inv, RankInv, NEW r \in Requests, NEW args \in ArgsType, Guard(r, args),
         args.ws \in DOMAIN creator, args.kind = "REMOVE" => args.role = None
  PROVE  RankInv'
  <1> DEFINE role == RoleOf(args.ws, args.user)
             q == [NoRequest EXCEPT !.step = "ACTOR", !.args = args, !.roles = {role}]
  <1>1. ASSUME NEW i \in DOMAIN members, members[i].ws = args.ws, members[i].user = args.user
        PROVE  members[i].role = role
    <2>1. PICK j \in Rows(args.ws, args.user) :
            Membership(args.ws, args.user) = [id |-> j, role |-> members[j].role]
      BY <1>1 DEF Rows, Membership
    <2>2. args.ws \in Workspaces
      BY DEF Inv, TypeOK
    <2>3. i = j
      BY <1>1, <2>1, <2>2, RemovedIsNoRow DEF Rows, RankInv, OneRowEach
    <2>4. IsMember(args.ws, args.user)
      BY <1>1 DEF IsMember, Rows
    <2> QED
      BY <2>1, <2>3, <2>4 DEF RoleOf
  <1>2. role \in Managers /\ request' = [request EXCEPT ![r] = q] /\ UNCHANGED members
    BY DEF Guard
  <1> HIDE DEF role
  <1>3. /\ q.step = "ACTOR" /\ q.args = args /\ q.roles = {role} /\ q.member = Nobody
    BY DEF NoRequest
  <1> HIDE DEF q
  <1>4. Knows(q)
    BY <1>1, <1>2, <1>3 DEF Knows, AboutMembers
  <1> QED
    BY <1>2, <1>4, RequestKnows

LEMMA AskKnows ==
  ASSUME Inv, RankInv, NEW r \in Requests, NEW u \in Users, NEW w \in DOMAIN creator,
         \/ \E about \in Users, role \in Roles : AskAdd(r, u, w, about, role)
         \/ \E id \in DOMAIN members, role \in Roles : AskUpdate(r, u, w, id, role)
         \/ \E id \in DOMAIN members : AskRemove(r, u, w, id)
  PROVE  RankInv'
  <1>0. w \in Workspaces /\ DOMAIN members \subseteq Ids
    BY MembersSeq DEF Inv, TypeOK
  <1>1. ASSUME NEW about \in Users, NEW role \in Roles, AskAdd(r, u, w, about, role)
        PROVE  RankInv'
    <2> DEFINE args == [NoArgs EXCEPT !.user = u, !.ws = w, !.about = about, !.role = role]
    <2>1. args \in ArgsType /\ args.ws = w /\ args.kind = "ADD"
      BY <1>0 DEF ArgsType, NoArgs, Kinds
    <2> QED
      BY <1>1, <2>1, GuardKnows DEF AskAdd
  <1>2. ASSUME NEW id \in DOMAIN members, NEW role \in Roles, AskUpdate(r, u, w, id, role)
        PROVE  RankInv'
    <2> DEFINE args == [NoArgs EXCEPT !.kind = "UPDATE", !.user = u, !.ws = w, !.id = id,
                                      !.role = role]
    <2>1. args \in ArgsType /\ args.ws = w /\ args.kind = "UPDATE"
      BY <1>0 DEF ArgsType, NoArgs, Kinds
    <2> QED
      BY <1>2, <2>1, GuardKnows DEF AskUpdate
  <1>3. ASSUME NEW id \in DOMAIN members, AskRemove(r, u, w, id)
        PROVE  RankInv'
    <2> DEFINE args == [NoArgs EXCEPT !.kind = "REMOVE", !.user = u, !.ws = w, !.id = id]
    <2>1. args \in ArgsType /\ args.ws = w /\ args.role = None
      BY <1>0 DEF ArgsType, NoArgs, Kinds
    <2> QED
      BY <1>3, <2>1, GuardKnows DEF AskRemove
  <1> QED
    BY <1>1, <1>2, <1>3

LEMMA ReadActorKnows ==
  ASSUME Inv, RankInv, NEW r \in Requests, ReadActor(r)
  PROVE  RankInv'
  <1> DEFINE args == Args(r)
             actor == Membership(args.ws, args.user)
  <1>0. /\ UNCHANGED members /\ args = request[r].args /\ request[r] \in RequestType
        /\ request[r].step = "ACTOR" /\ Knows(request[r])
    BY DEF ReadActor, Args, RankInv, Inv, TypeOK
  <1>1. CASE End(r)
    BY <1>0, <1>1, EndKnows
  <1>2. ASSUME NEW step \in {"MEMBER", "WRITE"}, IsMember(args.ws, args.user),
               step = "WRITE" => args.kind = "ADD" /\ CanAssign(actor, args.role),
               step = "MEMBER" => args.kind # "ADD",
               request' = [request EXCEPT ![r].step = step, ![r].actor = actor]
        PROVE  RankInv'
    <2> DEFINE q == [request[r] EXCEPT !.step = step, !.actor = actor]
    <2>1. q.step = step /\ q.args = args /\ q.actor = actor /\ q.member = request[r].member
          /\ q.roles = request[r].roles
      BY <1>0 DEF RequestType
    <2>2. actor.role \in request[r].roles
      <3>1. PICK i \in Rows(args.ws, args.user) : actor = [id |-> i, role |-> members[i].role]
        BY <1>2 DEF IsMember, Membership
      <3> QED
        BY <1>0, <3>1 DEF Rows, Knows, AboutMembers
    <2>3. request' = [request EXCEPT ![r] = q]
      BY <1>2 DEF Inv, TypeOK
    <2> HIDE DEF q, actor
    <2>4. Knows(q)
      BY <1>0, <1>2, <2>1, <2>2 DEF Knows, AboutMembers
    <2> QED
      BY <1>0, <2>3, <2>4, RequestKnows
  <1> HIDE DEF actor
  <1> QED
    BY <1>1, <1>2 DEF ReadActor, actor

LEMMA ReadMemberKnows ==
  ASSUME Inv, RankInv, NEW r \in Requests, ReadMember(r)
  PROVE  RankInv'
  <1> DEFINE args == Args(r)
             member == [id |-> args.id, role |-> members[args.id].role]
  <1>0. /\ UNCHANGED members /\ args = request[r].args /\ request[r] \in RequestType
        /\ request[r].step = "MEMBER" /\ Knows(request[r]) /\ Fits(request[r])
    BY DEF ReadMember, Args, RankInv, Inv, TypeOK
  <1>1. CASE End(r)
    BY <1>0, <1>1, EndKnows
  <1>2. ASSUME Finds(args.id, args.ws),
               IF args.kind = "UPDATE" THEN CanUpdate(request[r].actor, member, args.role)
                                       ELSE CanRemove(request[r].actor, member),
               request' = [request EXCEPT ![r].step = "WRITE", ![r].member = member]
        PROVE  RankInv'
    <2> DEFINE q == [request[r] EXCEPT !.step = "WRITE", !.member = member]
    <2>1. /\ q.step = "WRITE" /\ q.args = args /\ q.member = member
          /\ q.actor = request[r].actor /\ q.roles = request[r].roles
      BY <1>0 DEF RequestType
    <2>2. member.id = args.id /\ members[args.id].ws = args.ws /\ args.kind # "ADD"
      BY <1>0, <1>2 DEF Finds, Fits
    <2>3. request' = [request EXCEPT ![r] = q]
      BY <1>2 DEF Inv, TypeOK
    <2> HIDE DEF q, member
    <2>4. Knows(q)
      BY <1>0, <1>2, <2>1, <2>2 DEF Knows, AboutMembers
    <2> QED
      BY <1>0, <2>3, <2>4, RequestKnows
  <1> HIDE DEF member
  <1> QED
    BY <1>1, <1>2 DEF ReadMember, member

----------------------------------------------------------------------------
\* The writes, and what each may do.

LEMMA RankFacts ==
  /\ \A x \in Roles \ {"OWNER"} : Below(x, "OWNER")
  /\ \A x \in Roles \ {"OWNER", "ADMIN"} : Below(x, "ADMIN")
  /\ Below(None, "OWNER") /\ Below(None, "ADMIN")
  <1>1. /\ Rank["OWNER"] = 3 /\ Rank["ADMIN"] = 2 /\ Rank["MEMBER"] = 1 /\ Rank["VIEWER"] = 1
    BY DEF Rank, Roles
  <1> QED
    BY <1>1 DEF Below, Roles

\* The conclusion of WithinRank for one row.
MayWrite(r, i) ==
  LET args == request[r].args
      before == IF i \in DOMAIN members THEN members[i].ws ELSE args.ws
  IN /\ request[r].roles \cap Managers # {} /\ before = args.ws
     /\ i \in DOMAIN members => i = request[r].member.id
     /\ \A role \in Roles : request[r].roles = {role} =>
          Below(request[r].member.role, role) /\ Below(args.role, role)

LEMMA AddKnows ==
  ASSUME Inv, RankInv, NEW r \in Requests, Add(r)
  PROVE  RankInv' /\ \A i \in Written(r) : MayWrite(r, i)
  <1> DEFINE args == request[r].args
             row == Row(args.ws, args.about, args.role)
             new == Len(members) + 1
  <1>0. /\ request[r].step = "WRITE" /\ args.kind = "ADD" /\ Args(r) = args
        /\ Knows(request[r]) /\ Fits(request[r])
    BY DEF Add, Args, RankInv, Inv
  <1>1. args.ws \in Workspaces /\ args.about \in Users /\ args.role \in Roles
    BY <1>0 DEF Fits, Asked, Inv, TypeOK
  <1>2. CASE IsMember(args.ws, args.about)
    <2>1. End(r) /\ UNCHANGED members
      BY <1>0, <1>2 DEF Add
    <2> QED
      BY <2>1, EndKnows DEF Written
  <1>3. CASE ~IsMember(args.ws, args.about)
    <2>1. Store(r, Append(members, row)) /\ members' = Append(members, row)
      BY <1>0, <1>3 DEF Add, Store
    <2>2. row \in RowType /\ row.ws = args.ws /\ row.user = args.about
      BY <1>1, RowType1
    <2>3. members \in Seq(RowType) /\ Len(members) \in Nat
      BY MembersSeq DEF Inv, TypeOK
    <2> HIDE DEF row
    <2>4. /\ DOMAIN members = 1..Len(members) /\ DOMAIN members' = DOMAIN members \cup {new}
          /\ members'[new] = row /\ new \notin DOMAIN members
          /\ \A i \in DOMAIN members : members'[i] = members[i]
      BY <2>1, <2>2, <2>3
    <2>5. OneRowEach'
      <3>1. \A i \in DOMAIN members : ~(members[i].ws = row.ws /\ members[i].user = row.user)
        BY <1>3, <2>2 DEF IsMember, Rows
      <3> QED
        BY <2>4, <3>1 DEF RankInv, OneRowEach
    <2>6. RankInv'
      <3>1. \A i \in DOMAIN members :
              \/ members'[i] = Removed
              \/ members[i] # Removed /\ members'[i].ws = members[i].ws
        BY <2>4
      <3> QED
        BY <2>1, <2>4, <2>5, <3>1, StoreKnows
    <2>7. \A i \in Written(r) : i = new
      BY <2>4 DEF Written
    <2>8. ASSUME NEW role \in Roles, request[r].roles = {role}
          PROVE  Below(request[r].member.role, role) /\ Below(args.role, role)
      <3>1. /\ role \in Managers /\ request[r].actor.role = role /\ request[r].member = Nobody
            /\ CanAssign(request[r].actor, args.role)
        BY <1>0, <2>8 DEF Knows, AboutMembers
      <3>2. args.role # "OWNER" /\ (role = "ADMIN" => args.role # "ADMIN")
        BY <3>1 DEF CanAssign
      <3>3. request[r].member.role = None
        BY <3>1 DEF Nobody
      <3> QED
        BY <1>1, <3>1, <3>2, <3>3, RankFacts DEF Managers
    <2>9. request[r].roles \cap Managers # {}
      BY <1>0 DEF Knows, AboutMembers
    <2> QED
      BY <2>4, <2>6, <2>7, <2>8, <2>9 DEF MayWrite
  <1> QED
    BY <1>2, <1>3

LEMMA WriteKnows ==
  ASSUME Inv, RankInv, NEW r \in Requests, NEW kind \in {"UPDATE", "REMOVE"}, NEW row,
         Write(r, kind, row),
         members[Args(r).id] # Removed =>
           \/ row = Removed
           \/ row = [members[Args(r).id] EXCEPT !.role = Args(r).role] /\ kind = "UPDATE"
  PROVE  RankInv' /\ \A i \in Written(r) : MayWrite(r, i)
  <1> DEFINE args == request[r].args
             id == args.id
             after == [members EXCEPT ![id] = row]
  <1>0. /\ request[r].step = "WRITE" /\ args.kind = kind /\ Args(r) = args
        /\ Knows(request[r]) /\ Fits(request[r]) /\ request[r] \in RequestType
    BY DEF Write, Args, RankInv, Inv, TypeOK
  <1>1. id \in DOMAIN members /\ DOMAIN members = 1..Len(members) /\ Len(members) \in Nat
        /\ members \in Seq(RowType)
    BY <1>0, MembersSeq DEF Fits, Asked, Inv, TypeOK
  <1>2. CASE members[id] = Removed
    <2>1. End(r) /\ UNCHANGED members
      BY <1>0, <1>2 DEF Write
    <2> QED
      BY <2>1, EndKnows DEF Written
  <1>3. CASE members[id] # Removed
    <2>1. Store(r, after) /\ members' = after
      BY <1>0, <1>3 DEF Write, Store
    <2>2. members[id] \in [ws: Workspaces, user: Users, role: Roles]
      BY <1>1, <1>3, RemovedIsNoRow
    <2>3. row # Removed => row.ws = members[id].ws /\ row.user = members[id].user
      BY <1>0, <1>3, <2>2
    <2>4. DOMAIN after = DOMAIN members /\ after[id] = row
          /\ \A i \in DOMAIN members : i # id => after[i] = members[i]
      BY <1>1
    <2> HIDE DEF after
    <2>5. OneRowEach'
      BY <1>1, <1>3, <2>1, <2>3, <2>4 DEF RankInv, OneRowEach
    <2>6. RankInv'
      <3>1. \A i \in DOMAIN members :
              \/ after[i] = Removed
              \/ members[i] # Removed /\ after[i].ws = members[i].ws
        BY <1>1, <1>3, <2>3, <2>4
      <3> QED
        BY <2>1, <2>4, <2>5, <3>1, StoreKnows
    <2>7. \A i \in Written(r) : i = id /\ i \in DOMAIN members
      BY <2>1, <2>4 DEF Written
    <2>8. /\ request[r].roles \cap Managers # {} /\ members[id].ws = args.ws
          /\ id = request[r].member.id /\ request[r].actor.role \in request[r].roles
          /\ kind = "UPDATE" => CanUpdate(request[r].actor, request[r].member, args.role)
          /\ kind = "REMOVE" => /\ CanRemove(request[r].actor, request[r].member)
                                /\ args.role = None
      BY <1>0, <1>3 DEF Knows, AboutMembers
    <2>9. ASSUME NEW role \in Roles, request[r].roles = {role}
          PROVE  Below(request[r].member.role, role) /\ Below(args.role, role)
      <3>1. role \in Managers /\ request[r].actor.role = role
        BY <2>8, <2>9
      <3>2. /\ request[r].member.role \in Roles \cup {None}
            /\ args.role \in Roles \cup {None}
        BY <1>0 DEF RequestType, SubjectType, ArgsType
      <3>3. /\ request[r].member.role # "OWNER"
            /\ role = "ADMIN" => request[r].member.role # "ADMIN"
            /\ kind = "UPDATE" => args.role # "OWNER" /\ (role = "ADMIN" => args.role # "ADMIN")
        BY <2>8, <3>1 DEF CanUpdate, CanRemove
      <3> QED
        BY <2>8, <3>1, <3>2, <3>3, RankFacts DEF Managers
    <2> QED
      BY <2>6, <2>7, <2>8, <2>9 DEF MayWrite
  <1> QED
    BY <1>2, <1>3

\* Only a write ends a request that is about to write.
LEMMA WritesEnd ==
  ASSUME Inv, Next, NEW r \in Requests, request[r].step = "WRITE", request'[r].step = "IDLE"
  PROVE  Add(r) \/ Update(r) \/ Remove(r)
  <1>0. request[r] \in RequestType /\ request \in [Requests -> RequestType]
    BY DEF Inv, TypeOK
  <1>1. ASSUME NEW s \in Requests, s # r, End(s) PROVE FALSE
    BY <1>1, EndEnds
  <1>2. ASSUME NEW s \in Requests, s # r, NEW after, Store(s, after) PROVE FALSE
    BY <1>2, StoreWatches
  <1>3. ASSUME NEW s \in Requests, ReadActor(s) \/ ReadMember(s) \/ WriteAccount(s) PROVE FALSE
    <2>1. s # r
      BY <1>3 DEF ReadActor, ReadMember, WriteAccount
    <2>2. ~End(s)
      BY <1>1, <2>1
    <2>3. request'[r] = request[r]
      BY <1>0, <1>3, <2>1, <2>2 DEF ReadActor, ReadMember, WriteAccount
    <2> QED
      BY <2>3
  <1>4. ASSUME NEW s \in Requests, s # r, Add(s) \/ Update(s) \/ Remove(s) PROVE FALSE
    <2>1. End(s) \/ \E after : Store(s, after)
      BY <1>4 DEF Add, Update, Remove, Write
    <2> QED
      BY <1>1, <1>2, <1>4, <2>1
  <1>5. ASSUME NEW s \in Requests, NEW args, Guard(s, args) PROVE FALSE
    <2>1. s # r /\ request'[r] = request[r]
      BY <1>0, <1>5 DEF Guard
    <2> QED
      BY <2>1
  <1>6. ASSUME NEW s \in Requests, NEW u \in Users, NEW p \in Passwords, ReadAccount(s, u, p)
        PROVE  FALSE
    <2>1. s # r /\ request'[r] = request[r]
      BY <1>0, <1>6 DEF ReadAccount
    <2> QED
      BY <2>1
  <1>7. ASSUME NEW u \in Users, NEW w \in Workspaces, CreateWorkspace(u, w) PROVE FALSE
    BY <1>7 DEF CreateWorkspace
  <1>8. ASSUME NEW u \in Users, NEW p \in Passwords, Login(u, p) PROVE FALSE
    BY <1>8 DEF Login
  <1>9. ASSUME NEW s \in Requests, NEW u \in Users, NEW w \in DOMAIN creator,
               \/ \E about \in Users, role \in Roles : AskAdd(s, u, w, about, role)
               \/ \E id \in DOMAIN members, role \in Roles : AskUpdate(s, u, w, id, role)
               \/ \E id \in DOMAIN members : AskRemove(s, u, w, id)
        PROVE  FALSE
    BY <1>5, <1>9 DEF AskAdd, AskUpdate, AskRemove
  <1> QED
    BY <1>3, <1>4, <1>6, <1>7, <1>8, <1>9 DEF Next

LEMMA InitRanks == Init => RankInv
  BY NothingKnown DEF Init, RankInv, OneRowEach

LEMMA NextRanks ==
  ASSUME Inv, RankInv, [Next]_vars
  PROVE  RankInv' /\ \A r \in Requests : \A i \in Written(r) : MayWrite(r, i)
  <1>1. CASE UNCHANGED vars
    <2>1. RankInv'
      BY <1>1 DEF vars, RankInv, OneRowEach, Knows
    <2>2. \A r \in Requests : Written(r) = {}
      BY <1>1 DEF vars, Written
    <2> QED
      BY <2>1, <2>2
  <1>2. CASE Next
    <2>1. ASSUME NEW r \in Requests, Add(r) \/ Update(r) \/ Remove(r)
          PROVE  RankInv' /\ \A i \in Written(r) : MayWrite(r, i)
      <3>1. CASE Add(r)
        BY <3>1, AddKnows
      <3>2. CASE Update(r)
        BY <3>2, WriteKnows DEF Update
      <3>3. CASE Remove(r)
        BY <3>3, WriteKnows DEF Remove
      <3> QED
        BY <2>1, <3>1, <3>2, <3>3
    <2>2. ASSUME NEW r \in Requests, NEW i \in Written(r) PROVE MayWrite(r, i)
      <3>1. request[r].step = "WRITE" /\ request'[r].step = "IDLE"
        BY <2>2 DEF Written
      <3> QED
        BY <1>2, <2>1, <2>2, <3>1, WritesEnd
    <2>3. RankInv'
      <3>1. ASSUME NEW u \in Users, NEW w \in Workspaces, CreateWorkspace(u, w) PROVE RankInv'
        BY <3>1, CreateKnows
      <3>2. ASSUME NEW u \in Users, NEW p \in Passwords, Login(u, p) PROVE RankInv'
        BY <3>2 DEF Login, RankInv, OneRowEach, Knows
      <3>3. ASSUME NEW r \in Requests, ReadActor(r) \/ ReadMember(r) PROVE RankInv'
        BY <3>3, ReadActorKnows, ReadMemberKnows
      <3>4. ASSUME NEW r \in Requests, WriteAccount(r) PROVE RankInv'
        BY <3>4, EndKnows DEF WriteAccount
      <3>5. ASSUME NEW r \in Requests, NEW u \in Users, NEW p \in Passwords,
                   ReadAccount(r, u, p)
            PROVE  RankInv'
        <4> DEFINE q == [NoRequest EXCEPT !.step = "SET", !.found = account[u].status,
                           !.args = [NoArgs EXCEPT !.kind = "REGISTER", !.about = u,
                                                   !.password = p]]
        <4>1. Knows(q)
          BY DEF Knows, AboutMembers, NoRequest
        <4>2. request' = [request EXCEPT ![r] = q] /\ UNCHANGED members
          BY <3>5 DEF ReadAccount
        <4> HIDE DEF q
        <4> QED
          BY <4>1, <4>2, RequestKnows
      <3>6. ASSUME NEW r \in Requests, NEW u \in Users, NEW w \in DOMAIN creator,
                   \/ \E about \in Users, role \in Roles : AskAdd(r, u, w, about, role)
                   \/ \E id \in DOMAIN members, role \in Roles : AskUpdate(r, u, w, id, role)
                   \/ \E id \in DOMAIN members : AskRemove(r, u, w, id)
            PROVE  RankInv'
        BY <3>6, AskKnows
      <3> QED
        BY <1>2, <2>1, <3>1, <3>2, <3>3, <3>4, <3>5, <3>6 DEF Next
    <2> QED
      BY <2>2, <2>3
  <1> QED
    BY <1>1, <1>2

\* Members are added, changed and removed by managers of their workspace, who
\* deal only with roles below their own, unless their own role has changed
\* since the guard read it (workspaces.service.ts:82-180).
THEOREM ManagersKeepTheirRank == Spec => WithinRank
  <1>1. Inv /\ RankInv /\ [Next]_vars => RankInv'
    BY NextRanks
  <1>2. Spec => []RankInv
    BY <1>1, InitRanks, InvHolds, PTL DEF Spec
  <1>3. ASSUME Inv, RankInv, [Next]_vars
        PROVE  [\A r \in Requests : \A i \in Written(r) :
                  LET args == request[r].args
                      before == IF i \in DOMAIN members THEN members[i].ws ELSE args.ws
                  IN /\ request[r].roles \cap Managers # {} /\ before = args.ws
                     /\ i \in DOMAIN members => i = request[r].member.id
                     /\ \A role \in Roles : request[r].roles = {role} =>
                          Below(request[r].member.role, role) /\ Below(args.role, role)]_vars
    BY <1>3, NextRanks DEF MayWrite
  <1> QED
    BY <1>2, <1>3, InvHolds, PTL DEF Spec, WithinRank

=============================================================================
