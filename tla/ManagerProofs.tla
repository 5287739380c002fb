--------------------------- MODULE ManagerProofs ---------------------------
(***************************************************************************)
(* Theorems about Manager, for every number of processes, organizations,   *)
(* users, invitations, tokens and addresses, every expiry and bulk limit,  *)
(* and whatever may fail.                                                  *)
(***************************************************************************)
EXTENDS Manager, FiniteSetTheorems, TLAPS

-----------------------------------------------------------------------------
(* Type correctness *)

\* Blank, field by field, and what EXCEPT makes of it.
LEMMA BlankType == Blank \in Request
  BY DEF Blank, NoUsers, Request, RequestRecord, HoldsItsArguments, Pc

LEMMA BlankFields == /\ Blank \in RequestRecord
                     /\ Blank.orow = Nil /\ Blank.urows = NoUsers
                     /\ Blank.newUser = Nil /\ Blank.irow = Nil
                     /\ Blank.inv = Nil /\ Blank.todo = <<>> /\ Blank.pc = "idle"
  BY DEF Blank, NoUsers, RequestRecord, Pc

LEMMA BecomeType ==
  ASSUME TypeOK, NEW p \in Procs, NEW r \in Request, Become(p, r)
  PROVE  req' \in [Procs -> Request]
  BY DEF TypeOK, Become

\* The rows a table stores are rows.
LEMMA StoredType ==
  ASSUME TypeOK
  PROVE  /\ \A o \in Stored(organizations) : o \in OrgId /\ organizations[o] \in OrgRow
         /\ \A u \in Stored(users) : u \in UserId /\ users[u] \in UserRow
         /\ \A i \in Stored(invitations) : i \in InvId /\ invitations[i] \in InvRow
  BY DEF TypeOK, StorageTypeOK, Stored

LEMMA NewUserType ==
  ASSUME NEW o \in OrgId, NEW e \in Email, NEW role \in Role
  PROVE  NewUser(o, e, role) \in UserRow
  BY DEF NewUser, UserRow, Password, Time

LEMMA HoldUserType ==
  ASSUME NEW u \in UserId, NEW row \in UserRow
  PROVE  HoldUser(u, row) \in [UserId -> UserRow \cup {Nil}]
  BY DEF HoldUser, NoUsers

LEMMA HoldUserHolds ==
  ASSUME NEW u \in UserId, NEW row \in UserRow
  PROVE  \E v \in UserId : HoldUser(u, row)[v] # Nil
  BY NilIsNoRow DEF HoldUser, NoUsers

LEMMA RestType ==
  ASSUME NEW o \in OrgId, NEW rest \in Seq(Email)
  PROVE  InviteRest(o, rest) \in Request
<1>1. CASE rest = <<>>
  BY <1>1, BlankType DEF InviteRest
<1>2. CASE rest # <<>>
  BY <1>2, BlankFields, NilIsNoRow
     DEF InviteRest, Request, RequestRecord, HoldsItsArguments, Op, Pc
<1> QED
  BY <1>1, <1>2

LEMMA InviteType ==
  ASSUME TypeOK, NEW p \in Procs, NEW op \in Op, NEW o \in OrgId, NEW e \in Email,
         NEW rest \in Seq(Email), Invite(p, op, o, e, rest)
  PROVE  /\ invitations' \in [InvId -> InvRow \cup {Nil}]
         /\ issuedTo' \in [Token -> InvId \cup {Nil}]
         /\ req' \in [Procs -> Request]
<1> DEFINE Row(t) == [org |-> o, email |-> e, token |-> t,
                      expiresAt |-> CalculateExpiry, status |-> "pending"]
           Served(i, t) == [Blank EXCEPT !.op = op, !.pc = "sendMail", !.org = o,
                                         !.inv = i, !.irow = Row(t), !.todo = rest]
<1>1. PICK i \in InvId, t \in Token :
        /\ CreateInvitation(i, Row(t))
        /\ issuedTo' = [issuedTo EXCEPT ![t] = i]
        /\ Become(p, Served(i, t))
  BY DEF Invite, NewInvitation
<1>2. Row(t) \in InvRow
  BY ConfigAssumption DEF InvRow, Status, CalculateExpiry, TypeOK
<1>3. Served(i, t) \in Request
  <2> HIDE DEF Row
  <2>1. Served(i, t) \in RequestRecord
    BY <1>2, BlankFields DEF RequestRecord, Op, Pc
  <2>2. /\ Served(i, t).pc = "sendMail" /\ Served(i, t).orow = Nil
        /\ Served(i, t).inv # Nil /\ Served(i, t).irow # Nil /\ Served(i, t).org # Nil
    BY <1>2, BlankFields, NilIsNoRow DEF RequestRecord
  <2> QED
    BY ONLY <2>1, <2>2 DEF Request, HoldsItsArguments
<1> HIDE DEF Row, Served
<1>4. invitations' \in [InvId -> InvRow \cup {Nil}]
  BY <1>1, <1>2 DEF CreateInvitation, TypeOK, StorageTypeOK
<1>5. req' \in [Procs -> Request]
  BY <1>1, <1>3, BecomeType
<1> QED
  BY <1>1, <1>4, <1>5 DEF TypeOK

LEMMA TypeInit == Init => TypeOK
  BY BlankType, ConfigAssumption DEF Init, StorageInit, TypeOK, StorageTypeOK

\* What an action that only moves its request on has to show.
LEMMA MoveType ==
  ASSUME TypeOK, NEW p \in Procs, NEW r \in Request, Become(p, r),
         UNCHANGED <<tables, now, issuedTo, lastMailed>>
  PROVE  TypeOK'
  BY BecomeType DEF TypeOK, StorageTypeOK, tables

LEMMA BulkArguments ==
  ASSUME TypeOK, NEW p \in Procs, At(p, "inviteNext")
  PROVE  /\ req[p].org \in OrgId
         /\ Head(req[p].todo) \in Email /\ Tail(req[p].todo) \in Seq(Email)
<1>1. req[p].org \in OrgId /\ req[p].todo \in Seq(Email) /\ req[p].todo # <<>>
  BY DEF At, TypeOK, Request, RequestRecord, HoldsItsArguments
<1> QED
  BY <1>1

LEMMA SendArguments ==
  ASSUME TypeOK, NEW p \in Procs, At(p, "sendMail")
  PROVE  /\ req[p].inv \in InvId /\ req[p].irow \in InvRow
         /\ req[p].todo \in Seq(Email)
         /\ req[p].todo # <<>> => req[p].org \in OrgId
<1>1. req[p] \in RequestRecord /\ HoldsItsArguments(req[p]) /\ req[p].pc = "sendMail"
  BY DEF At, TypeOK, Request
<1> QED
  BY <1>1 DEF RequestRecord, HoldsItsArguments

LEMMA StartDeletionType ==
  ASSUME TypeOK, NEW p \in Procs, NEW op \in Op \ {"UpdatePassword"}, NEW o \in OrgId, StartDeletion(p, op, o),
         UNCHANGED <<tables, now, issuedTo, lastMailed>>
  PROVE  TypeOK'
<1> DEFINE R == [Blank EXCEPT !.op = op, !.pc = "readMembers", !.org = o,
                              !.orow = DeletedOrganization(organizations[o])]
<1>1. organizations[o] \in OrgRow
  BY DEF StartDeletion, TypeOK, StorageTypeOK
<1>2. DeletedOrganization(organizations[o]) \in OrgRow
  BY <1>1 DEF DeletedOrganization, OrgRow, Time
<1>3. R \in Request
  BY <1>2, BlankFields, NilIsNoRow DEF Request, RequestRecord, HoldsItsArguments, Pc
<1> QED
  BY <1>3, MoveType DEF StartDeletion

LEMMA TypeNext == TypeOK /\ [Next]_vars => TypeOK'
<1> SUFFICES ASSUME TypeOK, [Next]_vars PROVE TypeOK'
  OBVIOUS
<1> USE BlankType
<1>1. ASSUME NEW p \in Procs, CreateOrganizationWithUser(p) PROVE TypeOK'
  <2> DEFINE R(o, e) == [Blank EXCEPT !.op = "CreateOrganizationWithUser",
                                      !.pc = "createUser",
                                      !.newUser = NewUser(o, e, "manager")]
  <2>1. PICK o \in OrgId, e \in Email : CreateOrganization(o, NewOrganization) /\ Become(p, R(o, e))
    BY <1>1 DEF CreateOrganizationWithUser
  <2>2. NewUser(o, e, "manager") \in UserRow
    BY NewUserType DEF Role
  <2>3. R(o, e) \in Request
    <3>1. R(o, e) \in RequestRecord
      BY <2>2, BlankFields DEF RequestRecord, Op, Pc
    <3>2. R(o, e).pc = "createUser" /\ R(o, e).newUser # Nil /\ R(o, e).orow = Nil /\ R(o, e).todo = <<>>
      BY <2>2, BlankFields, NilIsNoRow DEF RequestRecord
    <3> QED
      BY ONLY <3>1, <3>2 DEF Request, HoldsItsArguments
  <2>4. req' \in [Procs -> Request]
    BY <2>1, <2>3, BecomeType
  <2>5. organizations' \in [OrgId -> OrgRow \cup {Nil}]
    BY <2>1 DEF CreateOrganization, NewOrganization, TypeOK, StorageTypeOK, OrgRow, Time
  <2> QED
    BY <1>1, <2>4, <2>5 DEF CreateOrganizationWithUser, TypeOK, StorageTypeOK
<1>2. ASSUME NEW p \in Procs, CreateUserWithPassword(p) PROVE TypeOK'
  <2>1. req' \in [Procs -> Request]
    BY <1>2, BecomeType DEF CreateUserWithPassword, Return
  <2>2. users' \in [UserId -> UserRow \cup {Nil}]
    <3>1. req[p].newUser \in UserRow \cup {Nil}
      BY DEF TypeOK, Request, RequestRecord
    <3> QED
      BY <1>2, <3>1 DEF CreateUserWithPassword, CreateUser, TypeOK, StorageTypeOK
  <2> QED
    BY <1>2, <2>1, <2>2 DEF CreateUserWithPassword, TypeOK, StorageTypeOK
<1>3. ASSUME NEW p \in Procs, InviteUser(p) PROVE TypeOK'
  <2>1. PICK o \in OrgId, e \in Email : Invite(p, "InviteUser", o, e, <<>>)
    BY <1>3 DEF InviteUser
  <2>2. QED
    <3>1. "InviteUser" \in Op /\ <<>> \in Seq(Email)
      BY DEF Op
    <3>2. /\ invitations' \in [InvId -> InvRow \cup {Nil}]
          /\ issuedTo' \in [Token -> InvId \cup {Nil}]
          /\ req' \in [Procs -> Request]
      BY <2>1, <3>1, InviteType
    <3> QED
      BY <1>3, <3>2 DEF InviteUser, TypeOK, StorageTypeOK
<1>4. ASSUME NEW p \in Procs, InviteUsers(p) PROVE TypeOK'
  <2>1. PICK o \in OrgId, n \in 1..MaxBulkInviteCount :
          \E emails \in [1..n -> Email] : Become(p, InviteRest(o, emails))
    BY <1>4 DEF InviteUsers
  <2>2. PICK emails \in [1..n -> Email] : Become(p, InviteRest(o, emails))
    BY <2>1
  <2>3. emails \in Seq(Email)
    BY ConfigAssumption
  <2>4. InviteRest(o, emails) \in Request
    BY <2>3, RestType
  <2> QED
    BY <1>4, <2>2, <2>4, MoveType DEF InviteUsers
<1>5. ASSUME NEW p \in Procs, InviteNext(p) PROVE TypeOK'
  <2>1. Invite(p, "InviteUsers", req[p].org, Head(req[p].todo), Tail(req[p].todo))
    BY <1>5 DEF InviteNext
  <2>2. req[p].org \in OrgId /\ Head(req[p].todo) \in Email /\ Tail(req[p].todo) \in Seq(Email)
    BY <1>5, BulkArguments DEF InviteNext
  <2> QED
    BY <1>5, <2>1, <2>2, InviteType DEF InviteNext, Op, TypeOK, StorageTypeOK
<1>6. ASSUME NEW p \in Procs, InviteNextFails(p) PROVE TypeOK'
  <2>1. req[p].org \in OrgId /\ Tail(req[p].todo) \in Seq(Email)
    BY <1>6, BulkArguments DEF InviteNextFails
  <2>2. InviteRest(req[p].org, Tail(req[p].todo)) \in Request
    BY <2>1, RestType
  <2> QED
    BY <1>6, <2>2, MoveType DEF InviteNextFails
<1>7. ASSUME NEW p \in Procs, SendMail(p) PROVE TypeOK'
  <2>1. /\ req[p].inv \in InvId /\ req[p].irow \in InvRow
        /\ req[p].todo \in Seq(Email)
        /\ req[p].todo # <<>> => req[p].org \in OrgId
    BY <1>7, SendArguments DEF SendMail
  <2>2. InviteRest(req[p].org, req[p].todo) \in Request
    <3>1. CASE req[p].todo = <<>>
      BY <3>1 DEF InviteRest
    <3>2. CASE req[p].todo # <<>>
      BY <3>2, <2>1, RestType
    <3> QED
      BY <3>1, <3>2
  <2>3. req' \in [Procs -> Request]
    BY <1>7, <2>2, BecomeType DEF SendMail
  <2>4. lastMailed' \in [InvId -> Mail \cup {Nil}]
    BY <1>7, <2>1 DEF SendMail, TypeOK, Mail, InvRow
  <2> QED
    BY <1>7, <2>3, <2>4 DEF SendMail, TypeOK, StorageTypeOK, tables
<1>8. ASSUME NEW p \in Procs, ResendInvitation(p) PROVE TypeOK'
  <2> DEFINE R(i, t) == [Blank EXCEPT !.op = "ResendInvitation", !.pc = "saveInvitation",
                                      !.org = invitations[i].org, !.inv = i,
                                      !.irow = Renewed(invitations[i], t)]
  <2>1. PICK i \in Stored(invitations), t \in Token :
          /\ issuedTo' = [issuedTo EXCEPT ![t] = i]
          /\ Become(p, R(i, t))
    BY <1>8 DEF ResendInvitation
  <2>2. i \in InvId /\ invitations[i] \in InvRow /\ invitations[i].org \in OrgId
    BY StoredType DEF InvRow
  <2>3. Renewed(invitations[i], t) \in InvRow
    <3>1. CalculateExpiry \in Int
      BY ConfigAssumption DEF CalculateExpiry, TypeOK
    <3> QED
      BY <2>2, <3>1 DEF Renewed, InvRow, Status
  <2>4. R(i, t) \in Request
    <3>1. R(i, t) \in RequestRecord
      BY <2>2, <2>3, BlankFields DEF RequestRecord, Op, Pc
    <3>2. R(i, t).pc = "saveInvitation" /\ R(i, t).inv # Nil /\ R(i, t).irow # Nil /\ R(i, t).orow = Nil /\ R(i, t).todo = <<>>
      BY <2>2, <2>3, BlankFields, NilIsNoRow DEF RequestRecord
    <3> QED
      BY ONLY <3>1, <3>2 DEF Request, HoldsItsArguments
  <2>5. req' \in [Procs -> Request]
    BY <2>1, <2>4, BecomeType
  <2> QED
    BY <1>8, <2>1, <2>2, <2>5 DEF ResendInvitation, TypeOK, StorageTypeOK, tables
<1>9. ASSUME NEW p \in Procs, AcceptInvitation(p) PROVE TypeOK'
  <2> DEFINE R(i) == [Blank EXCEPT !.op = "AcceptInvitation", !.pc = "createUser",
                         !.newUser = NewUser(invitations[i].org, invitations[i].email, "user")]
  <2>1. PICK t \in Token : \E i \in GetInvitationByToken(t) : Become(p, R(i))
    BY <1>9 DEF AcceptInvitation
  <2>2. PICK i \in GetInvitationByToken(t) : Become(p, R(i))
    BY <2>1
  <2>3. invitations[i] \in InvRow
    BY StoredType DEF GetInvitationByToken
  <2>4. NewUser(invitations[i].org, invitations[i].email, "user") \in UserRow
    BY <2>3, NewUserType DEF InvRow, Role
  <2>5. R(i) \in Request
    <3>1. R(i) \in RequestRecord
      BY <2>4, BlankFields DEF RequestRecord, Op, Pc
    <3>2. R(i).pc = "createUser" /\ R(i).newUser # Nil /\ R(i).orow = Nil /\ R(i).todo = <<>>
      BY <2>4, BlankFields, NilIsNoRow DEF RequestRecord
    <3> QED
      BY ONLY <3>1, <3>2 DEF Request, HoldsItsArguments
  <2> QED
    BY <1>9, <2>2, <2>5, MoveType DEF AcceptInvitation
<1>10. ASSUME NEW p \in Procs, RejectInvitation(p) PROVE TypeOK'
  <2> DEFINE R(i) == [Blank EXCEPT !.op = "RejectInvitation", !.pc = "saveInvitation", !.inv = i,
                                   !.irow = [invitations[i] EXCEPT !.status = "rejected"]]
  <2>1. PICK t \in Token : \E i \in GetInvitationByToken(t) : Become(p, R(i))
    BY <1>10 DEF RejectInvitation
  <2>2. PICK i \in GetInvitationByToken(t) : Become(p, R(i))
    BY <2>1
  <2>3. i \in InvId /\ invitations[i] \in InvRow
    BY StoredType DEF GetInvitationByToken
  <2>4. [invitations[i] EXCEPT !.status = "rejected"] \in InvRow
    BY <2>3 DEF InvRow, Status
  <2>5. R(i) \in Request
    <3>1. R(i) \in RequestRecord
      BY <2>3, <2>4, BlankFields DEF RequestRecord, Op, Pc
    <3>2. R(i).pc = "saveInvitation" /\ R(i).inv # Nil /\ R(i).irow # Nil /\ R(i).orow = Nil /\ R(i).todo = <<>>
      BY <2>3, <2>4, BlankFields, NilIsNoRow DEF RequestRecord
    <3> QED
      BY ONLY <3>1, <3>2 DEF Request, HoldsItsArguments
  <2> QED
    BY <1>10, <2>2, <2>5, MoveType DEF RejectInvitation
<1>11. ASSUME NEW p \in Procs, SaveInvitation(p) PROVE TypeOK'
  <2>1. req[p] \in Request /\ req[p].pc = "saveInvitation"
    BY <1>11 DEF SaveInvitation, At, TypeOK
  <2>2. [req[p] EXCEPT !.pc = "sendMail"] \in Request
    <3> DEFINE R == [req[p] EXCEPT !.pc = "sendMail"]
    <3>1. req[p] \in RequestRecord /\ HoldsItsArguments(req[p])
      BY <2>1 DEF Request
    <3>2. /\ R \in RequestRecord /\ R.pc = "sendMail"
          /\ R.op = req[p].op /\ R.org = req[p].org /\ R.orow = req[p].orow
          /\ R.inv = req[p].inv /\ R.irow = req[p].irow /\ R.todo = req[p].todo
      BY <3>1 DEF RequestRecord, Pc
    <3> HIDE DEF R
    <3>3. HoldsItsArguments(R)
      BY <2>1, <3>1, <3>2 DEF HoldsItsArguments
    <3> QED
      BY <3>2, <3>3 DEF Request, R
  <2>3. req' \in [Procs -> Request]
    BY <1>11, <2>2, BecomeType DEF SaveInvitation
  <2>4. req[p].irow \in InvRow
    BY <2>1 DEF Request, RequestRecord, HoldsItsArguments
  <2>5. invitations' \in [InvId -> InvRow \cup {Nil}]
    BY <1>11, <2>4 DEF SaveInvitation, UpdateInvitation, TypeOK, StorageTypeOK
  <2> QED
    BY <1>11, <2>3, <2>5 DEF SaveInvitation, TypeOK, StorageTypeOK
<1>12. ASSUME NEW p \in Procs, UpdatePassword(p) PROVE TypeOK'
  <2> DEFINE R(u, o) == [Blank EXCEPT !.op = "UpdatePassword", !.pc = "saveUsers",
                                      !.org = o, !.email = users[u].email,
                                      !.urows = HoldUser(u, WithPassword(users[u]))]
  <2>1. PICK u \in Stored(users), o \in OrgId : Become(p, R(u, o))
    BY <1>12 DEF UpdatePassword
  <2>2. u \in UserId /\ users[u] \in UserRow
    BY StoredType
  <2>3. WithPassword(users[u]) \in UserRow
    BY <2>2 DEF WithPassword, UserRow, Password
  <2>4. R(u, o) \in Request
    <3>1. users[u].email \in Email
      BY <2>2 DEF UserRow
    <3>2. HoldUser(u, WithPassword(users[u])) \in [UserId -> UserRow \cup {Nil}]
      BY <2>2, <2>3, HoldUserType
    <3>3. R(u, o) \in RequestRecord
      BY <3>1, <3>2, BlankFields DEF RequestRecord, Op, Pc
    <3>4. /\ R(u, o).pc = "saveUsers" /\ R(u, o).orow = Nil /\ R(u, o).todo = <<>> /\ R(u, o).org # Nil /\ R(u, o).email # Nil
          /\ R(u, o).urows = HoldUser(u, WithPassword(users[u]))
      BY <3>1, BlankFields, NilIsNoRow DEF RequestRecord
    <3>5. \E v \in UserId : R(u, o).urows[v] # Nil
      BY <3>4, <2>2, <2>3, HoldUserHolds
    <3> QED
      BY ONLY <3>3, <3>4, <3>5 DEF Request, HoldsItsArguments
  <2> QED
    BY <1>12, <2>1, <2>4, MoveType DEF UpdatePassword
<1>13. ASSUME NEW p \in Procs, ReadPending(p) PROVE TypeOK'
  <2> DEFINE R(i) == [Blank EXCEPT !.op = "UpdatePassword", !.pc = "saveInvitation", !.inv = i,
                                   !.irow = [invitations[i] EXCEPT !.status = "accepted"]]
  <2>1. CASE Return(p)
    BY <1>13, <2>1, MoveType DEF ReadPending, Return
  <2>2. ASSUME NEW i \in PendingFor(req[p].org, req[p].email), Become(p, R(i)) PROVE TypeOK'
    <3>1. i \in InvId /\ invitations[i] \in InvRow
      BY StoredType DEF PendingFor, GetInvitationsByOrganizationID
    <3>2. [invitations[i] EXCEPT !.status = "accepted"] \in InvRow
      BY <3>1 DEF InvRow, Status
    <3>3. R(i) \in Request
      <4>1. R(i) \in RequestRecord
        BY <3>1, <3>2, BlankFields DEF RequestRecord, Op, Pc
      <4>2. R(i).pc = "saveInvitation" /\ R(i).inv # Nil /\ R(i).irow # Nil /\ R(i).orow = Nil /\ R(i).todo = <<>>
        BY <3>1, <3>2, BlankFields, NilIsNoRow DEF RequestRecord
      <4> QED
        BY ONLY <4>1, <4>2 DEF Request, HoldsItsArguments
    <3> QED
      BY <1>13, <2>2, <3>3, MoveType DEF ReadPending
  <2> QED
    BY <1>13, <2>1, <2>2 DEF ReadPending
<1>14. ASSUME NEW p \in Procs, UpdateProfile(p) PROVE TypeOK'
  <2> DEFINE R(u) == [Blank EXCEPT !.op = "UpdateProfile", !.pc = "saveUsers",
                                   !.urows = HoldUser(u, users[u])]
  <2>1. PICK u \in Stored(users) : Become(p, R(u))
    BY <1>14 DEF UpdateProfile
  <2>2. u \in UserId /\ users[u] \in UserRow
    BY StoredType
  <2>3. R(u) \in Request
    <3>1. HoldUser(u, users[u]) \in [UserId -> UserRow \cup {Nil}]
      BY <2>2, HoldUserType
    <3>2. R(u) \in RequestRecord
      BY <3>1, BlankFields DEF RequestRecord, Op, Pc
    <3>3. /\ R(u).pc = "saveUsers" /\ R(u).orow = Nil /\ R(u).todo = <<>> /\ R(u).op = "UpdateProfile"
         /\ R(u).urows = HoldUser(u, users[u])
      BY BlankFields DEF RequestRecord
    <3>4. \E v \in UserId : R(u).urows[v] # Nil
      BY <3>3, <2>2, HoldUserHolds
    <3> QED
      BY ONLY <3>2, <3>3, <3>4 DEF Request, HoldsItsArguments
  <2> QED
    BY <1>14, <2>1, <2>3, MoveType DEF UpdateProfile
<1>15. ASSUME NEW p \in Procs, DeleteUser(p) PROVE TypeOK'
  <2> DEFINE R(u) == [Blank EXCEPT !.op = "DeleteUser", !.pc = "saveUsers",
                                   !.urows = HoldUser(u, DeletedUser(users[u]))]
  <2>1. PICK u \in Stored(users), o \in OrgId : \/ Become(p, R(u))
                                                \/ StartDeletion(p, "DeleteUser", o)
    BY <1>15 DEF DeleteUser
  <2>2. u \in UserId /\ users[u] \in UserRow
    BY StoredType
  <2>3. CASE Become(p, R(u))
    <3>1. DeletedUser(users[u]) \in UserRow
      BY <2>2 DEF DeletedUser, UserRow, Time
    <3>2. R(u) \in Request
      <4>1. HoldUser(u, DeletedUser(users[u])) \in [UserId -> UserRow \cup {Nil}]
        BY <2>2, <3>1, HoldUserType
      <4>2. R(u) \in RequestRecord
        BY <4>1, BlankFields DEF RequestRecord, Op, Pc
      <4>3. /\ R(u).pc = "saveUsers" /\ R(u).orow = Nil /\ R(u).todo = <<>> /\ R(u).op = "DeleteUser"
           /\ R(u).urows = HoldUser(u, DeletedUser(users[u]))
        BY BlankFields DEF RequestRecord
      <4>4. \E v \in UserId : R(u).urows[v] # Nil
        BY <4>3, <2>2, <3>1, HoldUserHolds
      <4> QED
        BY ONLY <4>2, <4>3, <4>4 DEF Request, HoldsItsArguments
    <3> QED
      BY <1>15, <2>3, <3>2, MoveType DEF DeleteUser
  <2>4. CASE StartDeletion(p, "DeleteUser", o)
    BY <1>15, <2>2, <2>4, StartDeletionType, MoveType DEF DeleteUser, Op
  <2> QED
    BY <2>1, <2>3, <2>4
<1>16. ASSUME NEW p \in Procs, DeleteOrganization(p) PROVE TypeOK'
  BY <1>16, StartDeletionType, MoveType DEF DeleteOrganization, Op
<1>17. ASSUME NEW p \in Procs, ReadMembers(p) PROVE TypeOK'
  <2> DEFINE Rows(listed) == [u \in UserId |-> IF u \in listed THEN DeletedUser(users[u]) ELSE Nil]
             R(listed) == [req[p] EXCEPT
                               !.pc = IF listed = {} THEN "saveOrganization" ELSE "saveUsers",
                               !.urows = Rows(listed)]
  <2>1. PICK listed \in {GetUsersByOrganizationID(req[p].org), {}} : Become(p, R(listed))
    BY <1>17 DEF ReadMembers
  <2>2. listed \subseteq Stored(users)
    BY DEF GetUsersByOrganizationID
  <2>3. \A u \in listed : u \in UserId /\ DeletedUser(users[u]) \in UserRow
    BY <2>2, StoredType DEF DeletedUser, UserRow, Time
  <2>4. req[p] \in Request /\ req[p].pc = "readMembers"
    BY <1>17 DEF ReadMembers, At, TypeOK
  <2>5. Rows(listed) \in [UserId -> UserRow \cup {Nil}]
    BY <2>3
  <2>6. listed # {} => \E u \in UserId : Rows(listed)[u] # Nil
    BY <2>3, NilIsNoRow
  <2>7. R(listed) \in Request
    <3> DEFINE next == IF listed = {} THEN "saveOrganization" ELSE "saveUsers"
    <3>1. req[p] \in RequestRecord /\ HoldsItsArguments(req[p])
      BY <2>4 DEF Request
    <3>2. next \in Pc
      BY DEF Pc
    <3> HIDE DEF Rows, next
    <3>3. [req[p] EXCEPT !.pc = next, !.urows = Rows(listed)] \in RequestRecord
      BY <2>5, <3>1, <3>2 DEF RequestRecord
    <3>4. R(listed) \in RequestRecord
      BY <3>3 DEF next
    <3>5. /\ R(listed).org = req[p].org /\ R(listed).op = req[p].op
          /\ R(listed).orow = req[p].orow /\ R(listed).todo = req[p].todo
          /\ R(listed).urows = Rows(listed)
          /\ R(listed).pc = next
      BY <3>1 DEF RequestRecord, next
    <3>6. req[p].orow # Nil /\ req[p].org # Nil /\ req[p].op # "UpdatePassword"
      BY <2>4, <3>1 DEF HoldsItsArguments
    <3>7. \/ next = "saveOrganization"
          \/ next = "saveUsers" /\ listed # {}
      BY DEF next
    <3> HIDE DEF R
    <3>8. HoldsItsArguments(R(listed))
      BY <2>6, <3>5, <3>6, <3>7 DEF HoldsItsArguments
    <3> QED
      BY <3>4, <3>8 DEF Request
  <2> QED
    BY <1>17, <2>1, <2>7, MoveType DEF ReadMembers
<1>18. ASSUME NEW p \in Procs, SaveUser(p) PROVE TypeOK'
  <2>1. /\ req[p] \in RequestRecord /\ HoldsItsArguments(req[p])
        /\ req[p].pc = "saveUsers"
    BY <1>18 DEF SaveUser, At, TypeOK, Request
  <2> DEFINE rest(u) == Saved(req[p].urows, u)
  <2>2. PICK u \in Stored(req[p].urows) :
          /\ UpdateUser(u, req[p].urows[u])
          /\ \/ /\ Stored(rest(u)) # {}
                /\ Become(p, [req[p] EXCEPT !.urows = rest(u)])
             \/ /\ Stored(rest(u)) = {} /\ req[p].orow # Nil
                /\ Become(p, [req[p] EXCEPT !.urows = rest(u), !.pc = "saveOrganization"])
             \/ /\ Stored(rest(u)) = {} /\ req[p].op = "UpdatePassword"
                /\ Become(p, [req[p] EXCEPT !.urows = rest(u), !.pc = "readPending"])
             \/ /\ Stored(rest(u)) = {} /\ req[p].orow = Nil /\ req[p].op # "UpdatePassword"
                /\ Return(p)
    BY <1>18 DEF SaveUser
  <2>3. req[p].urows \in [UserId -> UserRow \cup {Nil}]
    BY <2>1 DEF RequestRecord
  <2>4. rest(u) \in [UserId -> UserRow \cup {Nil}]
    BY <2>3 DEF Saved
  <2>5. Stored(rest(u)) = {v \in UserId : rest(u)[v] # Nil}
    BY <2>4 DEF Stored
  <2>6. req[p].todo # <<>> => req[p].org # Nil
    BY <2>1 DEF HoldsItsArguments
  <2>7. req[p].op = "UpdatePassword" => req[p].org # Nil /\ req[p].email # Nil
    BY <2>1 DEF HoldsItsArguments
  <2>8. req[p].orow # Nil => req[p].org # Nil /\ req[p].op # "UpdatePassword"
    BY <2>1 DEF HoldsItsArguments
  <2> HIDE DEF rest
  <2>9. req' \in [Procs -> Request]
    <3>1. CASE Stored(rest(u)) # {} /\ Become(p, [req[p] EXCEPT !.urows = rest(u)])
      <4> DEFINE R == [req[p] EXCEPT !.urows = rest(u)]
      <4>1. /\ R \in RequestRecord /\ R.pc = "saveUsers" /\ R.urows = rest(u)
            /\ R.op = req[p].op /\ R.org = req[p].org /\ R.orow = req[p].orow
            /\ R.email = req[p].email /\ R.todo = req[p].todo
        BY <2>1, <2>4 DEF RequestRecord
      <4>2. \E v \in UserId : rest(u)[v] # Nil
        BY <2>5, <3>1
      <4>3. R \in Request
        <5> HIDE DEF R
        <5> QED
          BY <2>6, <2>7, <2>8, <4>1, <4>2 DEF Request, HoldsItsArguments
      <4> QED
        BY <3>1, <4>3, BecomeType
    <3>2. CASE req[p].orow # Nil /\ Become(p, [req[p] EXCEPT !.urows = rest(u), !.pc = "saveOrganization"])
      <4> DEFINE R == [req[p] EXCEPT !.urows = rest(u), !.pc = "saveOrganization"]
      <4>1. /\ R \in RequestRecord /\ R.pc = "saveOrganization"
            /\ R.op = req[p].op /\ R.org = req[p].org /\ R.orow = req[p].orow
            /\ R.todo = req[p].todo
        BY <2>1, <2>4 DEF RequestRecord, Pc
      <4>2. R \in Request
        <5> HIDE DEF R
        <5> QED
          BY <2>6, <2>8, <3>2, <4>1 DEF Request, HoldsItsArguments
      <4> QED
        BY <3>2, <4>2, BecomeType
    <3>3. CASE req[p].op = "UpdatePassword" /\ Become(p, [req[p] EXCEPT !.urows = rest(u), !.pc = "readPending"])
      <4> DEFINE R == [req[p] EXCEPT !.urows = rest(u), !.pc = "readPending"]
      <4>1. /\ R \in RequestRecord /\ R.pc = "readPending"
            /\ R.op = req[p].op /\ R.org = req[p].org /\ R.orow = req[p].orow
            /\ R.email = req[p].email /\ R.todo = req[p].todo
        BY <2>1, <2>4 DEF RequestRecord, Pc
      <4>2. R \in Request
        <5> HIDE DEF R
        <5> QED
          BY <2>7, <2>8, <3>3, <4>1 DEF Request, HoldsItsArguments
      <4> QED
        BY <3>3, <4>2, BecomeType
    <3>4. CASE Return(p)
      BY <3>4, BecomeType DEF Return
    <3> QED
      BY <2>2, <3>1, <3>2, <3>3, <3>4
  <2>10. users' \in [UserId -> UserRow \cup {Nil}]
    <3>1. u \in UserId /\ req[p].urows[u] \in UserRow \cup {Nil}
      BY <2>3 DEF Stored
    <3> QED
      BY <2>2, <3>1 DEF UpdateUser, TypeOK, StorageTypeOK
  <2> QED
    BY <1>18, <2>9, <2>10 DEF SaveUser, TypeOK, StorageTypeOK
<1>19. ASSUME NEW p \in Procs, SaveOrganization(p) PROVE TypeOK'
  <2>1. req[p].orow \in OrgRow \cup {Nil}
    BY DEF TypeOK, Request, RequestRecord
  <2>2. organizations' \in [OrgId -> OrgRow \cup {Nil}]
    BY <1>19, <2>1 DEF SaveOrganization, UpdateOrganization, TypeOK, StorageTypeOK
  <2>3. req' \in [Procs -> Request]
    BY <1>19, BecomeType DEF SaveOrganization, Return
  <2> QED
    BY <1>19, <2>2, <2>3 DEF SaveOrganization, TypeOK, StorageTypeOK
<1>20. ASSUME NEW p \in Procs, UpdateOrganizationName(p) PROVE TypeOK'
  <2> DEFINE R(o) == [Blank EXCEPT !.op = "UpdateOrganization", !.pc = "saveOrganization",
                                   !.org = o, !.orow = organizations[o]]
  <2>1. PICK o \in Stored(organizations) : Become(p, R(o))
    BY <1>20 DEF UpdateOrganizationName
  <2>2. o \in OrgId /\ organizations[o] \in OrgRow
    BY StoredType
  <2>3. R(o) \in Request
    <3>1. R(o) \in RequestRecord
      BY <2>2, BlankFields DEF RequestRecord, Op, Pc
    <3>2. /\ R(o).pc = "saveOrganization" /\ R(o).orow # Nil /\ R(o).org # Nil
          /\ R(o).op = "UpdateOrganization" /\ R(o).todo = <<>>
      BY <2>2, BlankFields, NilIsNoRow DEF RequestRecord
    <3> QED
      BY ONLY <3>1, <3>2 DEF Request, HoldsItsArguments
  <2> QED
    BY <1>20, <2>1, <2>3, MoveType DEF UpdateOrganizationName
<1>21. ASSUME NEW p \in Procs, Abort(p) PROVE TypeOK'
  BY <1>21, MoveType DEF Abort, Return
<1>22. CASE Tick
  BY <1>22, ConfigAssumption DEF Tick, TypeOK, StorageTypeOK, tables
<1>23. CASE UNCHANGED vars
  BY <1>23 DEF vars, tables, TypeOK, StorageTypeOK
<1> QED
  BY <1>1, <1>2, <1>3, <1>4, <1>5, <1>6, <1>7, <1>8, <1>9, <1>10, <1>11, <1>12, <1>13, <1>14,
     <1>15, <1>16, <1>17, <1>18, <1>19, <1>20, <1>21, <1>22, <1>23 DEF Next, Start, Continue

\* Every table, every request and every history keeps its type; in particular
\* no request makes a storage call or sends an e-mail with an id or a row it
\* has not read (HoldsItsArguments).
THEOREM TypeCorrect == Spec => []TypeOK
<1>1. Init => TypeOK
  BY TypeInit
<1>2. TypeOK /\ [Next]_vars => TypeOK'
  BY TypeNext
<1> QED
  BY <1>1, <1>2, PTL DEF Spec

-----------------------------------------------------------------------------
(* Tenancy: the inductive invariant TenancyInv *)

\* A token once drawn stays with its invitation.
IssuedKept == \A t \in Token : issuedTo[t] # Nil => issuedTo'[t] = issuedTo[t]

\* The stored rows, in terms of the key sets.
LEMMA StoredIs ==
  ASSUME TypeOK
  PROVE  /\ Stored(organizations) = {o \in OrgId : organizations[o] # Nil}
         /\ Stored(users) = {u \in UserId : users[u] # Nil}
         /\ Stored(invitations) = {i \in InvId : invitations[i] # Nil}
  BY DEF TypeOK, StorageTypeOK, Stored

LEMMA KeepsUnchanged ==
  ASSUME TypeOK, UNCHANGED tables
  PROVE  KeepsRows
  BY DEF KeepsRows, SameAccount, SameMember, Stored, tables

\* No step loses a row or changes whose row it is: a request saves a row under
\* the key it read it with, and the identity it read is the one still stored.
LEMMA StepKeepsRows ==
  ASSUME TenancyInv, [Next]_vars
  PROVE  KeepsRows
<1> USE DEF TenancyInv
<1>1. ASSUME NEW p \in Procs, CreateOrganizationWithUser(p) PROVE KeepsRows
  <2>1. PICK o \in OrgId : CreateOrganization(o, NewOrganization)
    BY <1>1 DEF CreateOrganizationWithUser
  <2>2. \A k \in Stored(organizations) : organizations'[k] # Nil
    BY <2>1, NilIsNoRow DEF CreateOrganization, NewOrganization, IsNextKey, Stored, TypeOK, StorageTypeOK, OrgRow, Time
  <2> QED
    BY <1>1, <2>2 DEF CreateOrganizationWithUser, KeepsRows, SameAccount, SameMember, Stored
<1>2. ASSUME NEW p \in Procs, CreateUserWithPassword(p) PROVE KeepsRows
  <2>1. \A u \in Stored(users) : users'[u] = users[u]
    BY <1>2 DEF CreateUserWithPassword, CreateUser, IsNextKey, Stored, TypeOK, StorageTypeOK
  <2> QED
    BY <1>2, <2>1 DEF CreateUserWithPassword, KeepsRows, SameAccount, SameMember, Stored
<1>3. ASSUME NEW p \in Procs, InviteUser(p) \/ InviteNext(p) PROVE KeepsRows
  <2>1. PICK i \in InvId : \E row : CreateInvitation(i, row)
    BY <1>3 DEF InviteUser, InviteNext, Invite
  <2>2. \A j \in Stored(invitations) : invitations'[j] = invitations[j]
    BY <2>1 DEF CreateInvitation, IsNextKey, Stored, TypeOK, StorageTypeOK
  <2> QED
    BY <1>3, <2>2 DEF InviteUser, InviteNext, KeepsRows, SameAccount, SameMember, Stored
<1>4. ASSUME NEW p \in Procs, SaveInvitation(p) PROVE KeepsRows
  <2>1. req[p].irow # Nil /\ req[p].irow \in InvRow
    BY <1>4 DEF SaveInvitation, At, TypeOK, Request, RequestRecord, HoldsItsArguments
  <2>2. req[p].inv \in Stored(invitations) /\ SameMember(invitations[req[p].inv], req[p].irow)
    BY <2>1 DEF RowsAgree
  <2>3. invitations' = [invitations EXCEPT ![req[p].inv] = req[p].irow]
    BY <1>4 DEF SaveInvitation, UpdateInvitation
  <2>4. \A i \in Stored(invitations) : SameMember(invitations[i], invitations'[i])
    BY <2>2, <2>3, StoredIs DEF SameMember, TypeOK, StorageTypeOK
  <2> QED
    BY <1>4, <2>4 DEF SaveInvitation, KeepsRows, SameAccount, SameMember, Stored
<1>5. ASSUME NEW p \in Procs, SaveUser(p) PROVE KeepsRows
  <2>1. PICK u \in Stored(req[p].urows) : users' = [users EXCEPT ![u] = req[p].urows[u]]
    BY <1>5 DEF SaveUser, UpdateUser
  <2>2. u \in Stored(users) /\ SameAccount(users[u], req[p].urows[u])
    BY <2>1 DEF RowsAgree
  <2>3. \A v \in Stored(users) : SameAccount(users[v], users'[v])
    BY <2>1, <2>2, StoredIs DEF SameAccount, SameMember, TypeOK, StorageTypeOK
  <2> QED
    BY <1>5, <2>3 DEF SaveUser, KeepsRows, SameMember, Stored
<1>6. ASSUME NEW p \in Procs, SaveOrganization(p) PROVE KeepsRows
  <2>1. req[p].orow # Nil
    BY <1>6 DEF SaveOrganization, At, TypeOK, Request, HoldsItsArguments
  <2>2. \A o \in Stored(organizations) : organizations'[o] # Nil
    BY <1>6, <2>1, StoredIs DEF SaveOrganization, UpdateOrganization, TypeOK, StorageTypeOK
  <2> QED
    BY <1>6, <2>2 DEF SaveOrganization, KeepsRows, SameAccount, SameMember, Stored
<1>7. ASSUME UNCHANGED tables PROVE KeepsRows
  BY <1>7, KeepsUnchanged
<1>8. ASSUME NEW p \in Procs, Start(p),
             ~CreateOrganizationWithUser(p), ~InviteUser(p)
      PROVE  UNCHANGED tables
  BY <1>8 DEF Start, InviteUsers, AcceptInvitation, RejectInvitation, ResendInvitation,
              UpdatePassword, UpdateProfile, DeleteUser, DeleteOrganization, UpdateOrganizationName
<1>9. ASSUME NEW p \in Procs, Continue(p), ~CreateUserWithPassword(p), ~InviteNext(p),
             ~SaveInvitation(p), ~SaveUser(p), ~SaveOrganization(p)
      PROVE  UNCHANGED tables
  BY <1>9 DEF Continue, InviteNextFails, SendMail, ReadPending, ReadMembers
<1>10. ASSUME NEW p \in Procs, Abort(p) PROVE UNCHANGED tables
  BY <1>10 DEF Abort
<1>11. CASE Tick \/ UNCHANGED vars
  BY <1>7, <1>11 DEF Tick, vars
<1> QED
  BY <1>1, <1>2, <1>3, <1>4, <1>5, <1>6, <1>7, <1>8, <1>9, <1>10, <1>11 DEF Next

LEMMA StepKeepsTokens ==
  ASSUME TypeOK, [Next]_vars
  PROVE  IssuedKept
<1>1. ASSUME NEW p \in Procs, InviteUser(p) \/ InviteNext(p) \/ ResendInvitation(p) PROVE IssuedKept
  <2>1. PICK t \in Token : GenerateToken(t) /\ \E i : issuedTo' = [issuedTo EXCEPT ![t] = i]
    BY <1>1 DEF InviteUser, InviteNext, Invite, NewInvitation, ResendInvitation
  <2> QED
    BY <2>1 DEF GenerateToken, IsNextKey, IssuedKept, TypeOK
<1>2. ASSUME UNCHANGED issuedTo PROVE IssuedKept
  BY <1>2 DEF IssuedKept
<1>3. ASSUME NEW p \in Procs, Start(p), ~InviteUser(p), ~ResendInvitation(p) PROVE UNCHANGED issuedTo
  BY <1>3 DEF Start, CreateOrganizationWithUser, InviteUsers, AcceptInvitation, RejectInvitation,
              UpdatePassword, UpdateProfile, DeleteUser, DeleteOrganization, UpdateOrganizationName
<1>4. ASSUME NEW p \in Procs, Continue(p), ~InviteNext(p) PROVE UNCHANGED issuedTo
  BY <1>4 DEF Continue, CreateUserWithPassword, InviteNextFails, SendMail, SaveInvitation,
              ReadPending, ReadMembers, SaveUser, SaveOrganization
<1>5. ASSUME NEW p \in Procs, Abort(p) PROVE UNCHANGED issuedTo
  BY <1>5 DEF Abort
<1>6. CASE Tick \/ UNCHANGED vars
  BY <1>2, <1>6 DEF Tick, vars
<1> QED
  BY <1>1, <1>2, <1>3, <1>4, <1>5, <1>6 DEF Next

\* What a request holds stays right whatever another request does.
LEMMA Carry ==
  ASSUME TypeOK, TypeOK', KeepsRows, IssuedKept, NEW r \in Request,
         RowsAgree(r), Justified(r)
  PROVE  (RowsAgree(r) /\ Justified(r))'
<1>1. /\ Stored(organizations) \subseteq Stored(organizations')
      /\ Stored(users) \subseteq Stored(users')
      /\ Stored(invitations) \subseteq Stored(invitations')
  BY StoredIs DEF KeepsRows, SameAccount, SameMember, TypeOK, StorageTypeOK, Stored
<1>2. r \in RequestRecord
  BY DEF Request
<1>3. (\A u \in Stored(r.urows) : u \in Stored(users) /\ SameAccount(users[u], r.urows[u]))'
  <2> SUFFICES ASSUME NEW u \in Stored(r.urows)
               PROVE  u \in Stored(users') /\ SameAccount(users'[u], r.urows[u])
    OBVIOUS
  <2>1. u \in Stored(users) /\ SameAccount(users[u], r.urows[u])
    BY DEF RowsAgree
  <2>2. SameAccount(users[u], users'[u])
    BY <2>1 DEF KeepsRows
  <2> QED
    BY <1>1, <2>1, <2>2 DEF SameAccount, SameMember
<1>4. (r.irow # Nil => /\ r.inv \in Stored(invitations)
                       /\ SameMember(invitations[r.inv], r.irow)
                       /\ issuedTo[r.irow.token] = r.inv)'
  <2> SUFFICES ASSUME r.irow # Nil
               PROVE  /\ r.inv \in Stored(invitations')
                      /\ SameMember(invitations'[r.inv], r.irow)
                      /\ issuedTo'[r.irow.token] = r.inv
    OBVIOUS
  <2>1. /\ r.inv \in Stored(invitations)
        /\ SameMember(invitations[r.inv], r.irow)
        /\ issuedTo[r.irow.token] = r.inv
    BY DEF RowsAgree
  <2>2. SameMember(invitations[r.inv], invitations'[r.inv])
    BY <2>1 DEF KeepsRows
  <2>3. r.inv \in InvId /\ r.inv # Nil /\ r.irow.token \in Token
    BY <1>2, <2>1, StoredIs, NilIsNoRow DEF RequestRecord, InvRow
  <2> QED
    BY <1>1, <2>1, <2>2, <2>3 DEF SameMember, IssuedKept
<1>5. (r.orow # Nil => r.org \in Stored(organizations))'
  BY <1>1 DEF RowsAgree
<1>6. (IsManager(r.newUser) => r.newUser.org \in Stored(organizations))'
  BY <1>1 DEF Justified, IsManager
<1>7. (r.newUser # Nil /\ ~IsManager(r.newUser) =>
          \E i \in Stored(invitations) : SameMember(r.newUser, invitations[i]))'
  <2> SUFFICES ASSUME r.newUser # Nil, ~IsManager(r.newUser)
               PROVE  \E i \in Stored(invitations') : SameMember(r.newUser, invitations'[i])
    BY DEF IsManager
  <2>1. PICK i \in Stored(invitations) : SameMember(r.newUser, invitations[i])
    BY DEF Justified
  <2>2. SameMember(invitations[i], invitations'[i])
    BY <2>1 DEF KeepsRows
  <2> QED
    BY <1>1, <2>1, <2>2 DEF SameMember
<1>8. (r.irow # Nil /\ r.irow.status = "accepted" =>
          \E u \in Stored(users) : SameMember(r.irow, users[u]))'
  <2> SUFFICES ASSUME r.irow # Nil, r.irow.status = "accepted"
               PROVE  \E u \in Stored(users') : SameMember(r.irow, users'[u])
    OBVIOUS
  <2>1. PICK u \in Stored(users) : SameMember(r.irow, users[u])
    BY DEF Justified
  <2>2. SameMember(users[u], users'[u])
    BY <2>1 DEF KeepsRows, SameAccount
  <2> QED
    BY <1>1, <2>1, <2>2 DEF SameMember
<1>9. (r.op = "UpdatePassword" /\ r.pc \in {"saveUsers", "readPending"} =>
          \E u \in Stored(users) : users[u].org = r.org /\ users[u].email = r.email)'
  <2> SUFFICES ASSUME r.op = "UpdatePassword", r.pc \in {"saveUsers", "readPending"}
               PROVE  \E u \in Stored(users') : users'[u].org = r.org /\ users'[u].email = r.email
    OBVIOUS
  <2>1. PICK u \in Stored(users) : users[u].org = r.org /\ users[u].email = r.email
    BY DEF Justified
  <2>2. SameMember(users[u], users'[u])
    BY <2>1 DEF KeepsRows, SameAccount
  <2> QED
    BY <1>1, <2>1, <2>2 DEF SameMember
<1> QED
  BY <1>3, <1>4, <1>5, <1>6, <1>7, <1>8, <1>9 DEF RowsAgree, Justified

Held == \A q \in Procs : RowsAgree(req[q]) /\ Justified(req[q])

\* It is enough that the request which moves holds right rows after its step.
LEMMA HeldAfterMove ==
  ASSUME TypeOK, TypeOK', KeepsRows, IssuedKept, Held,
         NEW p \in Procs, NEW r, Become(p, r), (RowsAgree(r) /\ Justified(r))'
  PROVE  Held'
<1> SUFFICES ASSUME NEW q \in Procs
             PROVE  (RowsAgree(req[q]) /\ Justified(req[q]))'
  BY DEF Held
<1>1. CASE q = p
  <2>1. req'[q] = r
    BY <1>1 DEF Become, TypeOK
  <2> QED
    BY <2>1 DEF RowsAgree, Justified
<1>2. CASE q # p
  <2>1. PICK s \in Request : s = req[q]
    BY DEF TypeOK
  <2>2. req'[q] = s
    BY <1>2, <2>1 DEF Become, TypeOK
  <2>3. RowsAgree(s) /\ Justified(s)
    BY <2>1 DEF Held
  <2>4. (RowsAgree(s) /\ Justified(s))'
    BY <2>3, Carry
  <2> QED
    BY <2>2, <2>4 DEF RowsAgree, Justified
<1> QED
  BY <1>1, <1>2

LEMMA BlankIsRight == RowsAgree(Blank) /\ Justified(Blank)
  BY BlankFields, NilIsNoRow DEF RowsAgree, Justified, IsManager, NoUsers, Stored

\* A step that leaves the tables alone, and starts to insert no manager,
\* preserves the invariant when the rows its request then holds are right.
LEMMA MoveKeepsTenancy ==
  ASSUME TenancyInv, TypeOK', UNCHANGED tables, IssuedKept,
         NEW p \in Procs, NEW r, Become(p, r),
         IsManager(r.newUser) => r.newUser = req[p].newUser,
         (RowsAgree(r) /\ Justified(r))'
  PROVE  TenancyInv'
<1> USE DEF TenancyInv
<1>1. KeepsRows
  BY KeepsUnchanged
<1>3. Held'
  BY <1>1, HeldAfterMove DEF Held
<1>4. FounderIsAlone'
  <2>1. \A q \in Procs : IsManager(req'[q].newUser) => req'[q].newUser = req[q].newUser
    BY DEF Become, TypeOK
  <2> QED
    BY <2>1 DEF FounderIsAlone, tables, IsManager, Stored
<1>5. TokenNamesOneInvitation'
  <2> SUFFICES ASSUME NEW i \in Stored(invitations)
               PROVE  issuedTo'[invitations[i].token] = i
    BY DEF TokenNamesOneInvitation, tables, Stored
  <2>1. i \in InvId /\ i # Nil /\ invitations[i].token \in Token
    BY StoredType, NilIsNoRow DEF InvRow
  <2> QED
    BY <2>1 DEF TokenNamesOneInvitation, IssuedKept
<1>6. (OneManagerPerOrganization /\ OneAccountPerEmail /\ MembersBelong /\ AcceptedHasAccount)'
  BY DEF OneManagerPerOrganization, OneAccountPerEmail, MembersBelong, AcceptedHasAccount,
         SameMember, tables, Stored
<1> QED
  BY <1>3, <1>4, <1>5, <1>6 DEF Held

LEMMA ReadKeepsTenancy ==
  ASSUME TenancyInv, TypeOK', UNCHANGED <<tables, now, issuedTo, lastMailed>>,
         NEW p \in Procs, NEW r, Become(p, r),
         IsManager(r.newUser) => r.newUser = req[p].newUser,
         RowsAgree(r), Justified(r)
  PROVE  TenancyInv'
<1>1. KeepsRows /\ IssuedKept
  BY KeepsUnchanged DEF TenancyInv, IssuedKept
<1>2. r \in Request
  BY DEF Become, TypeOK, TenancyInv
<1>3. (RowsAgree(r) /\ Justified(r))'
  BY <1>1, <1>2, Carry DEF TenancyInv
<1> QED
  BY <1>1, <1>3, MoveKeepsTenancy

\* A request that holds the row of one stored user.
LEMMA HoldsUser ==
  ASSUME TypeOK, NEW r, NEW u \in Stored(users), NEW row,
         SameAccount(users[u], row), r.urows = HoldUser(u, row),
         r.irow = Nil, r.orow = Nil, r.newUser = Nil,
         r.op = "UpdatePassword" => users[u].org = r.org /\ users[u].email = r.email
  PROVE  RowsAgree(r) /\ Justified(r)
<1>1. \A v \in Stored(r.urows) : v = u /\ r.urows[v] = row
  BY StoredIs DEF HoldUser, NoUsers, Stored
<1> QED
  BY <1>1 DEF RowsAgree, Justified, IsManager

\* A request that holds the row of one stored invitation.
LEMMA HoldsInvitation ==
  ASSUME TypeOK, NEW r, r.inv \in Stored(invitations), SameMember(invitations[r.inv], r.irow),
         issuedTo[r.irow.token] = r.inv,
         r.irow.status = "accepted" => \E u \in Stored(users) : SameMember(r.irow, users[u]),
         r.urows = NoUsers, r.orow = Nil, r.newUser = Nil, r.pc = "saveInvitation"
  PROVE  RowsAgree(r) /\ Justified(r)
  BY DEF RowsAgree, Justified, IsManager, NoUsers, Stored

LEMMA RestIsRight ==
  ASSUME NEW o, NEW rest
  PROVE  LET r == InviteRest(o, rest)
         IN  RowsAgree(r) /\ Justified(r) /\ r.newUser = Nil
<1>1. LET r == InviteRest(o, rest)
      IN  /\ r.urows = NoUsers /\ r.irow = Nil /\ r.orow = Nil /\ r.newUser = Nil
          /\ ~(r.op = "UpdatePassword" /\ r.pc \in {"saveUsers", "readPending"})
  BY BlankFields DEF InviteRest, RequestRecord
<1> HIDE DEF InviteRest
<1> QED
  BY <1>1 DEF RowsAgree, Justified, IsManager, NoUsers, Stored

\* What the tables promise of the users, when no user is inserted.
LEMMA NoNewUser ==
  ASSUME TenancyInv, TypeOK', KeepsRows, Stored(users') \subseteq Stored(users)
  PROVE  (OneManagerPerOrganization /\ OneAccountPerEmail /\ MembersBelong)'
<1>1. \A u \in Stored(users') : u \in Stored(users) /\ SameAccount(users[u], users'[u])
  BY DEF KeepsRows
<1>2. OneManagerPerOrganization'
  BY <1>1 DEF TenancyInv, OneManagerPerOrganization, SameAccount, SameMember
<1>3. OneAccountPerEmail'
  BY <1>1 DEF TenancyInv, OneAccountPerEmail, SameAccount, SameMember
<1>4. MembersBelong'
  <2> SUFFICES ASSUME NEW u \in Stored(users')
               PROVE  IF users'[u].role = "manager" THEN organizations'[users'[u].org] # Nil
                      ELSE \E i \in Stored(invitations') : SameMember(users'[u], invitations'[i])
    BY DEF MembersBelong
  <2>1. u \in Stored(users) /\ SameAccount(users[u], users'[u])
    BY <1>1
  <2>2. CASE users[u].role = "manager"
    <3>1. users[u].org \in Stored(organizations)
      BY <2>1, <2>2, StoredType, StoredIs DEF TenancyInv, MembersBelong, UserRow
    <3> QED
      BY <2>1, <2>2, <3>1 DEF KeepsRows, SameAccount, SameMember
  <2>3. CASE users[u].role # "manager"
    <3>1. PICK i \in Stored(invitations) : SameMember(users[u], invitations[i])
      BY <2>1, <2>3 DEF TenancyInv, MembersBelong
    <3>2. SameMember(invitations[i], invitations'[i])
      BY DEF KeepsRows
    <3>3. i \in Stored(invitations')
      BY <3>2, StoredIs DEF TenancyInv, SameMember, Stored, TypeOK, StorageTypeOK
    <3> QED
      BY <2>1, <2>3, <3>1, <3>2, <3>3 DEF SameAccount, SameMember
  <2> QED
    BY <2>2, <2>3
<1> QED
  BY <1>2, <1>3, <1>4

LEMMA NoNewFounder ==
  ASSUME TenancyInv, KeepsRows, Stored(users') \subseteq Stored(users),
         \A q \in Procs : IsManager(req'[q].newUser) => req'[q].newUser = req[q].newUser
  PROVE  FounderIsAlone'
<1>1. \A u \in Stored(users') : u \in Stored(users) /\ SameAccount(users[u], users'[u])
  BY DEF KeepsRows
<1> SUFFICES ASSUME NEW p \in Procs, IsManager(req'[p].newUser)
             PROVE  /\ \A u \in Stored(users') : IsManager(users'[u]) => users'[u].org # req'[p].newUser.org
                    /\ \A q \in Procs \ {p} : IsManager(req'[q].newUser) =>
                                                 req'[q].newUser.org # req'[p].newUser.org
  BY DEF FounderIsAlone, IsManager
<1>2. FounderIsAlone /\ IsManager(req[p].newUser) /\ req'[p].newUser = req[p].newUser
  BY DEF TenancyInv
<1>3. \A u \in Stored(users') : IsManager(users'[u]) => users'[u].org # req'[p].newUser.org
  BY <1>1, <1>2 DEF FounderIsAlone, SameAccount, SameMember, IsManager, Stored
<1>4. \A q \in Procs \ {p} : IsManager(req'[q].newUser) => req'[q].newUser.org # req'[p].newUser.org
  BY <1>2 DEF FounderIsAlone
<1> QED
  BY <1>3, <1>4

\* What the tables promise of the invitations that a step leaves alone.
LEMMA OldInvitation ==
  ASSUME TenancyInv, TypeOK', KeepsRows, IssuedKept,
         NEW i \in Stored(invitations), invitations'[i] = invitations[i]
  PROVE  /\ issuedTo'[invitations'[i].token] = i
         /\ invitations'[i].status = "accepted" =>
               \E u \in Stored(users') : SameMember(invitations'[i], users'[u])
<1>1. i \in InvId /\ i # Nil /\ invitations[i].token \in Token
  BY StoredType, NilIsNoRow DEF TenancyInv, InvRow
<1>2. issuedTo'[invitations'[i].token] = i
  BY <1>1 DEF TenancyInv, TokenNamesOneInvitation, IssuedKept
<1>3. ASSUME invitations[i].status = "accepted"
      PROVE  \E u \in Stored(users') : SameMember(invitations'[i], users'[u])
  <2>1. PICK u \in Stored(users) : SameMember(invitations[i], users[u])
    BY <1>3 DEF TenancyInv, AcceptedHasAccount
  <2>2. SameMember(users[u], users'[u])
    BY DEF KeepsRows, SameAccount
  <2>3. u \in Stored(users')
    BY <2>2, StoredIs DEF TenancyInv, SameMember, Stored, TypeOK, StorageTypeOK
  <2> QED
    BY <2>1, <2>2, <2>3 DEF SameMember
<1> QED
  BY <1>2, <1>3

LEMMA NoNewInvitation ==
  ASSUME TenancyInv, TypeOK', KeepsRows, IssuedKept, UNCHANGED invitations
  PROVE  (AcceptedHasAccount /\ TokenNamesOneInvitation)'
  BY OldInvitation DEF AcceptedHasAccount, TokenNamesOneInvitation, Stored

LEMMA TenancyInit == Init => TenancyInv
<1> SUFFICES ASSUME Init PROVE TenancyInv
  OBVIOUS
<1>1. TypeOK
  BY TypeInit
<1>2. Stored(organizations) = {} /\ Stored(users) = {} /\ Stored(invitations) = {}
  BY DEF Init, StorageInit, Stored
<1>3. \A p \in Procs : req[p] = Blank
  BY DEF Init
<1>4. \A p \in Procs : RowsAgree(req[p]) /\ Justified(req[p])
  BY <1>3, BlankIsRight
<1>5. FounderIsAlone
  BY <1>3, BlankFields DEF FounderIsAlone, IsManager
<1> QED
  BY <1>1, <1>2, <1>4, <1>5 DEF TenancyInv, OneManagerPerOrganization, OneAccountPerEmail,
     MembersBelong, AcceptedHasAccount, TokenNamesOneInvitation

LEMMA TenancyNext == TenancyInv /\ [Next]_vars => TenancyInv'
<1> SUFFICES ASSUME TenancyInv, [Next]_vars PROVE TenancyInv'
  OBVIOUS
<1>t. TypeOK /\ TypeOK' /\ KeepsRows /\ IssuedKept
  BY TypeNext, StepKeepsRows, StepKeepsTokens DEF TenancyInv
<1>1. ASSUME NEW p \in Procs, UpdatePassword(p) PROVE TenancyInv'
  <2> DEFINE R(u, o) == [Blank EXCEPT !.op = "UpdatePassword", !.pc = "saveUsers",
                                      !.org = o, !.email = users[u].email,
                                      !.urows = HoldUser(u, WithPassword(users[u]))]
  <2>1. PICK u \in Stored(users), o \in OrgId : users[u].org = o /\ Become(p, R(u, o))
    BY <1>1 DEF UpdatePassword, ValidateOrganizationAccess
  <2>2. users[u] \in UserRow
    BY <1>t, StoredType
  <2>3. SameAccount(users[u], WithPassword(users[u]))
    BY <2>2, NilIsNoRow DEF SameAccount, SameMember, WithPassword, UserRow, Password
  <2>4. /\ R(u, o).urows = HoldUser(u, WithPassword(users[u]))
        /\ R(u, o).org = o /\ R(u, o).email = users[u].email
        /\ R(u, o).irow = Nil /\ R(u, o).orow = Nil /\ R(u, o).newUser = Nil
    BY BlankFields DEF RequestRecord
  <2> HIDE DEF R
  <2>5. RowsAgree(R(u, o)) /\ Justified(R(u, o)) /\ ~IsManager(R(u, o).newUser)
    BY <1>t, <2>1, <2>3, <2>4, HoldsUser DEF IsManager
  <2> QED
    BY <1>1, <1>t, <2>1, <2>5, ReadKeepsTenancy DEF UpdatePassword
<1>2. ASSUME NEW p \in Procs, UpdateProfile(p) PROVE TenancyInv'
  <2> DEFINE R(u) == [Blank EXCEPT !.op = "UpdateProfile", !.pc = "saveUsers",
                                   !.urows = HoldUser(u, users[u])]
  <2>1. PICK u \in Stored(users) : Become(p, R(u))
    BY <1>2 DEF UpdateProfile
  <2>2. SameAccount(users[u], users[u])
    BY DEF SameAccount, SameMember, Stored
  <2>3. /\ R(u).urows = HoldUser(u, users[u]) /\ R(u).op = "UpdateProfile"
        /\ R(u).irow = Nil /\ R(u).orow = Nil /\ R(u).newUser = Nil
    BY BlankFields DEF RequestRecord
  <2> HIDE DEF R
  <2>4. RowsAgree(R(u)) /\ Justified(R(u)) /\ ~IsManager(R(u).newUser)
    BY <1>t, <2>2, <2>3, HoldsUser DEF IsManager
  <2> QED
    BY <1>2, <1>t, <2>1, <2>4, ReadKeepsTenancy DEF UpdateProfile
<1>3. ASSUME NEW p \in Procs, NEW op \in Op \ {"UpdatePassword"}, NEW o \in OrgId,
             StartDeletion(p, op, o), UNCHANGED <<tables, now, issuedTo, lastMailed>>
      PROVE  TenancyInv'
  <2> DEFINE R == [Blank EXCEPT !.op = op, !.pc = "readMembers", !.org = o,
                                !.orow = DeletedOrganization(organizations[o])]
  <2>1. o \in Stored(organizations) /\ Become(p, R)
    BY <1>3, <1>t, StoredIs DEF StartDeletion
  <2>2. /\ R.urows = NoUsers /\ R.irow = Nil /\ R.newUser = Nil
        /\ R.org = o /\ R.op # "UpdatePassword"
    BY BlankFields DEF RequestRecord
  <2> HIDE DEF R
  <2>3. RowsAgree(R) /\ Justified(R) /\ ~IsManager(R.newUser)
    BY <2>1, <2>2 DEF RowsAgree, Justified, IsManager, NoUsers, Stored
  <2> QED
    BY <1>3, <1>t, <2>1, <2>3, ReadKeepsTenancy
<1>4. ASSUME NEW p \in Procs, DeleteUser(p) PROVE TenancyInv'
  <2> DEFINE R(u) == [Blank EXCEPT !.op = "DeleteUser", !.pc = "saveUsers",
                                   !.urows = HoldUser(u, DeletedUser(users[u]))]
  <2>1. PICK u \in Stored(users), o \in OrgId : Become(p, R(u)) \/ StartDeletion(p, "DeleteUser", o)
    BY <1>4 DEF DeleteUser
  <2>2. users[u] \in UserRow
    BY <1>t, StoredType
  <2>3. CASE Become(p, R(u))
    <3>1. SameAccount(users[u], DeletedUser(users[u]))
      BY <2>2, NilIsNoRow DEF SameAccount, SameMember, DeletedUser, UserRow, Time
    <3>2. /\ R(u).urows = HoldUser(u, DeletedUser(users[u])) /\ R(u).op = "DeleteUser"
          /\ R(u).irow = Nil /\ R(u).orow = Nil /\ R(u).newUser = Nil
      BY BlankFields DEF RequestRecord
    <3> HIDE DEF R
    <3>3. RowsAgree(R(u)) /\ Justified(R(u)) /\ ~IsManager(R(u).newUser)
      BY <1>t, <3>1, <3>2, HoldsUser DEF IsManager
    <3> QED
      BY <1>4, <1>t, <2>3, <3>3, ReadKeepsTenancy DEF DeleteUser
  <2>4. CASE StartDeletion(p, "DeleteUser", o)
    BY <1>3, <1>4, <2>2, <2>4 DEF DeleteUser, UserRow, Op
  <2> QED
    BY <2>1, <2>3, <2>4
<1>5. ASSUME NEW p \in Procs, DeleteOrganization(p) PROVE TenancyInv'
  BY <1>3, <1>5 DEF DeleteOrganization, Op
<1>6. ASSUME NEW p \in Procs, UpdateOrganizationName(p) PROVE TenancyInv'
  <2> DEFINE R(o) == [Blank EXCEPT !.op = "UpdateOrganization", !.pc = "saveOrganization",
                                   !.org = o, !.orow = organizations[o]]
  <2>1. PICK o \in Stored(organizations) : Become(p, R(o))
    BY <1>6 DEF UpdateOrganizationName
  <2>2. /\ R(o).urows = NoUsers /\ R(o).irow = Nil /\ R(o).newUser = Nil
        /\ R(o).org = o /\ R(o).op = "UpdateOrganization"
    BY BlankFields DEF RequestRecord
  <2> HIDE DEF R
  <2>3. RowsAgree(R(o)) /\ Justified(R(o)) /\ ~IsManager(R(o).newUser)
    BY <2>2 DEF RowsAgree, Justified, IsManager, NoUsers, Stored
  <2> QED
    BY <1>6, <1>t, <2>1, <2>3, ReadKeepsTenancy DEF UpdateOrganizationName
<1>7. ASSUME NEW p \in Procs, ReadMembers(p) PROVE TenancyInv'
  <2> DEFINE Rows(listed) == [u \in UserId |-> IF u \in listed THEN DeletedUser(users[u]) ELSE Nil]
             R(listed) == [req[p] EXCEPT
                               !.pc = IF listed = {} THEN "saveOrganization" ELSE "saveUsers",
                               !.urows = Rows(listed)]
  <2>1. PICK listed \in {GetUsersByOrganizationID(req[p].org), {}} : Become(p, R(listed))
    BY <1>7 DEF ReadMembers
  <2>2. listed \subseteq Stored(users)
    BY DEF GetUsersByOrganizationID
  <2>3. \A u \in listed : SameAccount(users[u], DeletedUser(users[u]))
    BY <1>t, <2>2, StoredType, NilIsNoRow DEF SameAccount, SameMember, DeletedUser, UserRow, Time
  <2>4. \A u \in Stored(Rows(listed)) : u \in Stored(users) /\ SameAccount(users[u], Rows(listed)[u])
    BY <2>2, <2>3 DEF Stored
  <2>5. req[p] \in RequestRecord /\ req[p].op # "UpdatePassword"
    BY <1>7, <1>t DEF ReadMembers, At, TypeOK, Request, HoldsItsArguments
  <2> HIDE DEF Rows
  <2>6. /\ R(listed).urows = Rows(listed) /\ R(listed).op = req[p].op
        /\ R(listed).irow = req[p].irow /\ R(listed).inv = req[p].inv
        /\ R(listed).orow = req[p].orow /\ R(listed).org = req[p].org
        /\ R(listed).newUser = req[p].newUser
    BY <2>5 DEF RequestRecord
  <2>7. RowsAgree(req[p]) /\ Justified(req[p])
    BY DEF TenancyInv
  <2> HIDE DEF R
  <2>8. RowsAgree(R(listed))
    BY <2>4, <2>6, <2>7 DEF RowsAgree
  <2>9. Justified(R(listed))
    BY <2>5, <2>6, <2>7 DEF Justified
  <2> QED
    BY <1>7, <1>t, <2>1, <2>6, <2>8, <2>9, ReadKeepsTenancy DEF ReadMembers
<1>8. ASSUME NEW p \in Procs, AcceptInvitation(p) PROVE TenancyInv'
  <2> DEFINE R(i) == [Blank EXCEPT !.op = "AcceptInvitation", !.pc = "createUser",
                         !.newUser = NewUser(invitations[i].org, invitations[i].email, "user")]
  <2>1. PICK t \in Token : \E i \in GetInvitationByToken(t) : Become(p, R(i))
    BY <1>8 DEF AcceptInvitation
  <2>2. PICK i \in GetInvitationByToken(t) : Become(p, R(i))
    BY <2>1
  <2>3. i \in Stored(invitations)
    BY DEF GetInvitationByToken
  <2>4. /\ R(i).newUser = NewUser(invitations[i].org, invitations[i].email, "user")
        /\ R(i).urows = NoUsers /\ R(i).irow = Nil /\ R(i).orow = Nil
        /\ R(i).op = "AcceptInvitation"
    BY BlankFields DEF RequestRecord
  <2>5. ~IsManager(R(i).newUser) /\ SameMember(R(i).newUser, invitations[i])
    BY <2>3, <2>4 DEF IsManager, SameMember, NewUser, Stored
  <2> HIDE DEF R
  <2>6. RowsAgree(R(i)) /\ Justified(R(i))
    BY <2>3, <2>4, <2>5 DEF RowsAgree, Justified, NoUsers, Stored
  <2> QED
    BY <1>8, <1>t, <2>2, <2>5, <2>6, ReadKeepsTenancy DEF AcceptInvitation
<1>9. ASSUME NEW p \in Procs, RejectInvitation(p) PROVE TenancyInv'
  <2> DEFINE R(i) == [Blank EXCEPT !.op = "RejectInvitation", !.pc = "saveInvitation", !.inv = i,
                                   !.irow = [invitations[i] EXCEPT !.status = "rejected"]]
  <2>1. PICK t \in Token : \E i \in GetInvitationByToken(t) : Become(p, R(i))
    BY <1>9 DEF RejectInvitation
  <2>2. PICK i \in GetInvitationByToken(t) : Become(p, R(i))
    BY <2>1
  <2>3. i \in Stored(invitations) /\ invitations[i] \in InvRow
    BY <1>t, StoredType DEF GetInvitationByToken
  <2>4. /\ R(i).inv = i /\ R(i).irow = [invitations[i] EXCEPT !.status = "rejected"]
        /\ R(i).pc = "saveInvitation"
        /\ R(i).urows = NoUsers /\ R(i).newUser = Nil /\ R(i).orow = Nil
    BY BlankFields DEF RequestRecord
  <2>5. /\ SameMember(invitations[i], R(i).irow) /\ R(i).irow.status = "rejected"
        /\ R(i).irow.token = invitations[i].token
    <3>1. [invitations[i] EXCEPT !.status = "rejected"] \in InvRow
      BY <2>3 DEF InvRow, Status
    <3> QED
      BY <2>3, <2>4, <3>1, NilIsNoRow DEF SameMember, InvRow
  <2>6. issuedTo[invitations[i].token] = i
    BY <2>3 DEF TenancyInv, TokenNamesOneInvitation
  <2> HIDE DEF R
  <2>7. RowsAgree(R(i)) /\ Justified(R(i)) /\ ~IsManager(R(i).newUser)
    BY <1>t, <2>3, <2>4, <2>5, <2>6, HoldsInvitation DEF IsManager
  <2> QED
    BY <1>9, <1>t, <2>2, <2>7, ReadKeepsTenancy DEF RejectInvitation
<1>10. ASSUME NEW p \in Procs, Return(p), UNCHANGED <<tables, now, issuedTo, lastMailed>>
       PROVE  TenancyInv'
  BY <1>10, <1>t, BlankIsRight, BlankFields, ReadKeepsTenancy DEF Return, IsManager
<1>11. ASSUME NEW p \in Procs, ReadPending(p) PROVE TenancyInv'
  <2> DEFINE R(i) == [Blank EXCEPT !.op = "UpdatePassword", !.pc = "saveInvitation", !.inv = i,
                                   !.irow = [invitations[i] EXCEPT !.status = "accepted"]]
  <2>1. ASSUME NEW i \in PendingFor(req[p].org, req[p].email), Become(p, R(i)) PROVE TenancyInv'
    <3>1. /\ i \in Stored(invitations) /\ invitations[i] \in InvRow
          /\ invitations[i].org = req[p].org /\ invitations[i].email = req[p].email
      BY <1>t, StoredType DEF PendingFor, GetInvitationsByOrganizationID
    <3>2. /\ R(i).inv = i /\ R(i).irow = [invitations[i] EXCEPT !.status = "accepted"]
          /\ R(i).pc = "saveInvitation"
          /\ R(i).urows = NoUsers /\ R(i).newUser = Nil /\ R(i).orow = Nil
      BY BlankFields DEF RequestRecord
    <3>3. /\ SameMember(invitations[i], R(i).irow)
          /\ R(i).irow.token = invitations[i].token
          /\ R(i).irow.org = req[p].org /\ R(i).irow.email = req[p].email
      <4>1. [invitations[i] EXCEPT !.status = "accepted"] \in InvRow
        BY <3>1 DEF InvRow, Status
      <4> QED
        BY <3>1, <3>2, <4>1, NilIsNoRow DEF SameMember, InvRow
    <3>4. issuedTo[invitations[i].token] = i
      BY <3>1 DEF TenancyInv, TokenNamesOneInvitation
    <3>5. \E u \in Stored(users) : SameMember(R(i).irow, users[u])
      <4>1. req[p].pc = "readPending" /\ req[p].op = "UpdatePassword"
        <5>1. At(p, "readPending")
          BY <1>11 DEF ReadPending
        <5> QED
          BY <1>t, <5>1 DEF At, TypeOK, Request, HoldsItsArguments
      <4>2. PICK u \in Stored(users) : users[u].org = req[p].org /\ users[u].email = req[p].email
        BY <4>1 DEF TenancyInv, Justified
      <4> QED
        BY <3>3, <4>2 DEF SameMember, Stored
    <3> HIDE DEF R
    <3>6. RowsAgree(R(i)) /\ Justified(R(i)) /\ ~IsManager(R(i).newUser)
      BY <1>t, <3>1, <3>2, <3>3, <3>4, <3>5, HoldsInvitation DEF IsManager
    <3> QED
      BY <1>11, <1>t, <2>1, <3>6, ReadKeepsTenancy DEF ReadPending
  <2> QED
    BY <1>10, <1>11, <2>1 DEF ReadPending
<1>12. ASSUME NEW p \in Procs, NEW o, NEW rest, Become(p, InviteRest(o, rest)),
              UNCHANGED <<tables, now, issuedTo>>
       PROVE  TenancyInv'
  <2>1. PICK r \in Request : r = InviteRest(o, rest) /\ Become(p, r)
    BY <1>t, <1>12 DEF Become, TypeOK
  <2>2. RowsAgree(r) /\ Justified(r) /\ r.newUser = Nil
    BY <2>1, RestIsRight
  <2>3. (RowsAgree(r) /\ Justified(r))'
    BY <1>t, <2>2, Carry
  <2> QED
    BY <1>t, <1>12, <2>1, <2>2, <2>3, MoveKeepsTenancy DEF IsManager
<1>13. ASSUME NEW p \in Procs, InviteUsers(p) \/ InviteNextFails(p) \/ SendMail(p) PROVE TenancyInv'
  <2>1. UNCHANGED <<tables, now, issuedTo>>
    BY <1>13 DEF InviteUsers, InviteNextFails, SendMail
  <2>2. \E o, rest : Become(p, InviteRest(o, rest))
    BY <1>13 DEF InviteUsers, InviteNextFails, SendMail
  <2> QED
    BY <1>12, <2>1, <2>2
<1>14. ASSUME NEW p \in Procs, ResendInvitation(p) PROVE TenancyInv'
  <2> DEFINE R(i, t) == [Blank EXCEPT !.op = "ResendInvitation", !.pc = "saveInvitation",
                                      !.org = invitations[i].org, !.inv = i,
                                      !.irow = Renewed(invitations[i], t)]
  <2>1. PICK i \in Stored(invitations), t \in Token :
          /\ issuedTo' = [issuedTo EXCEPT ![t] = i]
          /\ Become(p, R(i, t))
    BY <1>14 DEF ResendInvitation
  <2>2. PICK r \in Request : r = R(i, t)
    BY <1>t, <2>1 DEF Become, TypeOK
  <2>3. invitations[i] \in InvRow
    BY <1>t, StoredType
  <2>4. /\ r.inv = i /\ r.irow = Renewed(invitations[i], t) /\ r.pc = "saveInvitation"
        /\ r.urows = NoUsers /\ r.newUser = Nil /\ r.orow = Nil
    BY <2>2, BlankFields DEF RequestRecord
  <2>5. /\ r.irow.org = invitations[i].org /\ r.irow.email = invitations[i].email
        /\ r.irow.token = t /\ r.irow.status = "pending"
    BY <2>3, <2>4 DEF Renewed, InvRow
  <2>6. r.irow # Nil
    BY <2>4, <2>2 DEF Request, HoldsItsArguments
  <2>7. UNCHANGED <<tables, now, lastMailed>>
    BY <1>14 DEF ResendInvitation
  <2>8. Become(p, r)
    BY <2>1, <2>2
  <2>9. issuedTo'[t] = i
    BY <1>t, <2>1 DEF TypeOK
  <2> HIDE DEF R
  <2>10. i \in Stored(invitations)' /\ SameMember(invitations[i], r.irow)'
    BY <2>5, <2>6, <2>7 DEF tables, SameMember, Stored
  <2>11. (RowsAgree(r) /\ Justified(r))'
    BY <1>t, <2>4, <2>5, <2>9, <2>10, HoldsInvitation DEF RowsAgree, Justified, IsManager, NoUsers, Stored
  <2> QED
    BY <1>t, <2>4, <2>7, <2>8, <2>11, MoveKeepsTenancy DEF IsManager
<1>15. ASSUME NEW p \in Procs, CreateOrganizationWithUser(p) PROVE TenancyInv'
  <2> DEFINE R(o, e) == [Blank EXCEPT !.op = "CreateOrganizationWithUser",
                                      !.pc = "createUser",
                                      !.newUser = NewUser(o, e, "manager")]
  <2>1. PICK o \in OrgId, e \in Email : CreateOrganization(o, NewOrganization) /\ Become(p, R(o, e))
    BY <1>15 DEF CreateOrganizationWithUser
  <2>2. PICK r \in Request : r = R(o, e)
    BY <1>t, <2>1 DEF Become, TypeOK
  <2>3. /\ r.urows = NoUsers /\ r.irow = Nil /\ r.orow = Nil
        /\ r.newUser = NewUser(o, e, "manager") /\ r.op = "CreateOrganizationWithUser"
    BY <2>2, BlankFields DEF RequestRecord
  <2>4. r.newUser.org = o /\ r.newUser.role = "manager"
    BY <2>3 DEF NewUser
  <2>5. Become(p, r)
    BY <2>1, <2>2
  <2> HIDE DEF R
  <2>6. o \notin Stored(organizations) /\ o \in Stored(organizations')
    BY <1>t, <2>1, StoredIs, NilIsNoRow DEF CreateOrganization, NewOrganization, IsNextKey, Stored, TypeOK,
       StorageTypeOK, OrgRow, Time
  <2>7. (RowsAgree(r) /\ Justified(r))'
    BY <2>3, <2>4, <2>6 DEF RowsAgree, Justified, IsManager, NoUsers, Stored
  <2>8. Held'
    BY <1>t, <2>5, <2>7, HeldAfterMove DEF Held, TenancyInv
  <2>9. UNCHANGED <<users, invitations>>
    BY <1>15 DEF CreateOrganizationWithUser
  <2>10. (OneManagerPerOrganization /\ OneAccountPerEmail /\ MembersBelong
          /\ AcceptedHasAccount /\ TokenNamesOneInvitation)'
    BY <1>t, <2>9, NoNewUser, NoNewInvitation
  <2>11. FounderIsAlone'
    <3>1. \A u \in Stored(users) : IsManager(users[u]) => users[u].org # o
      BY <1>t, <2>6, StoredType, StoredIs DEF TenancyInv, MembersBelong, IsManager, UserRow
    <3>2. \A q \in Procs : IsManager(req[q].newUser) => req[q].newUser.org # o
      BY <2>6 DEF TenancyInv, Justified
    <3>3. /\ req'[p] = r
          /\ \A q \in Procs \ {p} : req'[q] = req[q]
      BY <1>t, <2>5 DEF Become, TypeOK
    <3> QED
      BY <2>4, <2>9, <3>1, <3>2, <3>3 DEF TenancyInv, FounderIsAlone, IsManager, Stored
  <2> QED
    BY <1>t, <2>8, <2>10, <2>11 DEF TenancyInv, Held
<1>16. ASSUME NEW p \in Procs, CreateUserWithPassword(p) PROVE TenancyInv'
  <2>1. Return(p) /\ UNCHANGED <<organizations, invitations, now, issuedTo, lastMailed>>
    BY <1>16 DEF CreateUserWithPassword
  <2>2. CASE UNCHANGED users
    BY <1>10, <2>1, <2>2 DEF tables
  <2>3. ASSUME NEW k \in UserId, CreateUser(k, req[p].newUser) PROVE TenancyInv'
    <3> DEFINE row == req[p].newUser
    <3>1. row # Nil /\ row \in UserRow
      BY <1>16, <1>t DEF CreateUserWithPassword, At, TypeOK, Request, RequestRecord, HoldsItsArguments
    <3>2. /\ k \notin Stored(users) /\ users'[k] = row
          /\ Stored(users') = Stored(users) \cup {k}
          /\ \A u \in Stored(users) : users'[u] = users[u] /\ users[u].email # row.email
      BY <1>t, <2>3, <3>1, StoredIs
         DEF CreateUser, EmailTaken, IsNextKey, TypeOK, StorageTypeOK, Stored
    <3>3. Justified(req[p])
      BY DEF TenancyInv
    <3> HIDE DEF row
    <3>4. Held'
      <4>1. (RowsAgree(Blank) /\ Justified(Blank))'
        BY BlankFields, NilIsNoRow DEF RowsAgree, Justified, IsManager, NoUsers, Stored
      <4> QED
        BY <1>t, <2>1, <4>1, HeldAfterMove DEF Held, TenancyInv, Return
    <3>5. \A q \in Procs : IsManager(req'[q].newUser) => q # p /\ req'[q] = req[q]
      BY <1>t, <2>1, BlankFields DEF Return, Become, TypeOK, IsManager
    <3>6. FounderIsAlone'
      <4>1. ASSUME NEW q \in Procs, IsManager(req'[q].newUser)
            PROVE  /\ \A u \in Stored(users') : IsManager(users'[u]) => users'[u].org # req'[q].newUser.org
                   /\ \A s \in Procs \ {q} : IsManager(req'[s].newUser) =>
                                                req'[s].newUser.org # req'[q].newUser.org
        <5>1. q # p /\ req'[q] = req[q] /\ IsManager(req[q].newUser)
          BY <3>5, <4>1
        <5>2. /\ \A u \in Stored(users) : IsManager(users[u]) => users[u].org # req[q].newUser.org
              /\ \A s \in Procs \ {q} : IsManager(req[s].newUser) =>
                                           req[s].newUser.org # req[q].newUser.org
          BY <5>1 DEF TenancyInv, FounderIsAlone
        <5>3. IsManager(row) => row.org # req[q].newUser.org
          BY <5>1, <5>2 DEF row
        <5> QED
          BY <3>2, <3>5, <5>1, <5>2, <5>3 DEF IsManager
      <4> QED
        BY <4>1 DEF FounderIsAlone, IsManager
    <3>7. OneManagerPerOrganization'
      <4>1. \A u \in Stored(users) : row.role = "manager" /\ users[u].role = "manager" => users[u].org # row.org
        BY <3>1 DEF TenancyInv, FounderIsAlone, IsManager, row, Stored
      <4> QED
        BY <3>2, <4>1 DEF TenancyInv, OneManagerPerOrganization
    <3>8. OneAccountPerEmail'
      BY <3>2 DEF TenancyInv, OneAccountPerEmail
    <3>9. MembersBelong'
      <4>1. row.role = "manager" => organizations[row.org] # Nil
        BY <3>1, <3>3 DEF Justified, IsManager, row, Stored
      <4>2. row.role # "manager" => \E i \in Stored(invitations) : SameMember(row, invitations[i])
        BY <3>1, <3>3 DEF Justified, IsManager, row
      <4>3. MembersBelong
        BY DEF TenancyInv
      <4> QED
        BY <2>1, <3>2, <4>1, <4>2, <4>3 DEF MembersBelong, SameMember, Stored
    <3>10. (AcceptedHasAccount /\ TokenNamesOneInvitation)'
      BY <1>t, <2>1, NoNewInvitation
    <3> QED
      BY <1>t, <3>4, <3>6, <3>7, <3>8, <3>9, <3>10 DEF TenancyInv, Held
  <2> QED
    BY <1>16, <2>2, <2>3 DEF CreateUserWithPassword
<1>17. ASSUME NEW p \in Procs, NEW op, NEW o, NEW e, NEW rest, Invite(p, op, o, e, rest),
              op # "UpdatePassword", UNCHANGED <<organizations, users, now, lastMailed>>
       PROVE  TenancyInv'
  <2> DEFINE Row(t) == [org |-> o, email |-> e, token |-> t,
                        expiresAt |-> CalculateExpiry, status |-> "pending"]
             R(i, t) == [Blank EXCEPT !.op = op, !.pc = "sendMail", !.org = o,
                                      !.inv = i, !.irow = Row(t), !.todo = rest]
  <2>1. PICK i \in InvId, t \in Token :
          /\ CreateInvitation(i, Row(t))
          /\ issuedTo' = [issuedTo EXCEPT ![t] = i]
          /\ Become(p, R(i, t))
    BY <1>17 DEF Invite, NewInvitation
  <2>2. PICK row : row = Row(t)
    OBVIOUS
  <2>3. row.org = o /\ row.email = e /\ row.token = t /\ row.status = "pending"
    BY <2>2
  <2>4. PICK r \in Request : r = R(i, t)
    BY <1>t, <2>1 DEF Become, TypeOK
  <2>5. /\ r.urows = NoUsers /\ r.orow = Nil /\ r.newUser = Nil
        /\ r.inv = i /\ r.irow = row /\ r.op # "UpdatePassword" /\ r.pc = "sendMail"
    BY <1>17, <2>2, <2>4, BlankFields DEF RequestRecord
  <2>6. Become(p, r) /\ CreateInvitation(i, row)
    BY <2>1, <2>2, <2>4
  <2> HIDE DEF R, Row
  <2>7. row # Nil
    BY <2>5 DEF Request, HoldsItsArguments
  <2>8. /\ invitations'[i] = row
        /\ Stored(invitations') = Stored(invitations) \cup {i}
        /\ \A j \in Stored(invitations) : j # i /\ invitations'[j] = invitations[j]
    BY <1>t, <2>6, <2>7, StoredIs DEF CreateInvitation, IsNextKey, TypeOK, StorageTypeOK, Stored
  <2>9. issuedTo'[t] = i
    BY <1>t, <2>1 DEF TypeOK
  <2>10. (RowsAgree(r) /\ Justified(r))'
    BY <2>3, <2>5, <2>7, <2>8, <2>9 DEF RowsAgree, Justified, IsManager, SameMember, NoUsers, Stored
  <2>11. Held'
    BY <1>t, <2>6, <2>10, HeldAfterMove DEF Held, TenancyInv
  <2>12. FounderIsAlone'
    <3>1. \A q \in Procs : IsManager(req'[q].newUser) => req'[q].newUser = req[q].newUser
      BY <1>t, <2>5, <2>6 DEF Become, TypeOK, IsManager
    <3> QED
      BY <1>t, <1>17, <3>1, NoNewFounder DEF Stored
  <2>13. (OneManagerPerOrganization /\ OneAccountPerEmail /\ MembersBelong)'
    BY <1>t, <1>17, NoNewUser DEF Stored
  <2>14. (AcceptedHasAccount /\ TokenNamesOneInvitation)'
    BY <1>t, <2>3, <2>8, <2>9, OldInvitation DEF AcceptedHasAccount, TokenNamesOneInvitation
  <2> QED
    BY <1>t, <2>11, <2>12, <2>13, <2>14 DEF TenancyInv, Held
<1>18. ASSUME NEW p \in Procs, InviteUser(p) \/ InviteNext(p) PROVE TenancyInv'
  <2>1. UNCHANGED <<organizations, users, now, lastMailed>>
    BY <1>18 DEF InviteUser, InviteNext
  <2>2. \E o, e, rest : Invite(p, "InviteUser", o, e, rest) \/ Invite(p, "InviteUsers", o, e, rest)
    BY <1>18 DEF InviteUser, InviteNext
  <2> QED
    BY <1>17, <2>1, <2>2
<1>19. ASSUME NEW p \in Procs, SaveInvitation(p) PROVE TenancyInv'
  <2>1. /\ req[p] \in RequestRecord /\ req[p].irow # Nil /\ req[p].irow \in InvRow
        /\ req[p].pc = "saveInvitation"
    BY <1>19, <1>t DEF SaveInvitation, At, TypeOK, Request, RequestRecord, HoldsItsArguments
  <2>2. RowsAgree(req[p]) /\ Justified(req[p])
    BY DEF TenancyInv
  <2>3. PICK i, row : i = req[p].inv /\ row = req[p].irow
    OBVIOUS
  <2>4. i \in Stored(invitations) /\ issuedTo[row.token] = i
    BY <2>1, <2>2, <2>3 DEF RowsAgree
  <2>5. /\ invitations'[i] = row
        /\ Stored(invitations') = Stored(invitations)
        /\ \A j \in Stored(invitations) : j # i => invitations'[j] = invitations[j]
    BY <1>19, <1>t, <2>1, <2>3, <2>4, StoredIs
       DEF SaveInvitation, UpdateInvitation, TypeOK, StorageTypeOK, Stored
  <2>6. UNCHANGED <<organizations, users, issuedTo>>
    BY <1>19 DEF SaveInvitation
  <2>7. PICK r : r = (IF req[p].op = "ResendInvitation" THEN [req[p] EXCEPT !.pc = "sendMail"] ELSE Blank)
    OBVIOUS
  <2>8. Become(p, r)
    BY <1>19, <2>7 DEF SaveInvitation
  <2>9. RowsAgree(r) /\ Justified(r) /\ (IsManager(r.newUser) => r.newUser = req[p].newUser)
    <3>1. CASE req[p].op = "ResendInvitation"
      <4>1. /\ r.op = "ResendInvitation"
            /\ r.urows = req[p].urows /\ r.orow = req[p].orow /\ r.org = req[p].org
            /\ r.newUser = req[p].newUser /\ r.inv = req[p].inv /\ r.irow = req[p].irow
        BY <2>1, <2>7, <3>1 DEF RequestRecord
      <4> QED
        BY <2>2, <4>1 DEF RowsAgree, Justified
    <3>2. CASE req[p].op # "ResendInvitation"
      BY <2>7, <3>2, BlankIsRight, BlankFields DEF IsManager
    <3> QED
      BY <3>1, <3>2
  <2>10. Held'
    <3>1. r \in Request
      BY <1>t, <2>8 DEF Become, TypeOK
    <3>2. (RowsAgree(r) /\ Justified(r))'
      BY <1>t, <2>9, <3>1, Carry
    <3> QED
      BY <1>t, <2>8, <3>2, HeldAfterMove DEF Held, TenancyInv
  <2>11. FounderIsAlone'
    <3>1. \A q \in Procs : IsManager(req'[q].newUser) => req'[q].newUser = req[q].newUser
      BY <1>t, <2>8, <2>9 DEF Become, TypeOK
    <3> QED
      BY <1>t, <2>6, <3>1, NoNewFounder DEF Stored
  <2>12. (OneManagerPerOrganization /\ OneAccountPerEmail /\ MembersBelong)'
    BY <1>t, <2>6, NoNewUser DEF Stored
  <2>13. row.status = "accepted" => \E u \in Stored(users) : SameMember(row, users[u])
    BY <2>1, <2>2, <2>3 DEF Justified
  <2>14. (AcceptedHasAccount /\ TokenNamesOneInvitation)'
    BY <1>t, <2>4, <2>5, <2>6, <2>13, OldInvitation
       DEF AcceptedHasAccount, TokenNamesOneInvitation, Stored
  <2> QED
    BY <1>t, <2>10, <2>11, <2>12, <2>14 DEF TenancyInv, Held
<1>20. ASSUME NEW p \in Procs, NEW r, Become(p, r),
              IsManager(r.newUser) => r.newUser = req[p].newUser,
              RowsAgree(r), Justified(r), Stored(users') \subseteq Stored(users),
              UNCHANGED <<invitations, issuedTo>>
       PROVE  TenancyInv'
  <2>1. r \in Request
    BY <1>t, <1>20 DEF Become, TypeOK
  <2>2. (RowsAgree(r) /\ Justified(r))'
    BY <1>t, <1>20, <2>1, Carry
  <2>3. Held'
    BY <1>t, <1>20, <2>2, HeldAfterMove DEF Held, TenancyInv
  <2>4. \A q \in Procs : IsManager(req'[q].newUser) => req'[q].newUser = req[q].newUser
    BY <1>t, <1>20 DEF Become, TypeOK
  <2>5. FounderIsAlone'
    BY <1>t, <1>20, <2>4, NoNewFounder
  <2>6. (OneManagerPerOrganization /\ OneAccountPerEmail /\ MembersBelong)'
    BY <1>t, <1>20, NoNewUser
  <2>7. (AcceptedHasAccount /\ TokenNamesOneInvitation)'
    BY <1>t, <1>20, NoNewInvitation
  <2> QED
    BY <1>t, <2>3, <2>5, <2>6, <2>7 DEF TenancyInv, Held
<1>21. ASSUME NEW p \in Procs, SaveOrganization(p) PROVE TenancyInv'
  <2>1. Become(p, Blank) /\ UNCHANGED <<users, invitations, issuedTo>>
    BY <1>21 DEF SaveOrganization, Return
  <2> QED
    BY <1>20, <2>1, BlankIsRight, BlankFields DEF IsManager, Stored
<1>22. ASSUME NEW p \in Procs, SaveUser(p) PROVE TenancyInv'
  <2>1. /\ req[p] \in RequestRecord /\ req[p].pc = "saveUsers"
        /\ req[p].urows \in [UserId -> UserRow \cup {Nil}]
        /\ UNCHANGED <<organizations, invitations, issuedTo>>
    BY <1>22, <1>t DEF SaveUser, At, TypeOK, Request, RequestRecord
  <2>2. RowsAgree(req[p]) /\ Justified(req[p])
    BY DEF TenancyInv
  <2>3. PICK u \in Stored(req[p].urows) :
          /\ users' = [users EXCEPT ![u] = req[p].urows[u]]
          /\ \/ Become(p, [req[p] EXCEPT !.urows = Saved(req[p].urows, u)])
             \/ Become(p, [req[p] EXCEPT !.urows = Saved(req[p].urows, u), !.pc = "saveOrganization"])
             \/ Become(p, [req[p] EXCEPT !.urows = Saved(req[p].urows, u), !.pc = "readPending"])
             \/ Return(p)
    BY <1>22 DEF SaveUser, UpdateUser
  <2>4. Stored(users') \subseteq Stored(users)
    BY <1>t, <2>1, <2>2, <2>3, StoredIs DEF RowsAgree, TypeOK, StorageTypeOK, Stored
  <2>5. CASE Return(p)
    BY <1>20, <2>1, <2>4, <2>5, BlankIsRight, BlankFields DEF IsManager, Return
  <2>6. ASSUME NEW r, Become(p, r), r.urows = Saved(req[p].urows, u),
               r.op = req[p].op, r.inv = req[p].inv, r.irow = req[p].irow, r.org = req[p].org,
               r.orow = req[p].orow, r.newUser = req[p].newUser, r.email = req[p].email
        PROVE  TenancyInv'
    <3>1. \A v \in Stored(r.urows) : v \in Stored(req[p].urows) /\ r.urows[v] = req[p].urows[v]
      BY <2>1, <2>3, <2>6 DEF Saved, Stored
    <3>2. RowsAgree(r)
      BY <2>2, <2>6, <3>1 DEF RowsAgree
    <3>3. Justified(r)
      BY <2>1, <2>2, <2>6 DEF Justified
    <3> QED
      BY <1>20, <2>1, <2>4, <2>6, <3>2, <3>3
  <2>7. ASSUME NEW pc, Become(p, [req[p] EXCEPT !.urows = Saved(req[p].urows, u), !.pc = pc])
        PROVE  TenancyInv'
    BY <2>1, <2>6, <2>7 DEF RequestRecord
  <2>8. CASE Become(p, [req[p] EXCEPT !.urows = Saved(req[p].urows, u)])
    BY <2>1, <2>6, <2>8 DEF RequestRecord
  <2> QED
    BY <2>3, <2>5, <2>7, <2>8
<1>23. ASSUME NEW p \in Procs, Abort(p) PROVE TenancyInv'
  BY <1>10, <1>23 DEF Abort
<1>24. CASE Tick \/ UNCHANGED vars
  <2>1. UNCHANGED <<tables, issuedTo, req>>
    BY <1>24 DEF Tick, vars
  <2>2. Held'
    BY <2>1 DEF TenancyInv, Held, RowsAgree, Justified, tables, IsManager, SameAccount, SameMember, Stored
  <2>3. FounderIsAlone'
    BY <1>t, <2>1, NoNewFounder DEF tables, Stored
  <2>4. (OneManagerPerOrganization /\ OneAccountPerEmail /\ MembersBelong)'
    BY <1>t, <2>1, NoNewUser DEF tables, Stored
  <2>5. (AcceptedHasAccount /\ TokenNamesOneInvitation)'
    BY <1>t, <2>1, NoNewInvitation DEF tables
  <2> QED
    BY <1>t, <2>2, <2>3, <2>4, <2>5 DEF TenancyInv, Held
<1> QED
  BY <1>1, <1>2, <1>4, <1>5, <1>6, <1>7, <1>8, <1>9, <1>11, <1>13, <1>14, <1>15, <1>16,
     <1>18, <1>19, <1>21, <1>22, <1>23, <1>24 DEF Next, Start, Continue

\* The inductive invariant.  Besides what the tables promise it says what the
\* rows a request holds, read any number of steps ago, still share with them:
\* that is what makes the whole-row saves of stale rows harmless to tenancy.
THEOREM TenancyInvariant == Spec => []TenancyInv
  BY TenancyInit, TenancyNext, PTL DEF Spec

\* An organization never has two managers: CreateOrganizationWithUser appoints
\* one to an organization nobody else can be founding, and no invitation and
\* no stale save makes another.
THEOREM OneManager == Spec => []OneManagerPerOrganization
<1>1. TenancyInv => OneManagerPerOrganization
  BY DEF TenancyInv
<1> QED
  BY <1>1, TenancyInvariant, PTL

\* Every account was founded or invited by the organization it belongs to, at
\* its own address: AcceptInvitation inserts nobody else.
THEOREM EverybodyBelongs == Spec => []MembersBelong
<1>1. TenancyInv => MembersBelong
  BY DEF TenancyInv
<1> QED
  BY <1>1, TenancyInvariant, PTL

\* An accepted invitation has an account at its organization and address, also
\* when RejectInvitation, ResendInvitation and UpdatePassword save stale rows.
THEOREM NobodyElseAccepts == Spec => []AcceptedHasAccount
<1>1. TenancyInv => AcceptedHasAccount
  BY DEF TenancyInv
<1> QED
  BY <1>1, TenancyInvariant, PTL

\* The token stored with an invitation is one drawn for it: no link opens
\* another invitation than the one it was mailed for.
THEOREM LinksStayApart == Spec => []TokenNamesOneInvitation
<1>1. TenancyInv => TokenNamesOneInvitation
  BY DEF TenancyInv
<1> QED
  BY <1>1, TenancyInvariant, PTL

\* Two accounts never share an address, deleted accounts included.
THEOREM EmailsStayUnique == Spec => []OneAccountPerEmail
<1>1. TenancyInv => OneAccountPerEmail
  BY DEF TenancyInv
<1> QED
  BY <1>1, TenancyInvariant, PTL

\* No step of any request loses a row, or moves a user or an invitation to
\* another organization, address or role.
THEOREM RowsStay == Spec => TenancyStable
<1>1. TenancyInv /\ [Next]_vars => [KeepsRows]_vars
  BY StepKeepsRows
<1> QED
  BY <1>1, TenancyInvariant, PTL DEF Spec, TenancyStable

-----------------------------------------------------------------------------
(* Manager implements Tenancy *)

\* A step that inserts no row is a stuttering step of Tenancy: rows keep what
\* Tenancy sees of them.
LEMMA NothingNew ==
  ASSUME KeepsRows, Stored(organizations') = Stored(organizations),
         Stored(users') = Stored(users), Stored(invitations') = Stored(invitations)
  PROVE  UNCHANGED <<founded, invited, members>>
<1>1. founded' = founded
  BY DEF founded
<1>2. invited' = invited
  <2>1. \A i \in Stored(invitations) : /\ invitations'[i].org = invitations[i].org
                                       /\ invitations'[i].email = invitations[i].email
    BY DEF KeepsRows, SameMember
  <2> QED
    BY <2>1 DEF invited
<1>3. members' = members
  <2>1. \A u \in Stored(users) : /\ users'[u].org = users[u].org
                                 /\ users'[u].email = users[u].email
                                 /\ users'[u].role = users[u].role
    BY DEF KeepsRows, SameAccount, SameMember
  <2> QED
    BY <2>1 DEF members
<1> QED
  BY <1>1, <1>2, <1>3

LEMMA StepImplements == TenancyInv /\ [Next]_vars => [T!Next]_<<founded, invited, members>>
<1> SUFFICES ASSUME TenancyInv, [Next]_vars
             PROVE  T!Next \/ UNCHANGED <<founded, invited, members>>
  OBVIOUS
<1>t. TypeOK /\ TypeOK' /\ KeepsRows
  BY TypeNext, StepKeepsRows DEF TenancyInv
<1>1. ASSUME NEW p \in Procs, CreateOrganizationWithUser(p) PROVE T!Next
  <2>1. PICK o \in OrgId : CreateOrganization(o, NewOrganization)
    BY <1>1 DEF CreateOrganizationWithUser
  <2>2. UNCHANGED <<users, invitations>>
    BY <1>1 DEF CreateOrganizationWithUser
  <2>3. o \notin Stored(organizations) /\ Stored(organizations') = Stored(organizations) \cup {o}
    BY <1>t, <2>1, StoredIs, NilIsNoRow DEF CreateOrganization, NewOrganization, IsNextKey, Stored, TypeOK,
       StorageTypeOK, OrgRow, Time
  <2>4. T!Found(o)
    BY <2>2, <2>3 DEF T!Found, founded, invited, members, Stored
  <2> QED
    BY <2>4 DEF T!Next
<1>2. ASSUME NEW p \in Procs, CreateUserWithPassword(p), users' # users PROVE T!Next
  <2> DEFINE row == req[p].newUser
             member == [org |-> row.org, email |-> row.email, role |-> row.role]
  <2>1. PICK k \in UserId : CreateUser(k, row)
    BY <1>2 DEF CreateUserWithPassword
  <2>2. UNCHANGED <<organizations, invitations>>
    BY <1>2 DEF CreateUserWithPassword
  <2>3. row # Nil /\ row \in UserRow
    BY <1>2, <1>t DEF CreateUserWithPassword, At, TypeOK, Request, RequestRecord, HoldsItsArguments
  <2>4. Justified(req[p]) /\ FounderIsAlone
    BY DEF TenancyInv
  <2>5. /\ users'[k] = row
        /\ Stored(users') = Stored(users) \cup {k}
        /\ \A u \in Stored(users) : u # k /\ users'[u] = users[u] /\ users[u].email # row.email
    BY <1>t, <2>1, <2>3, StoredIs
       DEF CreateUser, EmailTaken, IsNextKey, TypeOK, StorageTypeOK, Stored
  <2>6. IsManager(row) => /\ row.org \in Stored(organizations)
                          /\ \A u \in Stored(users) : IsManager(users[u]) => users[u].org # row.org
    BY <2>4 DEF Justified, FounderIsAlone
  <2>7. ~IsManager(row) => \E i \in Stored(invitations) : SameMember(row, invitations[i])
    BY <2>3, <2>4 DEF Justified
  <2>8. row.org \in OrgId /\ row.email \in Email /\ row.role \in {"manager", "user"}
    BY <2>3 DEF UserRow, Role
  <2> HIDE DEF row
  <2>9. members' = members \cup {member} /\ UNCHANGED <<founded, invited>>
    BY <2>2, <2>5 DEF members, founded, invited, Stored
  <2>10. ~T!Taken(row.email)
    BY <2>5 DEF T!Taken, members
  <2>11. CASE IsManager(row)
    <3>1. row.org \in founded /\ row.role = "manager"
      BY <2>6, <2>11 DEF founded, IsManager
    <3>2. ~\E m \in members : m.org = row.org /\ m.role = "manager"
      BY <2>6, <2>11 DEF members, IsManager, Stored
    <3>3. T!Appoint(row.org, row.email)
      BY <2>9, <2>10, <3>1, <3>2 DEF T!Appoint
    <3> QED
      BY <2>8, <3>3 DEF T!Next
  <2>12. CASE ~IsManager(row)
    <3>1. row.role = "user"
      BY <2>3, <2>8, <2>12 DEF IsManager, row
    <3>2. <<row.org, row.email>> \in invited
      BY <2>7, <2>12 DEF invited, SameMember
    <3>3. T!Join(row.org, row.email)
      BY <2>9, <2>10, <3>1, <3>2 DEF T!Join
    <3> QED
      BY <2>8, <3>3 DEF T!Next
  <2> QED
    BY <2>11, <2>12
<1>3. ASSUME NEW p \in Procs, InviteUser(p) \/ InviteNext(p) PROVE T!Next
  <2>1. PICK o \in OrgId, e \in Email :
          \E i \in InvId, row \in InvRow : /\ row.org = o /\ row.email = e
                                           /\ CreateInvitation(i, row)
    <3>1. PICK op \in Op, o \in OrgId, e \in Email, rest \in Seq(Email) : Invite(p, op, o, e, rest)
      <4>1. CASE InviteUser(p)
        <5>1. "InviteUser" \in Op /\ <<>> \in Seq(Email)
          BY DEF Op
        <5> QED
          BY <4>1, <5>1 DEF InviteUser
      <4>2. CASE InviteNext(p)
        <5>1. /\ "InviteUsers" \in Op /\ req[p].org \in OrgId
              /\ Head(req[p].todo) \in Email /\ Tail(req[p].todo) \in Seq(Email)
          BY <1>t, <4>2, BulkArguments DEF InviteNext, Op
        <5> QED
          BY <4>2, <5>1 DEF InviteNext
      <4> QED
        BY <1>3, <4>1, <4>2
    <3> DEFINE Row(t) == [org |-> o, email |-> e, token |-> t,
                          expiresAt |-> CalculateExpiry, status |-> "pending"]
    <3>2. PICK i \in InvId, t \in Token : CreateInvitation(i, Row(t))
      BY <3>1 DEF Invite, NewInvitation
    <3>3. Row(t) \in InvRow /\ Row(t).org = o /\ Row(t).email = e
      BY <1>t, ConfigAssumption DEF InvRow, Status, CalculateExpiry, TypeOK
    <3> HIDE DEF Row
    <3> QED
      BY <3>2, <3>3
  <2>2. PICK i \in InvId, row \in InvRow : /\ row.org = o /\ row.email = e
                                         /\ CreateInvitation(i, row)
    BY <2>1
  <2>3. UNCHANGED <<organizations, users>>
    BY <1>3 DEF InviteUser, InviteNext
  <2>4. /\ invitations'[i] = row
        /\ Stored(invitations') = Stored(invitations) \cup {i}
        /\ \A j \in Stored(invitations) : j # i /\ invitations'[j] = invitations[j]
    BY <1>t, <2>2, StoredIs, NilIsNoRow DEF CreateInvitation, IsNextKey, TypeOK, StorageTypeOK, Stored
  <2>5. invited' = invited \cup {<<o, e>>}
    BY <2>2, <2>4 DEF invited
  <2>6. T!Invite(o, e)
    BY <2>3, <2>5 DEF T!Invite, founded, members, Stored
  <2> QED
    BY <2>6 DEF T!Next
<1>4. ASSUME NEW p \in Procs, SaveInvitation(p) \/ SaveUser(p) \/ SaveOrganization(p)
      PROVE  UNCHANGED <<founded, invited, members>>
  <2>1. req[p] \in RequestRecord /\ HoldsItsArguments(req[p]) /\ RowsAgree(req[p])
    BY <1>t DEF TypeOK, Request, TenancyInv
  <2>2. CASE SaveInvitation(p)
    <3>1. req[p].irow # Nil /\ req[p].inv \in Stored(invitations)
      BY <2>1, <2>2 DEF SaveInvitation, At, HoldsItsArguments, RowsAgree
    <3>2. Stored(invitations') = Stored(invitations)
      BY <1>t, <2>2, <3>1, StoredIs DEF SaveInvitation, UpdateInvitation, TypeOK, StorageTypeOK, Stored
    <3> QED
      BY <1>t, <2>2, <3>2, NothingNew DEF SaveInvitation, Stored
  <2>3. CASE SaveUser(p)
    <3>1. PICK u \in Stored(req[p].urows) : users' = [users EXCEPT ![u] = req[p].urows[u]]
      BY <2>3 DEF SaveUser, UpdateUser
    <3>2. u \in Stored(users) /\ req[p].urows[u] # Nil
      BY <2>1, <3>1 DEF RowsAgree, SameAccount, SameMember
    <3>3. Stored(users') = Stored(users)
      BY <1>t, <3>1, <3>2, StoredIs DEF TypeOK, StorageTypeOK, Stored
    <3> QED
      BY <1>t, <2>3, <3>3, NothingNew DEF SaveUser, Stored
  <2>4. CASE SaveOrganization(p)
    <3>1. req[p].orow # Nil /\ req[p].org \in Stored(organizations)
      BY <2>1, <2>4 DEF SaveOrganization, At, HoldsItsArguments, RowsAgree
    <3>2. Stored(organizations') = Stored(organizations)
      BY <1>t, <2>4, <3>1, StoredIs DEF SaveOrganization, UpdateOrganization, TypeOK, StorageTypeOK, Stored
    <3> QED
      BY <1>t, <2>4, <3>2, NothingNew DEF SaveOrganization, Stored
  <2> QED
    BY <1>4, <2>2, <2>3, <2>4
<1>5. ASSUME UNCHANGED tables PROVE UNCHANGED <<founded, invited, members>>
  BY <1>5 DEF tables, founded, invited, members, Stored
<1>6. ASSUME NEW p \in Procs, CreateUserWithPassword(p), users' = users PROVE UNCHANGED tables
  BY <1>6 DEF CreateUserWithPassword, tables
<1>7. ASSUME NEW p \in Procs, Start(p), ~CreateOrganizationWithUser(p), ~InviteUser(p)
      PROVE  UNCHANGED tables
  BY <1>7 DEF Start, InviteUsers, AcceptInvitation, RejectInvitation, ResendInvitation,
              UpdatePassword, UpdateProfile, DeleteUser, DeleteOrganization, UpdateOrganizationName
<1>8. ASSUME NEW p \in Procs, InviteNextFails(p) \/ SendMail(p) \/ ReadPending(p) \/ ReadMembers(p) \/ Abort(p)
      PROVE  UNCHANGED tables
  BY <1>8 DEF InviteNextFails, SendMail, ReadPending, ReadMembers, Abort
<1>9. ASSUME Tick \/ UNCHANGED vars PROVE UNCHANGED tables
  BY <1>9 DEF Tick, vars
<1> QED
  BY <1>1, <1>2, <1>3, <1>4, <1>5, <1>6, <1>7, <1>8, <1>9 DEF Next, Continue

\* Manager implements Tenancy: a founding is Found and then, if it gets there,
\* Appoint; InviteUser is Invite; the insert of AcceptInvitation is Join; every
\* other step, the end of a request at any point included, changes nothing that
\* Tenancy can see.
THEOREM Implements == Spec => ImplementsTenancy
<1>1. Init => T!Init
  BY DEF Init, StorageInit, T!Init, founded, invited, members, Stored
<1>2. TenancyInv /\ [Next]_vars => [T!Next]_<<founded, invited, members>>
  BY StepImplements
<1> QED
  BY <1>1, <1>2, TenancyInvariant, PTL DEF Spec, ImplementsTenancy, T!Spec

-----------------------------------------------------------------------------
(* What a request holds after a step of Manager *)

\* Every row held was held before, or has just been read.
HeldRows(old, r) ==
    \A u \in Stored(r.urows) :
       \/ u \in Stored(old.urows) /\ r.urows[u] = old.urows[u]
       \/ u \in Stored(users) /\ SameAccount(users[u], r.urows[u])

LEMMA NoRowsHeld ==
  ASSUME NEW old, NEW r, r.urows = NoUsers
  PROVE  HeldRows(old, r)
BY DEF HeldRows, NoUsers, Stored

LEMMA OneRowHeld ==
  ASSUME TypeOK, NEW old, NEW r, NEW u \in Stored(users), NEW row, SameAccount(users[u], row),
         r.urows = HoldUser(u, row)
  PROVE  HeldRows(old, r)
<1>1. \A v \in Stored(r.urows) : v = u /\ r.urows[v] = row
  BY StoredIs DEF HoldUser, NoUsers, Stored
<1> QED
  BY <1>1 DEF HeldRows

\* The rows a request reads, to save them.
LEMMA UserReads ==
  ASSUME TypeOK, NEW p \in Procs, UpdatePassword(p) \/ UpdateProfile(p) \/ DeleteUser(p)
  PROVE  \E r : Become(p, r) /\ HeldRows(req[p], r)
<1>1. CASE UpdatePassword(p)
  <2>1. PICK u \in Stored(users), o \in OrgId :
          Become(p, [Blank EXCEPT !.op = "UpdatePassword", !.pc = "saveUsers",
                                  !.org = o, !.email = users[u].email,
                                  !.urows = HoldUser(u, WithPassword(users[u]))])
    BY <1>1 DEF UpdatePassword
  <2>2. PICK r : /\ Become(p, r)
                 /\ r = [Blank EXCEPT !.op = "UpdatePassword", !.pc = "saveUsers",
                                      !.org = o, !.email = users[u].email,
                                      !.urows = HoldUser(u, WithPassword(users[u]))]
    BY <2>1
  <2>3. users[u] \in UserRow
    BY StoredType
  <2>4. SameAccount(users[u], WithPassword(users[u]))
    BY <2>3, NilIsNoRow DEF SameAccount, SameMember, WithPassword, UserRow, Password
  <2>5. r.urows = HoldUser(u, WithPassword(users[u]))
    BY <2>2, BlankFields DEF RequestRecord
  <2> QED
    BY <2>2, <2>4, <2>5, OneRowHeld
<1>2. CASE UpdateProfile(p)
  <2>1. PICK u \in Stored(users) :
          Become(p, [Blank EXCEPT !.op = "UpdateProfile", !.pc = "saveUsers",
                                  !.urows = HoldUser(u, users[u])])
    BY <1>2 DEF UpdateProfile
  <2>2. PICK r : Become(p, r) /\ r = [Blank EXCEPT !.op = "UpdateProfile", !.pc = "saveUsers",
                                                   !.urows = HoldUser(u, users[u])]
    BY <2>1
  <2>3. SameAccount(users[u], users[u])
    BY DEF SameAccount, SameMember, Stored
  <2>4. r.urows = HoldUser(u, users[u])
    BY <2>2, BlankFields DEF RequestRecord
  <2> QED
    BY <2>2, <2>3, <2>4, OneRowHeld
<1>3. CASE DeleteUser(p)
  <2>1. PICK u \in Stored(users), o \in OrgId :
          \/ Become(p, [Blank EXCEPT !.op = "DeleteUser", !.pc = "saveUsers",
                                     !.urows = HoldUser(u, DeletedUser(users[u]))])
          \/ StartDeletion(p, "DeleteUser", o)
    BY <1>3 DEF DeleteUser
  <2>2. CASE StartDeletion(p, "DeleteUser", o)
    <3>1. PICK r : Become(p, r) /\ r = [Blank EXCEPT !.op = "DeleteUser", !.pc = "readMembers", !.org = o,
                                          !.orow = DeletedOrganization(organizations[o])]
      BY <2>2 DEF StartDeletion
    <3>2. r.urows = NoUsers
      BY <3>1, BlankFields DEF RequestRecord
    <3> QED
      BY <3>1, <3>2, NoRowsHeld
  <2>3. CASE Become(p, [Blank EXCEPT !.op = "DeleteUser", !.pc = "saveUsers",
                                     !.urows = HoldUser(u, DeletedUser(users[u]))])
    <3>1. PICK r : Become(p, r) /\ r = [Blank EXCEPT !.op = "DeleteUser", !.pc = "saveUsers",
                                                     !.urows = HoldUser(u, DeletedUser(users[u]))]
      BY <2>3
    <3>2. users[u] \in UserRow
      BY StoredType
    <3>3. SameAccount(users[u], DeletedUser(users[u]))
      BY <3>2, NilIsNoRow DEF SameAccount, SameMember, DeletedUser, UserRow, Time
    <3>4. r.urows = HoldUser(u, DeletedUser(users[u]))
      BY <3>1, BlankFields DEF RequestRecord
    <3> QED
      BY <3>1, <3>3, <3>4, OneRowHeld
  <2> QED
    BY <2>1, <2>2, <2>3
<1> QED
  BY <1>1, <1>2, <1>3

LEMMA MembersRead ==
  ASSUME TypeOK, NEW p \in Procs, ReadMembers(p)
  PROVE  \E r : Become(p, r) /\ HeldRows(req[p], r)
<1>1. PICK listed \in {GetUsersByOrganizationID(req[p].org), {}} :
        Become(p, [req[p] EXCEPT
                      !.pc = IF listed = {} THEN "saveOrganization" ELSE "saveUsers",
                      !.urows = [u \in UserId |-> IF u \in listed THEN DeletedUser(users[u]) ELSE Nil]])
  BY DEF ReadMembers
<1>2. listed \subseteq Stored(users)
  BY DEF GetUsersByOrganizationID
<1>3. PICK read : read = [u \in UserId |-> IF u \in listed THEN DeletedUser(users[u]) ELSE Nil]
  OBVIOUS
<1>4. PICK r : Become(p, r) /\ r = [req[p] EXCEPT
                      !.pc = IF listed = {} THEN "saveOrganization" ELSE "saveUsers", !.urows = read]
  BY <1>1, <1>3
<1>5. r.urows = read
  <2>1. req[p] \in RequestRecord
    BY DEF TypeOK, Request
  <2> QED
    BY <1>4, <2>1 DEF RequestRecord
<1>6. \A u \in listed : SameAccount(users[u], DeletedUser(users[u]))
  BY <1>2, StoredType, NilIsNoRow DEF SameAccount, SameMember, DeletedUser, UserRow, Time
<1>7. HeldRows(req[p], r)
  BY <1>2, <1>3, <1>5, <1>6 DEF HeldRows, Stored
<1> QED
  BY <1>4, <1>7

\* A request that starts without a user's row, or returns, holds none.
LEMMA OtherMoves ==
  ASSUME TypeOK, NEW p \in Procs,
         \/ CreateOrganizationWithUser(p) \/ InviteUser(p) \/ InviteUsers(p)
         \/ AcceptInvitation(p) \/ RejectInvitation(p) \/ ResendInvitation(p)
         \/ DeleteOrganization(p) \/ UpdateOrganizationName(p)
         \/ CreateUserWithPassword(p) \/ SendMail(p) \/ SaveInvitation(p) \/ ReadPending(p)
         \/ SaveOrganization(p) \/ Abort(p)
  PROVE  \E r : Become(p, r) /\ HeldRows(req[p], r)
<1> DEFINE Goal == \E r : Become(p, r) /\ HeldRows(req[p], r)
<1>b. Blank.urows = NoUsers
  BY BlankFields
<1>r. ASSUME Return(p) PROVE Goal
  BY <1>b, <1>r, NoRowsHeld DEF Return
<1>1. ASSUME CreateOrganizationWithUser(p) PROVE Goal
  <2>1. PICK r : Become(p, r) /\ \E o \in OrgId, e \in Email :
                   r = [Blank EXCEPT !.op = "CreateOrganizationWithUser", !.pc = "createUser",
                                     !.newUser = NewUser(o, e, "manager")]
    BY <1>1 DEF CreateOrganizationWithUser
  <2>2. r.urows = NoUsers
    BY <2>1, BlankFields DEF RequestRecord
  <2> QED
    BY <2>1, <2>2, NoRowsHeld
<1>2. ASSUME NEW o, NEW rest, Become(p, InviteRest(o, rest)) PROVE Goal
  <2>1. InviteRest(o, rest).urows = NoUsers
    BY BlankFields DEF InviteRest, RequestRecord
  <2> QED
    BY <1>2, <2>1, NoRowsHeld
<1>3. ASSUME InviteUser(p) PROVE Goal
  <2>1. PICK op, o, e, rest : Invite(p, op, o, e, rest)
    BY <1>3 DEF InviteUser
  <2>2. PICK r : Become(p, r) /\ \E i \in InvId, t \in Token :
                   r = [Blank EXCEPT !.op = op, !.pc = "sendMail", !.org = o, !.inv = i,
                                     !.irow = NewInvitation(o, e, t), !.todo = rest]
    BY <2>1 DEF Invite
  <2>3. r.urows = NoUsers
    BY <2>2, BlankFields DEF RequestRecord
  <2> QED
    BY <2>2, <2>3, NoRowsHeld
<1>4. ASSUME InviteUsers(p) \/ SendMail(p) PROVE Goal
  BY <1>2, <1>4 DEF InviteUsers, SendMail
<1>5. ASSUME AcceptInvitation(p) PROVE Goal
  <2>1. PICK r : Become(p, r) /\ \E row :
                   r = [Blank EXCEPT !.op = "AcceptInvitation", !.pc = "createUser", !.newUser = row]
    BY <1>5 DEF AcceptInvitation
  <2>2. r.urows = NoUsers
    BY <2>1, BlankFields DEF RequestRecord
  <2> QED
    BY <2>1, <2>2, NoRowsHeld
<1>6. ASSUME RejectInvitation(p) PROVE Goal
  <2>1. PICK r : Become(p, r) /\ \E i, row :
                   r = [Blank EXCEPT !.op = "RejectInvitation", !.pc = "saveInvitation", !.inv = i,
                                     !.irow = row]
    BY <1>6 DEF RejectInvitation
  <2>2. r.urows = NoUsers
    BY <2>1, BlankFields DEF RequestRecord
  <2> QED
    BY <2>1, <2>2, NoRowsHeld
<1>7. ASSUME ResendInvitation(p) PROVE Goal
  <2>0. PICK i \in Stored(invitations), t \in Token :
          Become(p, [Blank EXCEPT !.op = "ResendInvitation", !.pc = "saveInvitation",
                                  !.org = invitations[i].org, !.inv = i,
                                  !.irow = Renewed(invitations[i], t)])
    BY <1>7 DEF ResendInvitation
  <2>1. PICK r : /\ Become(p, r)
                 /\ r = [Blank EXCEPT !.op = "ResendInvitation", !.pc = "saveInvitation",
                                      !.org = invitations[i].org, !.inv = i,
                                      !.irow = Renewed(invitations[i], t)]
    BY <2>0
  <2>2. r.urows = NoUsers
    BY <2>1, BlankFields DEF RequestRecord
  <2> QED
    BY <2>1, <2>2, NoRowsHeld
<1>8. ASSUME DeleteOrganization(p) PROVE Goal
  <2>1. PICK r : Become(p, r) /\ \E o, row :
                   r = [Blank EXCEPT !.op = "DeleteOrganization", !.pc = "readMembers", !.org = o,
                                     !.orow = row]
    BY <1>8 DEF DeleteOrganization, StartDeletion
  <2>2. r.urows = NoUsers
    BY <2>1, BlankFields DEF RequestRecord
  <2> QED
    BY <2>1, <2>2, NoRowsHeld
<1>9. ASSUME UpdateOrganizationName(p) PROVE Goal
  <2>1. PICK r : Become(p, r) /\ \E o, row :
                   r = [Blank EXCEPT !.op = "UpdateOrganization", !.pc = "saveOrganization",
                                     !.org = o, !.orow = row]
    BY <1>9 DEF UpdateOrganizationName
  <2>2. r.urows = NoUsers
    BY <2>1, BlankFields DEF RequestRecord
  <2> QED
    BY <2>1, <2>2, NoRowsHeld
<1>10. ASSUME ReadPending(p) PROVE Goal
  <2>1. CASE Return(p)
    BY <1>r, <2>1
  <2>2. ASSUME NEW r, Become(p, r), NEW i, NEW row,
               r = [Blank EXCEPT !.op = "UpdatePassword", !.pc = "saveInvitation", !.inv = i, !.irow = row]
        PROVE  Goal
    <3>1. r.urows = NoUsers
      BY <2>2, BlankFields DEF RequestRecord
    <3> QED
      BY <2>2, <3>1, NoRowsHeld
  <2> HIDE DEF Goal
  <2> QED
    BY <1>10, <2>1, <2>2 DEF ReadPending
<1>11. ASSUME SaveInvitation(p) PROVE Goal
  <2>1. PICK r : Become(p, r) /\ (r = [req[p] EXCEPT !.pc = "sendMail"] \/ r = Blank)
    BY <1>11 DEF SaveInvitation
  <2>2. req[p] \in RequestRecord
    BY DEF TypeOK, Request
  <2>3. r.urows = req[p].urows \/ r.urows = NoUsers
    BY <1>b, <2>1, <2>2 DEF RequestRecord
  <2>4. HeldRows(req[p], r)
    BY <2>3, NoRowsHeld DEF HeldRows
  <2> QED
    BY <2>1, <2>4
<1>12. ASSUME CreateUserWithPassword(p) \/ SaveOrganization(p) \/ Abort(p) PROVE Goal
  BY <1>r, <1>12 DEF CreateUserWithPassword, SaveOrganization, Abort
<1> HIDE DEF Goal
<1>q. Goal
  BY <1>1, <1>3, <1>4, <1>5, <1>6, <1>7, <1>8, <1>9, <1>10, <1>11, <1>12
<1> QED
  BY <1>q DEF Goal

\* What is left to save was held before.
LEMMA RestHeld ==
  ASSUME NEW r \in RequestRecord, NEW u \in UserId, NEW rest,
         rest.urows = Saved(r.urows, u)
  PROVE  HeldRows(r, rest)
BY DEF HeldRows, Saved, Stored, RequestRecord

\* Whatever a request does next.
LEMMA EveryMove ==
  ASSUME TypeOK, NEW p \in Procs, Start(p) \/ Continue(p) \/ Abort(p)
  PROVE  \E r : Become(p, r) /\ HeldRows(req[p], r)
<1>1. CASE InviteNext(p)
  <2>1. PICK r : Become(p, r) /\ \E i \in InvId, t \in Token :
          r = [Blank EXCEPT !.op = "InviteUsers", !.pc = "sendMail", !.org = req[p].org, !.inv = i,
                            !.irow = NewInvitation(req[p].org, Head(req[p].todo), t),
                            !.todo = Tail(req[p].todo)]
    BY <1>1 DEF InviteNext, Invite
  <2>2. r.urows = NoUsers
    BY <2>1, BlankFields DEF RequestRecord
  <2> QED
    BY <2>1, <2>2, NoRowsHeld
<1>2. CASE InviteNextFails(p)
  <2>1. PICK rest : Become(p, InviteRest(req[p].org, rest))
    BY <1>2 DEF InviteNextFails
  <2>2. InviteRest(req[p].org, rest).urows = NoUsers
    BY BlankFields DEF InviteRest, RequestRecord
  <2> QED
    BY <2>1, <2>2, NoRowsHeld
<1>3. CASE SaveUser(p)
  <2>0. req[p] \in RequestRecord
    BY DEF TypeOK, Request
  <2>1. PICK u \in Stored(req[p].urows) :
          LET rest == Saved(req[p].urows, u)
          IN  \/ Become(p, [req[p] EXCEPT !.urows = rest])
              \/ Become(p, [req[p] EXCEPT !.urows = rest, !.pc = "saveOrganization"])
              \/ Become(p, [req[p] EXCEPT !.urows = rest, !.pc = "readPending"])
              \/ Return(p)
    BY <1>3 DEF SaveUser
  <2>2. u \in UserId
    BY <2>0 DEF RequestRecord, Stored
  <2> DEFINE rest == Saved(req[p].urows, u)
  <2>3. ASSUME NEW r, Become(p, r), r.urows = rest PROVE \E s : Become(p, s) /\ HeldRows(req[p], s)
    BY <2>0, <2>2, <2>3, RestHeld
  <2>4. [req[p] EXCEPT !.urows = rest].urows = rest
    BY <2>0 DEF RequestRecord
  <2>5. \A pc : [req[p] EXCEPT !.urows = rest, !.pc = pc].urows = rest
    BY <2>0 DEF RequestRecord
  <2>6. CASE Return(p)
    BY <2>6, BlankFields, NoRowsHeld DEF Return
  <2> HIDE DEF rest
  <2> QED
    BY <2>1, <2>3, <2>4, <2>5, <2>6 DEF rest
<1> QED
  BY <1>1, <1>2, <1>3, UserReads, MembersRead, OtherMoves DEF Start, Continue

-----------------------------------------------------------------------------
(* Requests end *)

\* The tables are finite, and so is what a request holds.
FiniteInv == /\ TypeOK
             /\ IsFiniteSet(Stored(users))
             /\ \A p \in Procs : IsFiniteSet(Stored(req[p].urows))

\* How far from its end a storage call or e-mail is.
Level(pc) == CASE pc = "idle"                                          -> 0
               [] pc \in {"createUser", "inviteNext", "saveOrganization"} -> 1
               [] pc = "sendMail"                                      -> 2
               [] pc = "saveInvitation"                                -> 3
               [] pc = "readPending"                                   -> 4
               [] pc = "saveUsers"                                     -> 5
               [] OTHER                                                -> 6

\* What a request has left: addresses, calls, rows to save.
Left(r) == <<Len(r.todo), <<Level(r.pc), Cardinality(Stored(r.urows))>>>>

Less == OpToRel(<, Nat)

Nearer == LexPairOrdering(Less, LexPairOrdering(Less, Less, Nat, Nat), Nat, Nat \X Nat)

\* Each storage call and each e-mail of a request, and nothing else but its
\* being cut off, brings that request nearer to its end.
RequestsAdvance ==
    [][\A p \in Procs : ~At(p, "idle") =>
          /\ Continue(p) => <<Left(req'[p]), Left(req[p])>> \in Nearer
          /\ req'[p] # req[p] => <<Left(req'[p]), Left(req[p])>> \in Nearer]_vars

\* Nobody can come nearer for ever.
LEMMA NearerIsWellFounded == IsWellFoundedOn(Nearer, Nat \X (Nat \X Nat))
<1>1. IsWellFoundedOn(Less, Nat)
  BY NatLessThanWellFounded DEF Less
<1>2. IsWellFoundedOn(LexPairOrdering(Less, Less, Nat, Nat), Nat \X Nat)
  BY <1>1, WFLexPairOrdering
<1> QED
  BY <1>1, <1>2, WFLexPairOrdering DEF Nearer

Closer(r, s) ==
    \/ Len(r.todo) < Len(s.todo)
    \/ Len(r.todo) = Len(s.todo) /\ Level(r.pc) < Level(s.pc)
    \/ /\ Len(r.todo) = Len(s.todo) /\ Level(r.pc) = Level(s.pc)
       /\ Cardinality(Stored(r.urows)) < Cardinality(Stored(s.urows))

LEMMA LevelType == \A pc : Level(pc) \in Nat
BY DEF Level

LEMMA LessIs == ASSUME NEW m \in Nat, NEW n \in Nat, m < n PROVE <<m, n>> \in Less
BY DEF Less, OpToRel

LEMMA CloserIsNearer ==
  ASSUME NEW r \in RequestRecord, NEW s \in RequestRecord, Closer(r, s),
         IsFiniteSet(Stored(r.urows)), IsFiniteSet(Stored(s.urows))
  PROVE  <<Left(r), Left(s)>> \in Nearer
<1>1. /\ Len(r.todo) \in Nat /\ Len(s.todo) \in Nat
      /\ Level(r.pc) \in Nat /\ Level(s.pc) \in Nat
      /\ Cardinality(Stored(r.urows)) \in Nat /\ Cardinality(Stored(s.urows)) \in Nat
  BY LevelType, FS_CardinalityType DEF RequestRecord
<1>2. CASE Len(r.todo) < Len(s.todo)
  BY <1>1, <1>2, LessIs DEF Left, Nearer, LexPairOrdering
<1>3. CASE /\ Len(r.todo) = Len(s.todo)
           /\ <<Level(r.pc), Level(s.pc)>> \in Less
              \/ /\ Level(r.pc) = Level(s.pc)
                 /\ <<Cardinality(Stored(r.urows)), Cardinality(Stored(s.urows))>> \in Less
  BY <1>1, <1>3 DEF Left, Nearer, LexPairOrdering
<1> QED
  BY <1>1, <1>2, <1>3, LessIs DEF Closer

\* A request holds rows read from a finite table, and each step inserts one
\* user at most.
LEMMA HeldIsFinite ==
  ASSUME TypeOK, IsFiniteSet(Stored(users)), NEW old, IsFiniteSet(Stored(old.urows)),
         NEW r, HeldRows(old, r)
  PROVE  IsFiniteSet(Stored(r.urows))
<1>1. Stored(r.urows) \in SUBSET (Stored(old.urows) \cup Stored(users))
  BY DEF HeldRows
<1>2. IsFiniteSet(Stored(old.urows) \cup Stored(users))
  BY FS_Union
<1> QED
  BY <1>1, <1>2, FS_Subset

LEMMA StoresOneMore ==
  ASSUME TypeOK, TypeOK', [Next]_vars
  PROVE  \E u : Stored(users)' \subseteq Stored(users) \cup {u}
<1>1. /\ Stored(users) = {v \in UserId : users[v] # Nil}
      /\ Stored(users)' = {v \in UserId : users'[v] # Nil}
  BY DEF TypeOK, StorageTypeOK, Stored
<1>2. UNCHANGED users \/ \E u, row : users' = [users EXCEPT ![u] = row]
  BY DEF Next, Start, Continue, vars, tables, CreateOrganizationWithUser, CreateUserWithPassword,
         InviteUser, InviteUsers, InviteNext, InviteNextFails, SendMail, ResendInvitation,
         AcceptInvitation, RejectInvitation, SaveInvitation, UpdatePassword, ReadPending,
         UpdateProfile, DeleteUser, DeleteOrganization, ReadMembers, SaveUser, SaveOrganization,
         UpdateOrganizationName, Abort, Tick, CreateUser, UpdateUser
<1>3. CASE UNCHANGED users
  BY <1>3
<1>4. CASE \E u, row : users' = [users EXCEPT ![u] = row]
  BY <1>1, <1>4 DEF TypeOK, StorageTypeOK
<1> QED
  BY <1>2, <1>3, <1>4

LEMMA FiniteInvariant == Spec => []FiniteInv
<1>1. Init => FiniteInv
  <2> SUFFICES ASSUME Init PROVE FiniteInv
    OBVIOUS
  <2>1. Stored(users) = {} /\ Stored(Blank.urows) = {}
    BY BlankFields DEF Init, StorageInit, Stored, NoUsers
  <2>2. \A p \in Procs : IsFiniteSet(Stored(req[p].urows))
    BY <2>1, FS_EmptySet DEF Init
  <2> QED
    BY <2>1, <2>2, TypeInit, FS_EmptySet DEF FiniteInv
<1>2. FiniteInv /\ [Next]_vars => FiniteInv'
  <2> SUFFICES ASSUME FiniteInv, [Next]_vars PROVE FiniteInv'
    OBVIOUS
  <2>1. TypeOK /\ TypeOK'
    BY TypeNext DEF FiniteInv
  <2>2. IsFiniteSet(Stored(users)')
    <3>1. PICK u : Stored(users)' \subseteq Stored(users) \cup {u}
      BY <2>1, StoresOneMore
    <3>2. IsFiniteSet(Stored(users) \cup {u})
      BY FS_AddElement DEF FiniteInv
    <3> QED
      BY <3>1, <3>2, FS_Subset
  <2>3. ASSUME NEW q \in Procs PROVE IsFiniteSet(Stored(req'[q].urows))
    <3>1. CASE req'[q] = req[q]
      BY <3>1 DEF FiniteInv
    <3>2. CASE req'[q] # req[q]
      <4>1. PICK p \in Procs : Start(p) \/ Continue(p) \/ Abort(p)
        BY <3>2 DEF Next, Tick, vars
      <4>2. PICK r : Become(p, r) /\ HeldRows(req[p], r)
        BY <2>1, <4>1, EveryMove
      <4>3. req'[q] = r /\ q = p
        BY <2>1, <3>2, <4>2 DEF Become, TypeOK
      <4> QED
        BY <2>1, <4>2, <4>3, HeldIsFinite DEF FiniteInv
    <3> QED
      BY <3>1, <3>2
  <2> QED
    BY <2>1, <2>2, <2>3 DEF FiniteInv
<1> QED
  BY <1>1, <1>2, PTL DEF Spec

\* A request that returns has nothing left.
LEMMA ReturnIsCloser ==
  ASSUME NEW s \in Request, s.pc # "idle"
  PROVE  Closer(Blank, s)
<1>1. /\ Len(s.todo) \in Nat /\ Len(Blank.todo) = 0
      /\ Level(Blank.pc) = 0 /\ Level(s.pc) \in Nat /\ Level(s.pc) # 0
  BY BlankFields DEF Request, RequestRecord, Level, Pc
<1> QED
  BY <1>1 DEF Closer

\* The next call is nearer, and no address was added.
LEMMA NextCallIsCloser ==
  ASSUME NEW r, NEW s \in RequestRecord, Len(r.todo) = Len(s.todo), Level(r.pc) < Level(s.pc)
  PROVE  Closer(r, s)
BY DEF Closer

LEMMA FewerAddresses ==
  ASSUME TypeOK, NEW p \in Procs, At(p, "inviteNext")
  PROVE  /\ req[p].todo \in Seq(Email) /\ Tail(req[p].todo) \in Seq(Email)
         /\ Len(Tail(req[p].todo)) < Len(req[p].todo)
<1>1. req[p].todo \in Seq(Email) /\ req[p].todo # <<>>
  BY DEF At, TypeOK, Request, RequestRecord, HoldsItsArguments
<1> QED
  BY <1>1

LEMMA InviteRestLeft ==
  ASSUME NEW o, NEW rest
  PROVE  InviteRest(o, rest).todo = rest /\ Level(InviteRest(o, rest).pc) < 2
BY BlankFields DEF InviteRest, RequestRecord, Level

LEMMA SaveUserAdvances ==
  ASSUME FiniteInv, NEW p \in Procs, SaveUser(p)
  PROVE  \E r : Become(p, r) /\ Closer(r, req[p])
<1>0. /\ req[p] \in Request /\ req[p] \in RequestRecord /\ req[p].pc = "saveUsers"
      /\ IsFiniteSet(Stored(req[p].urows))
  BY DEF FiniteInv, TypeOK, Request, SaveUser, At
<1>1. PICK u \in Stored(req[p].urows) :
        LET rest == Saved(req[p].urows, u)
        IN  \/ Become(p, [req[p] EXCEPT !.urows = rest])
            \/ Become(p, [req[p] EXCEPT !.urows = rest, !.pc = "saveOrganization"])
            \/ Become(p, [req[p] EXCEPT !.urows = rest, !.pc = "readPending"])
            \/ Return(p)
  BY DEF SaveUser
<1> DEFINE rest == Saved(req[p].urows, u)
<1>2. CASE Become(p, [req[p] EXCEPT !.urows = rest])
  <2>1. PICK r : Become(p, r) /\ r = [req[p] EXCEPT !.urows = rest]
    BY <1>2
  <2>2. r.urows = rest /\ r.pc = req[p].pc /\ r.todo = req[p].todo
    BY <1>0, <2>1 DEF RequestRecord
  <2>3. Stored(rest) = Stored(req[p].urows) \ {u}
    BY <1>0 DEF Saved, Stored, RequestRecord
  <2>4. Cardinality(Stored(rest)) < Cardinality(Stored(req[p].urows))
    <3>1. Cardinality(Stored(rest)) = Cardinality(Stored(req[p].urows)) - 1
      BY <1>0, <2>3, FS_RemoveElement
    <3> QED
      BY <1>0, <3>1, FS_CardinalityType
  <2> QED
    BY <2>1, <2>2, <2>4 DEF Closer
<1>3. ASSUME NEW pc \in {"saveOrganization", "readPending"},
             Become(p, [req[p] EXCEPT !.urows = rest, !.pc = pc])
      PROVE  \E r : Become(p, r) /\ Closer(r, req[p])
  <2>1. PICK r : Become(p, r) /\ r = [req[p] EXCEPT !.urows = rest, !.pc = pc]
    BY <1>3
  <2>2. r.pc = pc /\ r.todo = req[p].todo
    BY <1>0, <2>1 DEF RequestRecord
  <2>3. Level(r.pc) < Level(req[p].pc)
    BY <1>0, <1>3, <2>2 DEF Level
  <2> QED
    BY <1>0, <2>1, <2>2, <2>3, NextCallIsCloser
<1>4. CASE Return(p)
  BY <1>0, <1>4, ReturnIsCloser DEF Return
<1> QED
  BY <1>1, <1>2, <1>3, <1>4

LEMMA EveryCallAdvances ==
  ASSUME FiniteInv, NEW p \in Procs, Continue(p) \/ Abort(p)
  PROVE  \E r : Become(p, r) /\ Closer(r, req[p])
<1> DEFINE Goal == \E r : Become(p, r) /\ Closer(r, req[p])
<1>t. TypeOK /\ req[p] \in Request /\ req[p] \in RequestRecord
  BY DEF FiniteInv, TypeOK, Request
<1>r. ASSUME Return(p), req[p].pc # "idle" PROVE Goal
  BY <1>r, <1>t, ReturnIsCloser DEF Return
<1>1. ASSUME CreateUserWithPassword(p) \/ SaveOrganization(p) \/ Abort(p) PROVE Goal
  BY <1>1, <1>r DEF CreateUserWithPassword, SaveOrganization, Abort, At
<1>2. ASSUME InviteNext(p) PROVE Goal
  <2>1. PICK r : Become(p, r) /\ \E i \in InvId, t \in Token :
          r = [Blank EXCEPT !.op = "InviteUsers", !.pc = "sendMail", !.org = req[p].org, !.inv = i,
                            !.irow = NewInvitation(req[p].org, Head(req[p].todo), t),
                            !.todo = Tail(req[p].todo)]
    BY <1>2 DEF InviteNext, Invite
  <2>2. r.todo = Tail(req[p].todo)
    BY <2>1, BlankFields DEF RequestRecord
  <2>3. Len(r.todo) < Len(req[p].todo)
    BY <1>2, <1>t, <2>2, FewerAddresses DEF InviteNext
  <2> QED
    BY <2>1, <2>3 DEF Closer
<1>3. ASSUME InviteNextFails(p) PROVE Goal
  <2>1. PICK r : Become(p, r) /\ r = InviteRest(req[p].org, Tail(req[p].todo))
    BY <1>3 DEF InviteNextFails
  <2>2. Len(r.todo) < Len(req[p].todo)
    BY <1>3, <1>t, <2>1, InviteRestLeft, FewerAddresses DEF InviteNextFails
  <2> QED
    BY <2>1, <2>2 DEF Closer
<1>4. ASSUME SendMail(p) PROVE Goal
  <2>1. PICK r : Become(p, r) /\ r = InviteRest(req[p].org, req[p].todo)
    BY <1>4 DEF SendMail
  <2>2. r.todo = req[p].todo /\ Level(r.pc) < 2
    BY <2>1, InviteRestLeft
  <2>3. Level(req[p].pc) = 2
    BY <1>4 DEF SendMail, At, Level
  <2> QED
    BY <1>t, <2>1, <2>2, <2>3, NextCallIsCloser
<1>5. ASSUME SaveInvitation(p) PROVE Goal
  <2>1. CASE Return(p)
    BY <1>5, <1>r, <2>1 DEF SaveInvitation, At
  <2>2. CASE Become(p, [req[p] EXCEPT !.pc = "sendMail"])
    <3>1. PICK r : Become(p, r) /\ r = [req[p] EXCEPT !.pc = "sendMail"]
      BY <2>2
    <3>2. r.todo = req[p].todo /\ r.pc = "sendMail" /\ req[p].pc = "saveInvitation"
      BY <1>5, <1>t, <3>1 DEF RequestRecord, SaveInvitation, At
    <3>3. Level(r.pc) < Level(req[p].pc)
      BY <3>2 DEF Level
    <3> QED
      BY <1>t, <3>1, <3>2, <3>3, NextCallIsCloser
  <2> HIDE DEF Goal
  <2> QED
    BY <1>5, <2>1, <2>2 DEF SaveInvitation, Return
<1>6. ASSUME ReadPending(p) PROVE Goal
  <2>1. CASE Return(p)
    BY <1>6, <1>r, <2>1 DEF ReadPending, At
  <2>2. ASSUME NEW r, Become(p, r), NEW i, NEW row,
               r = [Blank EXCEPT !.op = "UpdatePassword", !.pc = "saveInvitation", !.inv = i, !.irow = row]
        PROVE  Goal
    <3>1. Len(r.todo) = 0 /\ r.pc = "saveInvitation" /\ req[p].pc = "readPending"
      BY <1>6, <2>2, BlankFields DEF RequestRecord, ReadPending, At
    <3>2. Level(r.pc) < Level(req[p].pc) /\ Len(req[p].todo) \in Nat
      BY <1>t, <3>1 DEF Level, RequestRecord
    <3>3. Closer(r, req[p])
      BY <3>1, <3>2 DEF Closer
    <3> QED
      BY <2>2, <3>3
  <2> HIDE DEF Goal
  <2> QED
    BY <1>6, <2>1, <2>2 DEF ReadPending
<1>7. ASSUME ReadMembers(p) PROVE Goal
  <2>1. PICK r : Become(p, r) /\ \E pc \in {"saveOrganization", "saveUsers"} : \E rows :
                   r = [req[p] EXCEPT !.pc = pc, !.urows = rows]
    BY <1>7 DEF ReadMembers
  <2>2. r.todo = req[p].todo /\ r.pc \in {"saveOrganization", "saveUsers"} /\ req[p].pc = "readMembers"
    BY <1>7, <1>t, <2>1 DEF RequestRecord, ReadMembers, At
  <2>3. Level(r.pc) < Level(req[p].pc)
    BY <2>2 DEF Level
  <2> QED
    BY <1>t, <2>1, <2>2, <2>3, NextCallIsCloser
<1>8. ASSUME SaveUser(p) PROVE Goal
  BY <1>8, SaveUserAdvances
<1> HIDE DEF Goal
<1>q. Goal
  BY <1>1, <1>2, <1>3, <1>4, <1>5, <1>6, <1>7, <1>8 DEF Continue
<1> QED
  BY <1>q DEF Goal

\* No request turns in circles: a call of a method of Manager makes finitely
\* many storage calls and sends finitely many e-mails, however the loops of
\* DeleteOrganization and InviteUsers interleave with other requests.  What
\* RequestsReturn adds is that each call is made.
THEOREM EveryRequestAdvances == Spec => RequestsAdvance
<1> DEFINE Advance(p) == <<Left(req'[p]), Left(req[p])>> \in Nearer
<1>1. ASSUME FiniteInv, FiniteInv', NEW p \in Procs, Continue(p) \/ Abort(p) PROVE Advance(p)
  <2>1. PICK r : Become(p, r) /\ Closer(r, req[p])
    BY <1>1, EveryCallAdvances
  <2>2. req'[p] = r
    BY <1>1, <2>1 DEF Become, FiniteInv, TypeOK
  <2>3. /\ req'[p] \in RequestRecord /\ IsFiniteSet(Stored(req'[p].urows))
        /\ req[p] \in RequestRecord /\ IsFiniteSet(Stored(req[p].urows))
    BY <1>1 DEF FiniteInv, TypeOK, Request
  <2> QED
    BY <2>1, <2>2, <2>3, CloserIsNearer
<1>2. ASSUME FiniteInv, [Next]_vars, NEW p \in Procs, ~At(p, "idle"), req'[p] # req[p]
      PROVE  Continue(p) \/ Abort(p)
  <2>1. PICK q \in Procs : Start(q) \/ Continue(q) \/ Abort(q)
    BY <1>2 DEF Next, Tick, vars
  <2>2. PICK r : Become(q, r)
    BY <1>2, <2>1, EveryMove DEF FiniteInv
  <2>3. q = p
    BY <1>2, <2>2 DEF Become, FiniteInv, TypeOK
  <2>4. ~Start(p)
    BY <1>2 DEF Start, Starts, At, CreateOrganizationWithUser, InviteUser, InviteUsers,
                AcceptInvitation, RejectInvitation, ResendInvitation, UpdatePassword,
                UpdateProfile, DeleteUser, DeleteOrganization, UpdateOrganizationName
  <2> QED
    BY <2>1, <2>3, <2>4
<1>3. ASSUME FiniteInv, FiniteInv', [Next]_vars
      PROVE  \A p \in Procs : ~At(p, "idle") =>
                /\ Continue(p) => Advance(p)
                /\ req'[p] # req[p] => Advance(p)
  BY <1>1, <1>2, <1>3
<1>4. (FiniteInv /\ FiniteInv' /\ [Next]_vars) =>
         [\A p \in Procs : ~At(p, "idle") =>
             /\ Continue(p) => Advance(p)
             /\ req'[p] # req[p] => Advance(p)]_vars
  BY <1>3
<1> QED
  BY <1>4, FiniteInvariant, PTL DEF Spec, RequestsAdvance
=============================================================================
