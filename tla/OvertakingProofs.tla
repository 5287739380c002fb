-------------------------- MODULE OvertakingProofs --------------------------
(***************************************************************************)
(* Theorems about the rows requests save: with any number of processes,    *)
(* what only the save of an overtaken row undoes (Overtaking), and then    *)
(* what the documents promise of passwords, deletions and links, which     *)
(* holds when no row can be overtaken: when requests are served one at a   *)
(* time.  Whatever a theorem does not exclude may fail.                    *)
(***************************************************************************)
EXTENDS ManagerProofs, Overtaking

-----------------------------------------------------------------------------
(* The rows a step may change *)

LEMMA OnlySavesWrite ==
  ASSUME TypeOK, [Next]_vars
  PROVE  /\ UNCHANGED users \/ \E p \in Procs : SaveUser(p) \/ CreateUserWithPassword(p)
         /\ UNCHANGED organizations \/ \E p \in Procs : SaveOrganization(p) \/ CreateOrganizationWithUser(p)
         /\ UNCHANGED invitations \/ \E p \in Procs : SaveInvitation(p) \/ InviteUser(p) \/ InviteNext(p)
<1>1. ASSUME NEW p \in Procs, Start(p)
      PROVE  /\ UNCHANGED users /\ (UNCHANGED organizations \/ CreateOrganizationWithUser(p))
             /\ UNCHANGED invitations \/ InviteUser(p)
  BY <1>1 DEF Start, CreateOrganizationWithUser, InviteUser, InviteUsers, AcceptInvitation,
              RejectInvitation, ResendInvitation, UpdatePassword, UpdateProfile, DeleteUser,
              DeleteOrganization, UpdateOrganizationName, tables
<1>2. ASSUME NEW p \in Procs, Continue(p)
      PROVE  /\ UNCHANGED users \/ SaveUser(p) \/ CreateUserWithPassword(p)
             /\ UNCHANGED organizations \/ SaveOrganization(p)
             /\ UNCHANGED invitations \/ SaveInvitation(p) \/ InviteNext(p)
  BY <1>2 DEF Continue, CreateUserWithPassword, InviteNext, InviteNextFails, SendMail, SaveInvitation,
              ReadPending, ReadMembers, SaveUser, SaveOrganization, tables
<1>3. ASSUME NEW p \in Procs, Abort(p) PROVE UNCHANGED tables
  BY <1>3 DEF Abort
<1>4. CASE Tick \/ UNCHANGED vars
  BY <1>4 DEF Tick, vars, tables
<1> QED
  BY <1>1, <1>2, <1>3, <1>4 DEF Next, tables

LEMMA MarkedRows ==
  ASSUME NEW row \in UserRow
  PROVE  /\ KeepsMarks(row, row) /\ KeepsMarks(row, WithPassword(row))
         /\ KeepsMarks(row, DeletedUser(row))
  BY DEF KeepsMarks, WithPassword, DeletedUser, UserRow

-----------------------------------------------------------------------------
(* The inductive invariant: what a request holds and nobody overtook carries *)
(* what the tables have                                                      *)

CarriesMarks(r, su) == \A u \in Stored(r.urows) : u \notin su => KeepsMarks(users[u], r.urows[u])

CarriesDeletion(r, so) ==
    r.orow # Nil /\ r.org \notin so /\ organizations[r.org].deletedAt = "set" => r.orow.deletedAt = "set"

CarriesAnswer(r, si) ==
    r.irow # Nil /\ r.inv \notin si /\ r.op # "ResendInvitation" =>
       /\ Link(r.irow) = Link(invitations[r.inv])
       /\ invitations[r.inv].status = "rejected" => r.irow.status = "rejected"

Carries(r, su, so, si) == CarriesMarks(r, su) /\ CarriesDeletion(r, so) /\ CarriesAnswer(r, si)

OvertakingInv ==
    /\ TenancyInv
    /\ \A p \in Procs :
          Carries(req[p], staleUsers[p], staleOrganizations[p], staleInvitations[p])

\* What a request that moves holds then carries what the tables then have.
MovesOn(p, su, so, si) == \E r : Become(p, r) /\ Carries(r, su, so, si)'

LEMMA BareCarries ==
  ASSUME NEW r, r.urows = NoUsers, r.orow = Nil, r.irow = Nil, NEW su, NEW so, NEW si
  PROVE  Carries(r, su, so, si) /\ Carries(r, su, so, si)'
  BY DEF Carries, CarriesMarks, CarriesDeletion, CarriesAnswer, NoUsers, Stored

LEMMA SameTablesCarry ==
  ASSUME UNCHANGED tables, NEW r, NEW su, NEW so, NEW si, Carries(r, su, so, si)
  PROVE  Carries(r, su, so, si)'
  BY DEF tables, Carries, CarriesMarks, CarriesDeletion, CarriesAnswer, Stored

LEMMA ReturnMovesOn ==
  ASSUME NEW p \in Procs, NEW su, NEW so, NEW si, Return(p)
  PROVE  MovesOn(p, su, so, si)
  BY BlankFields, BareCarries DEF Return, MovesOn

LEMMA RestMovesOn ==
  ASSUME NEW p \in Procs, NEW su, NEW so, NEW si, NEW o, NEW rest, Become(p, InviteRest(o, rest))
  PROVE  MovesOn(p, su, so, si)
<1>1. PICK r : r = InviteRest(o, rest)
  OBVIOUS
<1>2. r.urows = NoUsers /\ r.orow = Nil /\ r.irow = Nil
  BY <1>1, BlankFields DEF InviteRest, RequestRecord
<1> QED
  BY <1>1, <1>2, BareCarries DEF MovesOn

\* The rows of users: read to be saved, or left to be saved.
LEMMA UserRowsMoveOn ==
  ASSUME TypeOK, NEW p \in Procs, NEW su, NEW so, NEW si,
         UpdatePassword(p) \/ UpdateProfile(p)
  PROVE  MovesOn(p, su, so, si)
<1>1. ASSUME NEW r, Become(p, r), NEW u \in Stored(users), NEW row, KeepsMarks(users[u], row),
             r.urows = HoldUser(u, row), r.orow = Nil, r.irow = Nil, UNCHANGED tables
      PROVE  MovesOn(p, su, so, si)
  <2>1. \A v \in Stored(r.urows) : v = u /\ r.urows[v] = row
    BY <1>1, StoredIs DEF HoldUser, NoUsers, Stored
  <2>2. Carries(r, su, so, si)
    BY <1>1, <2>1 DEF Carries, CarriesMarks, CarriesDeletion, CarriesAnswer
  <2> QED
    BY <1>1, <2>2, SameTablesCarry DEF MovesOn
<1>2. CASE UpdatePassword(p)
  <2> DEFINE R(u, o) == [Blank EXCEPT !.op = "UpdatePassword", !.pc = "saveUsers",
                                      !.org = o, !.email = users[u].email,
                                      !.urows = HoldUser(u, WithPassword(users[u]))]
  <2>1. PICK u \in Stored(users), o \in OrgId : Become(p, R(u, o))
    BY <1>2 DEF UpdatePassword
  <2>2. /\ R(u, o).urows = HoldUser(u, WithPassword(users[u]))
        /\ R(u, o).orow = Nil /\ R(u, o).irow = Nil
    BY BlankFields DEF RequestRecord
  <2>3. KeepsMarks(users[u], WithPassword(users[u]))
    BY StoredType, MarkedRows
  <2> HIDE DEF R
  <2> QED
    BY <1>1, <1>2, <2>1, <2>2, <2>3 DEF UpdatePassword
<1>3. CASE UpdateProfile(p)
  <2> DEFINE R(u) == [Blank EXCEPT !.op = "UpdateProfile", !.pc = "saveUsers",
                                   !.urows = HoldUser(u, users[u])]
  <2>1. PICK u \in Stored(users) : Become(p, R(u))
    BY <1>3 DEF UpdateProfile
  <2>2. R(u).urows = HoldUser(u, users[u]) /\ R(u).orow = Nil /\ R(u).irow = Nil
    BY BlankFields DEF RequestRecord
  <2>3. KeepsMarks(users[u], users[u])
    BY DEF KeepsMarks
  <2> HIDE DEF R
  <2> QED
    BY <1>1, <1>3, <2>1, <2>2, <2>3 DEF UpdateProfile
<1> QED
  BY <1>2, <1>3

LEMMA DeletionMovesOn ==
  ASSUME TypeOK, NEW p \in Procs, NEW su, NEW so, NEW si, NEW op, NEW o \in OrgId,
         StartDeletion(p, op, o), UNCHANGED tables
  PROVE  MovesOn(p, su, so, si)
<1>1. PICK row : row = DeletedOrganization(organizations[o])
  OBVIOUS
<1>2. PICK r : /\ Become(p, r)
               /\ r = [Blank EXCEPT !.op = op, !.pc = "readMembers", !.org = o, !.orow = row]
  BY <1>1 DEF StartDeletion
<1>3. r.urows = NoUsers /\ r.orow = row /\ r.irow = Nil
  BY <1>2, BlankFields DEF RequestRecord
<1>4. row.deletedAt = "set"
  BY <1>1 DEF StartDeletion, DeletedOrganization, TypeOK, StorageTypeOK, OrgRow
<1>5. Carries(r, su, so, si)
  BY <1>3, <1>4 DEF Carries, CarriesMarks, CarriesDeletion, CarriesAnswer, NoUsers, Stored
<1> QED
  BY <1>2, <1>5, SameTablesCarry DEF MovesOn

LEMMA LeavingMovesOn ==
  ASSUME TypeOK, NEW p \in Procs, NEW su, NEW so, NEW si,
         DeleteUser(p) \/ DeleteOrganization(p) \/ UpdateOrganizationName(p)
  PROVE  MovesOn(p, su, so, si)
<1>1. CASE DeleteUser(p)
  <2> DEFINE R(u) == [Blank EXCEPT !.op = "DeleteUser", !.pc = "saveUsers",
                                   !.urows = HoldUser(u, DeletedUser(users[u]))]
  <2>1. PICK u \in Stored(users), o \in OrgId : Become(p, R(u)) \/ StartDeletion(p, "DeleteUser", o)
    BY <1>1 DEF DeleteUser
  <2>2. CASE Become(p, R(u))
    <3>1. PICK row : row = DeletedUser(users[u])
      OBVIOUS
    <3>2. PICK r : r = R(u)
      OBVIOUS
    <3>3. r.urows = HoldUser(u, row) /\ r.orow = Nil /\ r.irow = Nil
      BY <3>1, <3>2, BlankFields DEF RequestRecord
    <3>4. KeepsMarks(users[u], row)
      BY <3>1, StoredType, MarkedRows
    <3>5. \A v \in Stored(r.urows) : v = u /\ r.urows[v] = row
      BY <3>3, StoredIs DEF HoldUser, NoUsers, Stored
    <3>6. Carries(r, su, so, si)
      BY <3>3, <3>4, <3>5 DEF Carries, CarriesMarks, CarriesDeletion, CarriesAnswer
    <3> QED
      BY <1>1, <2>2, <3>2, <3>6, SameTablesCarry DEF MovesOn, DeleteUser
  <2>3. CASE StartDeletion(p, "DeleteUser", o)
    BY <1>1, <2>3, DeletionMovesOn DEF DeleteUser
  <2> QED
    BY <2>1, <2>2, <2>3
<1>2. CASE DeleteOrganization(p)
  BY <1>2, DeletionMovesOn DEF DeleteOrganization
<1>3. CASE UpdateOrganizationName(p)
  <2>1. PICK r : /\ Become(p, r)
                 /\ \E o \in OrgId : r = [Blank EXCEPT !.op = "UpdateOrganization", !.pc = "saveOrganization",
                                                       !.org = o, !.orow = organizations[o]]
    BY <1>3, StoredType DEF UpdateOrganizationName
  <2>2. r.urows = NoUsers /\ r.irow = Nil /\ r.orow = organizations[r.org]
    BY <2>1, BlankFields DEF RequestRecord
  <2>3. Carries(r, su, so, si)
    BY <2>2 DEF Carries, CarriesMarks, CarriesDeletion, CarriesAnswer, NoUsers, Stored
  <2> QED
    BY <1>3, <2>1, <2>3, SameTablesCarry DEF MovesOn, UpdateOrganizationName
<1> QED
  BY <1>1, <1>2, <1>3

LEMMA MembersMoveOn ==
  ASSUME TypeOK, NEW p \in Procs, NEW su, NEW so, NEW si, Carries(req[p], su, so, si), ReadMembers(p)
  PROVE  MovesOn(p, su, so, si)
<1>1. PICK listed \in {GetUsersByOrganizationID(req[p].org), {}} :
        Become(p, [req[p] EXCEPT
                      !.pc = IF listed = {} THEN "saveOrganization" ELSE "saveUsers",
                      !.urows = [u \in UserId |-> IF u \in listed THEN DeletedUser(users[u]) ELSE Nil]])
  BY DEF ReadMembers
<1>2. PICK read : read = [u \in UserId |-> IF u \in listed THEN DeletedUser(users[u]) ELSE Nil]
  OBVIOUS
<1>3. PICK r : Become(p, r) /\ r = [req[p] EXCEPT
                      !.pc = IF listed = {} THEN "saveOrganization" ELSE "saveUsers", !.urows = read]
  BY <1>1, <1>2
<1>4. /\ r.urows = read /\ r.orow = req[p].orow /\ r.org = req[p].org
      /\ r.irow = req[p].irow /\ r.inv = req[p].inv /\ r.op = req[p].op
  BY <1>3 DEF TypeOK, Request, RequestRecord
<1>5. \A u \in Stored(read) : u \in Stored(users) /\ read[u] = DeletedUser(users[u])
  BY <1>1, <1>2 DEF Stored, GetUsersByOrganizationID
<1>6. CarriesMarks(r, su)
  BY <1>4, <1>5, StoredType, MarkedRows DEF CarriesMarks
<1>7. Carries(r, su, so, si)
  BY <1>4, <1>6 DEF Carries, CarriesDeletion, CarriesAnswer
<1> QED
  BY <1>3, <1>7, SameTablesCarry DEF MovesOn, ReadMembers

LEMMA SaveUserMovesOn ==
  ASSUME TypeOK, NEW p \in Procs, NEW su, NEW so, NEW si, Carries(req[p], su, so, si), SaveUser(p)
  PROVE  MovesOn(p, su, so, si)
<1>1. req[p] \in RequestRecord
  BY DEF TypeOK, Request
<1>2. PICK u \in Stored(req[p].urows) : \E rest :
        /\ rest = Saved(req[p].urows, u)
        /\ UpdateUser(u, req[p].urows[u])
        /\ \/ Become(p, [req[p] EXCEPT !.urows = rest])
           \/ \E pc : Become(p, [req[p] EXCEPT !.urows = rest, !.pc = pc])
           \/ Return(p)
  BY DEF SaveUser
<1>r. PICK rest :
        /\ rest = Saved(req[p].urows, u)
        /\ UpdateUser(u, req[p].urows[u])
        /\ \/ Become(p, [req[p] EXCEPT !.urows = rest])
           \/ \E pc : Become(p, [req[p] EXCEPT !.urows = rest, !.pc = pc])
           \/ Return(p)
  BY <1>2
<1>3. \A v \in Stored(rest) : /\ v \in UserId /\ v # u /\ v \in Stored(req[p].urows)
                            /\ rest[v] = req[p].urows[v]
  BY <1>1, <1>r DEF RequestRecord, Saved, Stored
<1>4. \A v \in UserId : v # u => users'[v] = users[v]
  BY <1>r DEF UpdateUser, TypeOK, StorageTypeOK
<1>5. ASSUME NEW r, Become(p, r), r.urows = rest, r.orow = req[p].orow, r.org = req[p].org,
             r.irow = req[p].irow, r.inv = req[p].inv, r.op = req[p].op
      PROVE  MovesOn(p, su, so, si)
  <2>1. CarriesMarks(r, su)'
    BY <1>3, <1>4, <1>5 DEF Carries, CarriesMarks
  <2>2. CarriesDeletion(r, so)' /\ CarriesAnswer(r, si)'
    BY <1>5 DEF SaveUser, Carries, CarriesDeletion, CarriesAnswer
  <2> QED
    BY <1>5, <2>1, <2>2 DEF MovesOn, Carries
<1>6. CASE Become(p, [req[p] EXCEPT !.urows = rest])
  BY <1>1, <1>5, <1>6 DEF RequestRecord
<1>7. ASSUME NEW pc, Become(p, [req[p] EXCEPT !.urows = rest, !.pc = pc]) PROVE MovesOn(p, su, so, si)
  <2>1. PICK r : r = [req[p] EXCEPT !.urows = rest, !.pc = pc]
    OBVIOUS
  <2>2. /\ r.urows = rest /\ r.orow = req[p].orow /\ r.org = req[p].org
        /\ r.irow = req[p].irow /\ r.inv = req[p].inv /\ r.op = req[p].op
    BY <1>1, <2>1 DEF RequestRecord
  <2> QED
    BY <1>5, <1>7, <2>1, <2>2
<1>8. CASE Return(p)
  BY <1>8, ReturnMovesOn
<1> QED
  BY <1>r, <1>6, <1>7, <1>8

\* The rows of invitations: inserted, or read to be saved.
LEMMA InviteMovesOn ==
  ASSUME TypeOK, NEW p \in Procs, NEW su, NEW so, NEW si, InviteUser(p) \/ InviteNext(p)
  PROVE  MovesOn(p, su, so, si)
<1>1. PICK op, o, e, rest : Invite(p, op, o, e, rest)
  BY DEF InviteUser, InviteNext
<1>2. PICK i \in InvId, t \in Token :
        /\ CreateInvitation(i, NewInvitation(o, e, t))
        /\ Become(p, [Blank EXCEPT !.op = op, !.pc = "sendMail", !.org = o, !.inv = i,
                                   !.irow = NewInvitation(o, e, t), !.todo = rest])
  BY <1>1 DEF Invite
<1>3. PICK row : row = NewInvitation(o, e, t)
  OBVIOUS
<1>4. PICK r : Become(p, r) /\ r = [Blank EXCEPT !.op = op, !.pc = "sendMail", !.org = o, !.inv = i,
                                                 !.irow = row, !.todo = rest]
  BY <1>2, <1>3
<1>5. r.urows = NoUsers /\ r.orow = Nil /\ r.irow = row /\ r.inv = i
  BY <1>4, BlankFields DEF RequestRecord
<1>6. invitations'[i] = row
  BY <1>2, <1>3 DEF CreateInvitation, TypeOK, StorageTypeOK
<1>7. Carries(r, su, so, si)'
  BY <1>5, <1>6 DEF Carries, CarriesMarks, CarriesDeletion, CarriesAnswer, NoUsers, Stored
<1> QED
  BY <1>4, <1>7 DEF MovesOn

LEMMA AnswersMoveOn ==
  ASSUME TypeOK, NEW p \in Procs, NEW su, NEW so, NEW si, RejectInvitation(p) \/ ReadPending(p)
  PROVE  MovesOn(p, su, so, si)
<1>1. ASSUME NEW r, Become(p, r), NEW op \in Op, NEW i \in Stored(invitations),
             NEW status \in Status, UNCHANGED tables,
             r = [Blank EXCEPT !.op = op, !.pc = "saveInvitation", !.inv = i,
                               !.irow = [invitations[i] EXCEPT !.status = status]],
             status = "rejected" \/ invitations[i].status # "rejected"
      PROVE  MovesOn(p, su, so, si)
  <2>1. PICK row : row = [invitations[i] EXCEPT !.status = status]
    OBVIOUS
  <2>2. r.urows = NoUsers /\ r.orow = Nil /\ r.irow = row /\ r.inv = i
    BY <1>1, <2>1, BlankFields DEF RequestRecord
  <2>3. invitations[i] \in InvRow
    BY StoredType
  <2>4. Link(row) = Link(invitations[i]) /\ row.status = status
    BY <2>1, <2>3 DEF Link, InvRow
  <2>5. Carries(r, su, so, si)
    BY <1>1, <2>2, <2>4 DEF Carries, CarriesMarks, CarriesDeletion, CarriesAnswer, NoUsers, Stored
  <2> QED
    BY <1>1, <2>5, SameTablesCarry DEF MovesOn
<1>2. CASE RejectInvitation(p)
  <2>1. PICK i \in Stored(invitations) :
          Become(p, [Blank EXCEPT !.op = "RejectInvitation", !.pc = "saveInvitation", !.inv = i,
                                  !.irow = [invitations[i] EXCEPT !.status = "rejected"]])
    BY <1>2 DEF RejectInvitation, GetInvitationByToken
  <2>2. PICK r : /\ Become(p, r)
                 /\ r = [Blank EXCEPT !.op = "RejectInvitation", !.pc = "saveInvitation", !.inv = i,
                                      !.irow = [invitations[i] EXCEPT !.status = "rejected"]]
    BY <2>1
  <2>3. "RejectInvitation" \in Op /\ "rejected" \in Status
    BY DEF Op, Status
  <2>4. UNCHANGED tables
    BY <1>2 DEF RejectInvitation
  <2> QED
    BY <1>1, <2>2, <2>3, <2>4
<1>3. CASE ReadPending(p)
  <2>1. CASE Return(p)
    BY <2>1, ReturnMovesOn
  <2>2. ASSUME NEW i \in PendingFor(req[p].org, req[p].email),
               Become(p, [Blank EXCEPT !.op = "UpdatePassword", !.pc = "saveInvitation", !.inv = i,
                                       !.irow = [invitations[i] EXCEPT !.status = "accepted"]])
        PROVE  MovesOn(p, su, so, si)
    <3>1. i \in Stored(invitations) /\ invitations[i].status = "pending"
      BY DEF PendingFor, GetInvitationsByOrganizationID
    <3>2. PICK r : /\ Become(p, r)
                   /\ r = [Blank EXCEPT !.op = "UpdatePassword", !.pc = "saveInvitation", !.inv = i,
                                        !.irow = [invitations[i] EXCEPT !.status = "accepted"]]
      BY <2>2
    <3>3. UNCHANGED tables
      BY <1>3 DEF ReadPending
    <3>4. "UpdatePassword" \in Op /\ "accepted" \in Status /\ invitations[i].status # "rejected"
      BY <3>1 DEF Op, Status
    <3> QED
      BY <1>1, <3>1, <3>2, <3>3, <3>4
  <2> QED
    BY <1>3, <2>1, <2>2 DEF ReadPending
<1> QED
  BY <1>2, <1>3

\* ResendInvitation is free to change the link and the status.
LEMMA ResendMovesOn ==
  ASSUME TypeOK, NEW p \in Procs, NEW su, NEW so, NEW si, Carries(req[p], su, so, si),
         ResendInvitation(p) \/ SaveInvitation(p)
  PROVE  MovesOn(p, su, so, si)
<1>1. CASE ResendInvitation(p)
  <2>0. PICK i \in Stored(invitations), t \in Token :
          Become(p, [Blank EXCEPT !.op = "ResendInvitation", !.pc = "saveInvitation",
                                  !.org = invitations[i].org, !.inv = i,
                                  !.irow = Renewed(invitations[i], t)])
    BY <1>1 DEF ResendInvitation
  <2>1. PICK r : /\ Become(p, r)
                 /\ r = [Blank EXCEPT !.op = "ResendInvitation", !.pc = "saveInvitation",
                                      !.org = invitations[i].org, !.inv = i,
                                      !.irow = Renewed(invitations[i], t)]
    BY <2>0
  <2>2. r.urows = NoUsers /\ r.orow = Nil /\ r.op = "ResendInvitation"
    BY <2>1, BlankFields DEF RequestRecord
  <2>3. Carries(r, su, so, si)'
    BY <2>2 DEF Carries, CarriesMarks, CarriesDeletion, CarriesAnswer, NoUsers, Stored
  <2> QED
    BY <2>1, <2>3 DEF MovesOn
<1>2. CASE SaveInvitation(p)
  <2>1. CASE Return(p)
    BY <2>1, ReturnMovesOn
  <2>2. ASSUME req[p].op = "ResendInvitation", Become(p, [req[p] EXCEPT !.pc = "sendMail"])
        PROVE  MovesOn(p, su, so, si)
    <3>1. PICK r : r = [req[p] EXCEPT !.pc = "sendMail"]
      OBVIOUS
    <3>2. /\ r.urows = req[p].urows /\ r.orow = req[p].orow /\ r.org = req[p].org
          /\ r.op = "ResendInvitation"
      BY <2>2, <3>1 DEF TypeOK, Request, RequestRecord
    <3>3. UNCHANGED <<organizations, users>>
      BY <1>2 DEF SaveInvitation
    <3>4. Carries(r, su, so, si)'
      BY <3>2, <3>3 DEF Carries, CarriesMarks, CarriesDeletion, CarriesAnswer, Stored
    <3> QED
      BY <2>2, <3>1, <3>4 DEF MovesOn
  <2> QED
    BY <1>2, <2>1, <2>2 DEF SaveInvitation, Return
<1> QED
  BY <1>1, <1>2

LEMMA InsertsMoveOn ==
  ASSUME NEW p \in Procs, NEW su, NEW so, NEW si,
         CreateOrganizationWithUser(p) \/ AcceptInvitation(p)
  PROVE  MovesOn(p, su, so, si)
<1>1. PICK r : Become(p, r) /\ \E op, row :
                 r = [Blank EXCEPT !.op = op, !.pc = "createUser", !.newUser = row]
  BY DEF CreateOrganizationWithUser, AcceptInvitation
<1>2. r.urows = NoUsers /\ r.orow = Nil /\ r.irow = Nil
  BY <1>1, BlankFields DEF RequestRecord
<1> QED
  BY <1>1, <1>2, BareCarries DEF MovesOn

LEMMA EveryRequestMovesOn ==
  ASSUME TypeOK, NEW p \in Procs, NEW su, NEW so, NEW si, Carries(req[p], su, so, si),
         Start(p) \/ Continue(p) \/ Abort(p)
  PROVE  MovesOn(p, su, so, si)
<1>1. ASSUME CreateUserWithPassword(p) \/ SaveOrganization(p) \/ Abort(p)
      PROVE  MovesOn(p, su, so, si)
  BY <1>1, ReturnMovesOn DEF CreateUserWithPassword, SaveOrganization, Abort
<1>2. ASSUME InviteUsers(p) \/ InviteNextFails(p) \/ SendMail(p)
      PROVE  MovesOn(p, su, so, si)
  BY <1>2, RestMovesOn DEF InviteUsers, InviteNextFails, SendMail
<1>3. ASSUME Start(p) PROVE MovesOn(p, su, so, si)
  BY <1>2, <1>3, InsertsMoveOn, InviteMovesOn, AnswersMoveOn, ResendMovesOn, UserRowsMoveOn,
     LeavingMovesOn DEF Start
<1>4. ASSUME Continue(p) PROVE MovesOn(p, su, so, si)
  BY <1>1, <1>2, <1>4, InviteMovesOn, ResendMovesOn, AnswersMoveOn, MembersMoveOn,
     SaveUserMovesOn DEF Continue
<1> QED
  BY <1>1, <1>3, <1>4

LEMMA OvertakingInvInit == OvertakingInit => OvertakingInv
<1> SUFFICES ASSUME OvertakingInit PROVE OvertakingInv
  OBVIOUS
<1>1. \A p \in Procs : req[p] = Blank
  BY DEF OvertakingInit, Init
<1> QED
  BY <1>1, TenancyInit, BlankFields, BareCarries DEF OvertakingInit, OvertakingInv

\* Another process that writes a row held marks it as overtaken.
LEMMA OvertakingInvNext == OvertakingInv /\ [OvertakingNext]_overtakingVars => OvertakingInv'
<1> SUFFICES ASSUME OvertakingInv, [OvertakingNext]_overtakingVars PROVE OvertakingInv'
  OBVIOUS
<1>1. TenancyInv' /\ TypeOK
  BY TenancyNext DEF OvertakingInv, TenancyInv, OvertakingNext, overtakingVars
<1>2. CASE UNCHANGED overtakingVars
  BY <1>1, <1>2 DEF overtakingVars, stale, vars, tables, OvertakingInv, Carries, CarriesMarks,
     CarriesDeletion, CarriesAnswer, Stored
<1>3. CASE OvertakingNext
  <2> SUFFICES ASSUME NEW p \in Procs
               PROVE  Carries(req[p], staleUsers[p], staleOrganizations[p], staleInvitations[p])'
    BY <1>1 DEF OvertakingInv
  <2>1. /\ staleUsers'[p] = Overtaken(p, staleUsers[p], Stored(req'[p].urows), users)
        /\ staleOrganizations'[p] =
              Overtaken(p, staleOrganizations[p], HeldOrganization(req'[p]), organizations)
        /\ staleInvitations'[p] =
              Overtaken(p, staleInvitations[p], HeldInvitation(req'[p]), invitations)
    BY <1>3 DEF OvertakingNext, Overtake
  <2>2. PICK su, so, si : su = staleUsers[p] /\ so = staleOrganizations[p] /\ si = staleInvitations[p]
    OBVIOUS
  <2>3. Carries(req[p], su, so, si)
    BY <2>2 DEF OvertakingInv
  <2>4. CASE Moves(p)
    <3>1. MovesOn(p, su, so, si)
      <4>1. PICK q \in Procs : Start(q) \/ Continue(q) \/ Abort(q)
        BY <1>3, <2>4 DEF OvertakingNext, Next, Tick, Moves
      <4>2. PICK r : Become(q, r)
        BY <1>1, <4>1, EveryMove
      <4>3. q = p
        BY <1>1, <2>4, <4>2 DEF Moves, Become, TypeOK
      <4> QED
        BY <1>1, <2>3, <4>1, <4>3, EveryRequestMovesOn
    <3>2. PICK r : Become(p, r) /\ Carries(r, su, so, si)'
      BY <3>1 DEF MovesOn
    <3>3. req'[p] = r
      BY <1>1, <3>2 DEF Become, TypeOK
    <3>4. CarriesMarks(req[p], staleUsers[p])'
      BY <2>1, <2>2, <3>2, <3>3 DEF Carries, CarriesMarks, Overtaken
    <3>5. CarriesDeletion(req[p], staleOrganizations[p])'
      BY <2>1, <2>2, <3>2, <3>3 DEF Carries, CarriesDeletion, Overtaken, HeldOrganization
    <3>6. CarriesAnswer(req[p], staleInvitations[p])'
      BY <2>1, <2>2, <3>2, <3>3 DEF Carries, CarriesAnswer, Overtaken, HeldInvitation
    <3> QED
      BY <3>4, <3>5, <3>6 DEF Carries
  <2>5. CASE ~Moves(p)
    <3>1. req'[p] = req[p]
      BY <2>5 DEF Moves
    <3>2. CarriesMarks(req[p], staleUsers[p])'
      BY <2>1, <2>2, <2>3, <2>5, <3>1 DEF Carries, CarriesMarks, Overtaken
    <3>3. CarriesDeletion(req[p], staleOrganizations[p])'
      BY <2>1, <2>2, <2>3, <2>5, <3>1 DEF Carries, CarriesDeletion, Overtaken, HeldOrganization
    <3>4. CarriesAnswer(req[p], staleInvitations[p])'
      BY <2>1, <2>2, <2>3, <2>5, <3>1 DEF Carries, CarriesAnswer, Overtaken, HeldInvitation
    <3> QED
      BY <3>2, <3>3, <3>4 DEF Carries
  <2> QED
    BY <2>4, <2>5
<1> QED
  BY <1>2, <1>3

\* The inductive invariant: what a request holds and no other request has
\* written since carries the deletion, the chosen password, the link and the
\* rejection that the tables have.
THEOREM OvertakingInvariant == OvertakingSpec => []OvertakingInv
  BY OvertakingInvInit, OvertakingInvNext, PTL DEF OvertakingSpec

-----------------------------------------------------------------------------
(* What a step undoes *)

LEMMA SavesMove ==
  ASSUME TypeOK, NEW p \in Procs, SaveUser(p) \/ SaveOrganization(p) \/ SaveInvitation(p)
  PROVE  Moves(p)
<1>1. req \in [Procs -> Request] /\ req[p] \in RequestRecord
  BY DEF TypeOK, Request
<1>2. CASE SaveOrganization(p) \/ Return(p)
  BY <1>1, <1>2, BlankFields
     DEF SaveUser, SaveOrganization, SaveInvitation, At, Return, Become, Moves
<1>3. CASE SaveInvitation(p)
  <2>1. CASE Become(p, [req[p] EXCEPT !.pc = "sendMail"])
    BY <1>1, <1>3, <2>1 DEF SaveInvitation, At, Become, Moves, RequestRecord
  <2> QED
    BY <1>2, <1>3, <2>1 DEF SaveInvitation, Return
<1>4. CASE SaveUser(p)
  <2>0. PICK u \in Stored(req[p].urows) :
          LET rest == Saved(req[p].urows, u)
          IN  \/ Become(p, [req[p] EXCEPT !.urows = rest])
              \/ \E pc : Become(p, [req[p] EXCEPT !.urows = rest, !.pc = pc])
              \/ Return(p)
    BY <1>4 DEF SaveUser
  <2>1. PICK rest :
          /\ rest = Saved(req[p].urows, u)
          /\ \/ Become(p, [req[p] EXCEPT !.urows = rest])
             \/ \E pc : Become(p, [req[p] EXCEPT !.urows = rest, !.pc = pc])
             \/ Return(p)
    BY <2>0
  <2>2. rest # req[p].urows
    BY <1>1, <2>1 DEF Saved, Stored, RequestRecord
  <2>3. ASSUME NEW r, Become(p, r), r.urows = rest PROVE Moves(p)
    BY <1>1, <2>2, <2>3 DEF Become, Moves
  <2>4. [req[p] EXCEPT !.urows = rest].urows = rest
    BY <1>1 DEF RequestRecord
  <2>5. \A pc : [req[p] EXCEPT !.urows = rest, !.pc = pc].urows = rest
    BY <1>1 DEF RequestRecord
  <2> QED
    BY <1>2, <2>1, <2>3, <2>4, <2>5
<1> QED
  BY <1>2, <1>3, <1>4

\* However many requests are under way and whatever fails: a deletion, or a
\* password somebody chose, is undone only by the UpdateUser or
\* UpdateOrganization of a row that another request wrote after it was read.
THEOREM OnlyStaleRowsUndo == OvertakingSpec => OnlyOvertakenSavesUndo
<1> DEFINE Undone == /\ \A u \in Stored(users) : ~KeepsMarks(users[u], users'[u]) =>
                           \E p \in Procs : Moves(p) /\ At(p, "saveUsers") /\ u \in staleUsers[p]
                     /\ \A o \in Stored(organizations) :
                           organizations[o].deletedAt = "set" /\ organizations'[o].deletedAt # "set" =>
                              \E p \in Procs : Moves(p) /\ At(p, "saveOrganization") /\ o \in staleOrganizations[p]
<1>1. OvertakingInv /\ [OvertakingNext]_overtakingVars => [Undone]_overtakingVars
  <2> SUFFICES ASSUME OvertakingInv, OvertakingNext PROVE Undone
    OBVIOUS
  <2>t. TypeOK /\ [Next]_vars
    BY DEF OvertakingInv, TenancyInv, OvertakingNext
  <2>1. ASSUME NEW u \in Stored(users), ~KeepsMarks(users[u], users'[u])
        PROVE  \E p \in Procs : Moves(p) /\ At(p, "saveUsers") /\ u \in staleUsers[p]
    <3>1. users'[u] # users[u]
      BY <2>1 DEF KeepsMarks
    <3>2. PICK p \in Procs : SaveUser(p) \/ CreateUserWithPassword(p)
      BY <2>t, <3>1, OnlySavesWrite
    <3>3. SaveUser(p)
      BY <2>t, <3>1, <3>2
         DEF CreateUserWithPassword, CreateUser, IsNextKey, Stored, TypeOK, StorageTypeOK
    <3>4. PICK v \in Stored(req[p].urows) : users' = [users EXCEPT ![v] = req[p].urows[v]]
      BY <3>3 DEF SaveUser, UpdateUser
    <3>5. u = v /\ users'[u] = req[p].urows[u]
      BY <2>t, <3>1, <3>4, StoredIs DEF TypeOK, StorageTypeOK
    <3>6. u \in staleUsers[p]
      BY <2>1, <3>4, <3>5 DEF OvertakingInv, Carries, CarriesMarks
    <3> QED
      BY <2>t, <3>3, <3>6, SavesMove DEF SaveUser
  <2>2. ASSUME NEW o \in Stored(organizations),
               organizations[o].deletedAt = "set", organizations'[o].deletedAt # "set"
        PROVE  \E p \in Procs : Moves(p) /\ At(p, "saveOrganization") /\ o \in staleOrganizations[p]
    <3>1. PICK p \in Procs : SaveOrganization(p) \/ CreateOrganizationWithUser(p)
      BY <2>t, <2>2, OnlySavesWrite
    <3>2. SaveOrganization(p)
      BY <2>t, <2>2, <3>1
         DEF CreateOrganizationWithUser, CreateOrganization, IsNextKey, Stored, TypeOK, StorageTypeOK
    <3>3. organizations' = [organizations EXCEPT ![req[p].org] = req[p].orow] /\ req[p].orow # Nil
      BY <2>t, <3>2 DEF SaveOrganization, UpdateOrganization, At, TypeOK, Request, HoldsItsArguments
    <3>4. o = req[p].org /\ organizations'[o] = req[p].orow
      BY <2>t, <2>2, <3>3, StoredIs DEF TypeOK, StorageTypeOK
    <3>5. o \in staleOrganizations[p]
      BY <2>2, <3>3, <3>4 DEF OvertakingInv, Carries, CarriesDeletion
    <3> QED
      BY <2>t, <3>2, <3>5, SavesMove DEF SaveOrganization
  <2> QED
    BY <2>1, <2>2
<1>2. [][Undone]_overtakingVars => OnlyOvertakenSavesUndo
  BY PTL DEF OnlyOvertakenSavesUndo
<1> QED
  BY <1>1, <1>2, OvertakingInvariant, PTL DEF OvertakingSpec

\* Likewise a link changes, and a rejection is taken back, only by
\* ResendInvitation or by the UpdateInvitation of a row that another request
\* wrote after it was read.
THEOREM OnlyStaleRowsReopen == OvertakingSpec => OnlyOvertakenSavesReopen
<1> DEFINE Reopened == \A i \in Stored(invitations) :
                          \/ Link(invitations'[i]) # Link(invitations[i])
                          \/ invitations[i].status = "rejected" /\ invitations'[i].status # "rejected"
                          => \E p \in Procs :
                                /\ Moves(p) /\ At(p, "saveInvitation")
                                /\ req[p].op = "ResendInvitation" \/ i \in staleInvitations[p]
<1>1. OvertakingInv /\ [OvertakingNext]_overtakingVars => [Reopened]_overtakingVars
  <2> SUFFICES ASSUME OvertakingInv, OvertakingNext, NEW i \in Stored(invitations),
                      \/ Link(invitations'[i]) # Link(invitations[i])
                      \/ invitations[i].status = "rejected" /\ invitations'[i].status # "rejected"
               PROVE  \E p \in Procs :
                         /\ Moves(p) /\ At(p, "saveInvitation")
                         /\ req[p].op = "ResendInvitation" \/ i \in staleInvitations[p]
    OBVIOUS
  <2>t. TypeOK /\ [Next]_vars
    BY DEF OvertakingInv, TenancyInv, OvertakingNext
  <2>1. invitations'[i] # invitations[i]
    OBVIOUS
  <2>2. PICK p \in Procs : SaveInvitation(p) \/ InviteUser(p) \/ InviteNext(p)
    BY <2>t, <2>1, OnlySavesWrite
  <2>3. SaveInvitation(p)
    <3>1. ASSUME InviteUser(p) \/ InviteNext(p) PROVE FALSE
      <4>1. PICK j \in InvId : \E row : CreateInvitation(j, row)
        BY <3>1 DEF InviteUser, InviteNext, Invite
      <4> QED
        BY <2>t, <2>1, <4>1 DEF CreateInvitation, IsNextKey, Stored, TypeOK, StorageTypeOK
    <3> QED
      BY <2>2, <3>1
  <2>4. /\ invitations' = [invitations EXCEPT ![req[p].inv] = req[p].irow]
        /\ req[p].irow # Nil /\ At(p, "saveInvitation")
    BY <2>t, <2>3 DEF SaveInvitation, UpdateInvitation, At, TypeOK, Request, HoldsItsArguments
  <2>5. i = req[p].inv /\ invitations'[i] = req[p].irow
    BY <2>t, <2>1, <2>4, StoredIs DEF TypeOK, StorageTypeOK
  <2>6. CarriesAnswer(req[p], staleInvitations[p])
    BY DEF OvertakingInv, Carries
  <2>7. req[p].op = "ResendInvitation" \/ i \in staleInvitations[p]
    BY <2>4, <2>5, <2>6 DEF CarriesAnswer
  <2> QED
    BY <2>t, <2>3, <2>4, <2>7, SavesMove
<1>2. [][Reopened]_overtakingVars => OnlyOvertakenSavesReopen
  BY PTL DEF OnlyOvertakenSavesReopen
<1> QED
  BY <1>1, <1>2, OvertakingInvariant, PTL DEF OvertakingSpec

-----------------------------------------------------------------------------
(* Requests served one at a time, as one process of Procs serves them *)

OneAtATime == \A p, q \in Procs : p = q

-----------------------------------------------------------------------------
(* The inductive invariant: what a request has read is still so *)

\* The rows a request is about to write back are not older than the tables.
RowsAreCurrent(r) ==
    /\ \A u \in Stored(r.urows) : KeepsMarks(users[u], r.urows[u])
    /\ r.orow # Nil /\ organizations[r.org].deletedAt = "set" => r.orow.deletedAt = "set"
    /\ r.pc \in {"saveOrganization", "readPending"} => Stored(r.urows) = {}

\* A request about to delete an organization has deleted its members or holds
\* the rows that do.
MembersLeave(r) ==
    (/\ r.orow # Nil /\ r.orow.deletedAt = "set" /\ r.pc \in {"saveUsers", "saveOrganization"}
     /\ organizations[r.org].deletedAt = "null")
    => \A u \in GetUsersByOrganizationID(r.org) :
          \/ users[u].deletedAt = "set"
          \/ u \in Stored(r.urows) /\ r.urows[u].deletedAt = "set"

\* An acceptance about to be written is on behalf of somebody whose new
\* password is stored.
AnswersInTime(r) ==
    /\ r.op = "UpdatePassword" /\ r.pc \in {"saveUsers", "readPending"} =>
          \A u \in Stored(users) : users[u].org = r.org /\ users[u].email = r.email =>
             \/ users[u].password = "chosen"
             \/ u \in Stored(r.urows) /\ r.urows[u].password = "chosen"
    /\ r.irow # Nil /\ r.irow.status = "accepted" =>
          \A u \in Stored(users) : SameMember(r.irow, users[u]) => users[u].password = "chosen"

Current(r) == /\ RowsAreCurrent(r)
              /\ AnswersInTime(r)
              /\ "list" \notin Faults => MembersLeave(r)

SequentialInv == /\ TenancyInv
                 /\ \A p \in Procs : Current(req[p])
                 /\ AcceptedMeansPasswordSet

\* A request that holds neither rows of users or organizations nor an answer.
Plain(r) == /\ r.urows = NoUsers /\ r.orow = Nil
            /\ ~(r.op = "UpdatePassword" /\ r.pc \in {"saveUsers", "readPending"})
            /\ r.irow # Nil => r.irow.status \in {"pending", "rejected"}

LEMMA PlainIsCurrent ==
  ASSUME NEW r, Plain(r)
  PROVE  Current(r) /\ Current(r)'
  BY DEF Plain, Current, RowsAreCurrent, MembersLeave, AnswersInTime, NoUsers, Stored

LEMMA BlankIsPlain == Plain(Blank)
  BY BlankFields DEF Plain

LEMMA RestIsPlain ==
  ASSUME NEW o, NEW rest
  PROVE  Plain(InviteRest(o, rest))
<1>1. LET r == InviteRest(o, rest)
      IN  /\ r.urows = NoUsers /\ r.irow = Nil /\ r.orow = Nil
          /\ r.pc \in {"idle", "inviteNext"}
  BY BlankFields DEF InviteRest, RequestRecord
<1> HIDE DEF InviteRest
<1> QED
  BY <1>1 DEF Plain

\* Nobody else's request can grow stale.
LEMMA OnlyOneMoves ==
  ASSUME OneAtATime, TypeOK, NEW p \in Procs, NEW r, Become(p, r), Current(r)'
  PROVE  (\A q \in Procs : Current(req[q]))'
<1> SUFFICES ASSUME NEW q \in Procs PROVE Current(req[q])'
  OBVIOUS
<1>1. q = p
  BY DEF OneAtATime
<1>2. req'[q] = r
  BY <1>1 DEF Become, TypeOK
<1> QED
  BY <1>2 DEF Current, RowsAreCurrent, MembersLeave, AnswersInTime

LEMMA SameTables ==
  ASSUME UNCHANGED tables
  PROVE  /\ AcceptedMeansPasswordSet => AcceptedMeansPasswordSet'
         /\ \A r : Current(r) => Current(r)'
  BY DEF tables, AcceptedMeansPasswordSet, SameMember, Stored,
         Current, RowsAreCurrent, MembersLeave, AnswersInTime, GetUsersByOrganizationID

\* A step that only moves its request on.
LEMMA MoveKeepsCurrent ==
  ASSUME OneAtATime, SequentialInv, TenancyInv', UNCHANGED tables,
         NEW p \in Procs, NEW r, Become(p, r), Current(r)
  PROVE  SequentialInv'
<1>1. Current(r)'
  BY SameTables
<1>2. (\A q \in Procs : Current(req[q]))'
  BY <1>1, OnlyOneMoves DEF SequentialInv, TenancyInv
<1> QED
  BY <1>2, SameTables DEF SequentialInv

LEMMA SetRows ==
  ASSUME NEW row \in UserRow
  PROVE  /\ KeepsMarks(row, WithPassword(row)) /\ WithPassword(row).password = "chosen"
         /\ KeepsMarks(row, DeletedUser(row)) /\ DeletedUser(row).deletedAt = "set"
         /\ WithPassword(row) # Nil /\ DeletedUser(row) # Nil
<1>1. WithPassword(row) \in UserRow /\ DeletedUser(row) \in UserRow
  BY DEF WithPassword, DeletedUser, UserRow, Password, Time
<1> QED
  BY <1>1, NilIsNoRow DEF KeepsMarks, WithPassword, DeletedUser, UserRow

\* A request that holds the row of one stored user, as it was just read.
LEMMA HeldUserIsCurrent ==
  ASSUME SequentialInv, NEW r, NEW u \in Stored(users), NEW row, row # Nil,
         KeepsMarks(users[u], row), r.urows = HoldUser(u, row),
         r.irow = Nil, r.orow = Nil, r.pc = "saveUsers",
         r.op = "UpdatePassword" => users[u].email = r.email /\ row.password = "chosen"
  PROVE  Current(r)
<1>1. \A v \in Stored(r.urows) : v = u /\ r.urows[v] = row
  BY StoredIs DEF HoldUser, NoUsers, Stored, SequentialInv, TenancyInv
<1>2. u \in Stored(r.urows)
  BY StoredIs DEF HoldUser, NoUsers, Stored, SequentialInv, TenancyInv
<1>3. RowsAreCurrent(r) /\ MembersLeave(r)
  BY <1>1 DEF RowsAreCurrent, MembersLeave
<1>4. \A v \in Stored(users) : users[v].email = users[u].email => v = u
  BY DEF SequentialInv, TenancyInv, OneAccountPerEmail
<1>5. AnswersInTime(r)
  BY <1>1, <1>2, <1>4 DEF AnswersInTime
<1> QED
  BY <1>3, <1>5 DEF Current

\* The steps that read, of whatever the request goes on to write.
LEMMA UserReadsKeepCurrent ==
  ASSUME OneAtATime, SequentialInv, TenancyInv',
         NEW p \in Procs, UpdatePassword(p) \/ UpdateProfile(p)
  PROVE  SequentialInv'
<1>t. TypeOK
  BY DEF SequentialInv, TenancyInv
<1>1. CASE UpdatePassword(p)
  <2> DEFINE R(u, o) == [Blank EXCEPT !.op = "UpdatePassword", !.pc = "saveUsers",
                                      !.org = o, !.email = users[u].email,
                                      !.urows = HoldUser(u, WithPassword(users[u]))]
  <2>1. PICK u \in Stored(users), o \in OrgId : Become(p, R(u, o))
    BY <1>1 DEF UpdatePassword
  <2>2. users[u] \in UserRow
    BY <1>t, StoredType
  <2>3. /\ R(u, o).urows = HoldUser(u, WithPassword(users[u]))
        /\ R(u, o).email = users[u].email /\ R(u, o).pc = "saveUsers"
        /\ R(u, o).irow = Nil /\ R(u, o).orow = Nil
    BY BlankFields DEF RequestRecord
  <2> HIDE DEF R
  <2>4. Current(R(u, o))
    BY <2>2, <2>3, SetRows, HeldUserIsCurrent
  <2> QED
    BY <1>1, <2>1, <2>4, MoveKeepsCurrent DEF UpdatePassword
<1>2. CASE UpdateProfile(p)
  <2> DEFINE R(u) == [Blank EXCEPT !.op = "UpdateProfile", !.pc = "saveUsers",
                                   !.urows = HoldUser(u, users[u])]
  <2>1. PICK u \in Stored(users) : Become(p, R(u))
    BY <1>2 DEF UpdateProfile
  <2>2. /\ R(u).urows = HoldUser(u, users[u]) /\ R(u).op = "UpdateProfile"
        /\ R(u).pc = "saveUsers" /\ R(u).irow = Nil /\ R(u).orow = Nil
    BY BlankFields DEF RequestRecord
  <2>3. KeepsMarks(users[u], users[u]) /\ users[u] # Nil
    BY DEF KeepsMarks, Stored
  <2> HIDE DEF R
  <2>4. Current(R(u))
    BY <2>2, <2>3, HeldUserIsCurrent
  <2> QED
    BY <1>2, <2>1, <2>4, MoveKeepsCurrent DEF UpdateProfile
<1> QED
  BY <1>1, <1>2

\* A request that holds the row of an organization and no user.
LEMMA HeldOrganizationIsCurrent ==
  ASSUME NEW r, r.urows = NoUsers, r.irow = Nil, r.op # "UpdatePassword",
         \/ r.pc = "readMembers"
         \/ r.pc = "saveOrganization" /\ r.orow = organizations[r.org],
         organizations[r.org].deletedAt = "set" => r.orow.deletedAt = "set"
  PROVE  Current(r)
  BY DEF Current, RowsAreCurrent, MembersLeave, AnswersInTime, NoUsers, Stored

LEMMA DeletionKeepsCurrent ==
  ASSUME OneAtATime, SequentialInv, TenancyInv', NEW p \in Procs,
         NEW op \in Op \ {"UpdatePassword"}, NEW o \in OrgId, StartDeletion(p, op, o),
         UNCHANGED <<tables, now, issuedTo, lastMailed>>
  PROVE  SequentialInv'
<1> DEFINE R == [Blank EXCEPT !.op = op, !.pc = "readMembers", !.org = o,
                              !.orow = DeletedOrganization(organizations[o])]
<1>1. o \in Stored(organizations) /\ Become(p, R)
  BY StoredIs DEF StartDeletion, SequentialInv, TenancyInv
<1>2. organizations[o] \in OrgRow
  BY <1>1, StoredType DEF SequentialInv, TenancyInv
<1>3. /\ R.urows = NoUsers /\ R.irow = Nil /\ R.op # "UpdatePassword" /\ R.pc = "readMembers"
      /\ R.org = o /\ R.orow = DeletedOrganization(organizations[o])
  BY BlankFields DEF RequestRecord
<1>4. R.orow.deletedAt = "set"
  BY <1>2, <1>3 DEF DeletedOrganization, OrgRow
<1> HIDE DEF R
<1>5. Current(R)
  BY <1>3, <1>4, HeldOrganizationIsCurrent
<1> QED
  BY <1>1, <1>5, MoveKeepsCurrent

LEMMA LeavingKeepsCurrent ==
  ASSUME OneAtATime, SequentialInv, TenancyInv', NEW p \in Procs,
         DeleteUser(p) \/ DeleteOrganization(p) \/ UpdateOrganizationName(p)
  PROVE  SequentialInv'
<1>t. TypeOK
  BY DEF SequentialInv, TenancyInv
<1>1. CASE DeleteUser(p)
  <2> DEFINE R(u) == [Blank EXCEPT !.op = "DeleteUser", !.pc = "saveUsers",
                                   !.urows = HoldUser(u, DeletedUser(users[u]))]
  <2>1. PICK u \in Stored(users), o \in OrgId : Become(p, R(u)) \/ StartDeletion(p, "DeleteUser", o)
    BY <1>1 DEF DeleteUser
  <2>2. CASE Become(p, R(u))
    <3>1. users[u] \in UserRow
      BY <1>t, StoredType
    <3>2. /\ R(u).urows = HoldUser(u, DeletedUser(users[u])) /\ R(u).op = "DeleteUser"
          /\ R(u).pc = "saveUsers" /\ R(u).irow = Nil /\ R(u).orow = Nil
      BY BlankFields DEF RequestRecord
    <3> HIDE DEF R
    <3>3. Current(R(u))
      BY <3>1, <3>2, SetRows, HeldUserIsCurrent
    <3> QED
      BY <1>1, <2>2, <3>3, MoveKeepsCurrent DEF DeleteUser
  <2>3. CASE StartDeletion(p, "DeleteUser", o)
    BY <1>1, <2>3, DeletionKeepsCurrent DEF DeleteUser, Op
  <2> QED
    BY <2>1, <2>2, <2>3
<1>2. CASE DeleteOrganization(p)
  BY <1>2, DeletionKeepsCurrent DEF DeleteOrganization, Op
<1>3. CASE UpdateOrganizationName(p)
  <2> DEFINE R(o) == [Blank EXCEPT !.op = "UpdateOrganization", !.pc = "saveOrganization",
                                   !.org = o, !.orow = organizations[o]]
  <2>1. PICK o \in Stored(organizations) : Become(p, R(o))
    BY <1>3 DEF UpdateOrganizationName
  <2>2. /\ R(o).urows = NoUsers /\ R(o).irow = Nil /\ R(o).op = "UpdateOrganization"
        /\ R(o).org = o /\ R(o).orow = organizations[o] /\ R(o).pc = "saveOrganization"
    BY BlankFields DEF RequestRecord
  <2> HIDE DEF R
  <2>3. Current(R(o))
    BY <2>2, HeldOrganizationIsCurrent
  <2> QED
    BY <1>3, <2>1, <2>3, MoveKeepsCurrent DEF UpdateOrganizationName
<1> QED
  BY <1>1, <1>2, <1>3

\* GetUsersByOrganizationID that does not fail lists every member, so every
\* member is held as deleted; when it fails, MembersLeave promises nothing.
LEMMA ReadMembersKeepsCurrent ==
  ASSUME OneAtATime, SequentialInv, TenancyInv', NEW p \in Procs, ReadMembers(p)
  PROVE  SequentialInv'
<1>t. TypeOK
  BY DEF SequentialInv, TenancyInv
<1> DEFINE Rows(listed) == [u \in UserId |-> IF u \in listed THEN DeletedUser(users[u]) ELSE Nil]
           R(listed) == [req[p] EXCEPT
                             !.pc = IF listed = {} THEN "saveOrganization" ELSE "saveUsers",
                             !.urows = Rows(listed)]
<1>1. PICK listed \in {GetUsersByOrganizationID(req[p].org), {}} :
         Become(p, R(listed)) /\ ("list" \notin Faults => listed = GetUsersByOrganizationID(req[p].org))
  BY DEF ReadMembers
<1>2. \A u \in listed : u \in UserId /\ users[u] \in UserRow
  BY <1>t, StoredType DEF GetUsersByOrganizationID
<1>3. \A u \in listed : /\ Rows(listed)[u] = DeletedUser(users[u]) /\ Rows(listed)[u] # Nil
                        /\ KeepsMarks(users[u], Rows(listed)[u])
                        /\ Rows(listed)[u].deletedAt = "set"
  BY <1>2, SetRows
<1>4. Stored(Rows(listed)) = listed
  BY <1>2, <1>3 DEF Stored
<1>5. req[p] \in RequestRecord /\ req[p].op # "UpdatePassword" /\ req[p].orow # Nil
  BY <1>t DEF ReadMembers, At, TypeOK, Request, HoldsItsArguments
<1> HIDE DEF Rows
<1>6. /\ R(listed).urows = Rows(listed) /\ R(listed).op = req[p].op
      /\ R(listed).irow = req[p].irow /\ R(listed).inv = req[p].inv
      /\ R(listed).orow = req[p].orow /\ R(listed).org = req[p].org
      /\ R(listed).pc = IF listed = {} THEN "saveOrganization" ELSE "saveUsers"
  BY <1>5 DEF RequestRecord
<1>7. Current(req[p])
  BY DEF SequentialInv
<1> HIDE DEF R
<1>8. RowsAreCurrent(R(listed))
  BY <1>3, <1>4, <1>6, <1>7 DEF Current, RowsAreCurrent
<1>9. AnswersInTime(R(listed))
  BY <1>5, <1>6, <1>7 DEF Current, AnswersInTime
<1>10. "list" \notin Faults => MembersLeave(R(listed))
  BY <1>1, <1>3, <1>4, <1>6 DEF MembersLeave
<1>11. Current(R(listed))
  BY <1>8, <1>9, <1>10 DEF Current
<1> QED
  BY <1>1, <1>11, MoveKeepsCurrent DEF ReadMembers

LEMMA PlainKeepsCurrent ==
  ASSUME OneAtATime, SequentialInv, TenancyInv', UNCHANGED tables,
         NEW p \in Procs, NEW r, Become(p, r), Plain(r)
  PROVE  SequentialInv'
  BY PlainIsCurrent, MoveKeepsCurrent

LEMMA PlainMoves ==
  ASSUME OneAtATime, SequentialInv, TenancyInv', NEW p \in Procs,
         \/ InviteUsers(p) \/ InviteNextFails(p) \/ SendMail(p) \/ Abort(p)
         \/ RejectInvitation(p) \/ ResendInvitation(p)
  PROVE  SequentialInv'
<1>t. TypeOK /\ TypeOK'
  BY DEF SequentialInv, TenancyInv
<1>1. CASE InviteUsers(p) \/ InviteNextFails(p) \/ SendMail(p)
  <2>1. PICK r : Become(p, r) /\ Plain(r)
    BY <1>1, RestIsPlain DEF InviteUsers, InviteNextFails, SendMail
  <2> QED
    BY <1>1, <2>1, PlainKeepsCurrent DEF InviteUsers, InviteNextFails, SendMail
<1>2. CASE Abort(p)
  BY <1>2, BlankIsPlain, PlainKeepsCurrent DEF Abort, Return
<1>3. CASE RejectInvitation(p)
  <2> DEFINE R(i) == [Blank EXCEPT !.op = "RejectInvitation", !.pc = "saveInvitation", !.inv = i,
                                   !.irow = [invitations[i] EXCEPT !.status = "rejected"]]
  <2>1. PICK t \in Token : \E i \in GetInvitationByToken(t) : Become(p, R(i))
    BY <1>3 DEF RejectInvitation
  <2>2. PICK i \in GetInvitationByToken(t) : Become(p, R(i))
    BY <2>1
  <2>3. invitations[i] \in InvRow
    BY <1>t, StoredType DEF GetInvitationByToken
  <2>4. /\ R(i).pc = "saveInvitation" /\ R(i).urows = NoUsers /\ R(i).orow = Nil
        /\ R(i).irow.status = "rejected"
    BY <2>3, BlankFields DEF RequestRecord, InvRow
  <2> HIDE DEF R
  <2> QED
    BY <1>3, <2>2, <2>4, PlainKeepsCurrent DEF RejectInvitation, Plain
<1>4. CASE ResendInvitation(p)
  <2> DEFINE R(i, t) == [Blank EXCEPT !.op = "ResendInvitation", !.pc = "saveInvitation",
                                      !.org = invitations[i].org, !.inv = i,
                                      !.irow = Renewed(invitations[i], t)]
  <2>1. PICK i \in Stored(invitations), t \in Token : Become(p, R(i, t))
    BY <1>4 DEF ResendInvitation
  <2>2. invitations[i] \in InvRow
    BY <1>t, StoredType
  <2>3. Renewed(invitations[i], t).status = "pending"
    BY <2>2 DEF Renewed, InvRow
  <2>4. /\ R(i, t).pc = "saveInvitation" /\ R(i, t).urows = NoUsers /\ R(i, t).orow = Nil
        /\ R(i, t).irow.status = "pending"
    BY <2>3, BlankFields DEF RequestRecord
  <2> HIDE DEF R
  <2> QED
    BY <1>4, <2>1, <2>4, PlainKeepsCurrent DEF ResendInvitation, Plain
<1> QED
  BY <1>1, <1>2, <1>3, <1>4

\* UpdatePassword accepts once its user has a new password.
LEMMA AnswersKeepCurrent ==
  ASSUME OneAtATime, SequentialInv, TenancyInv', NEW p \in Procs,
         AcceptInvitation(p) \/ ReadPending(p)
  PROVE  SequentialInv'
<1>t. TypeOK
  BY DEF SequentialInv, TenancyInv
<1>1. CASE AcceptInvitation(p)
  <2> DEFINE R(i) == [Blank EXCEPT !.op = "AcceptInvitation", !.pc = "createUser",
                         !.newUser = NewUser(invitations[i].org, invitations[i].email, "user")]
  <2>1. PICK t \in Token : \E i \in GetInvitationByToken(t) :
                              IsAcceptable(invitations[i]) /\ Become(p, R(i))
    BY <1>1 DEF AcceptInvitation
  <2>2. PICK i \in GetInvitationByToken(t) : IsAcceptable(invitations[i]) /\ Become(p, R(i))
    BY <2>1
  <2>3. R(i).urows = NoUsers /\ R(i).irow = Nil /\ R(i).orow = Nil /\ R(i).op = "AcceptInvitation"
    BY BlankFields DEF RequestRecord
  <2> HIDE DEF R
  <2> QED
    BY <1>1, <2>2, <2>3, PlainKeepsCurrent DEF AcceptInvitation, Plain
<1>2. CASE ReadPending(p)
  <2> DEFINE R(i) == [Blank EXCEPT !.op = "UpdatePassword", !.pc = "saveInvitation", !.inv = i,
                                   !.irow = [invitations[i] EXCEPT !.status = "accepted"]]
  <2>1. ASSUME NEW i \in PendingFor(req[p].org, req[p].email), Become(p, R(i))
        PROVE  SequentialInv'
    <3>1. /\ invitations[i] \in InvRow
          /\ invitations[i].org = req[p].org /\ invitations[i].email = req[p].email
      BY <1>t, StoredType DEF PendingFor, GetInvitationsByOrganizationID
    <3>2. /\ R(i).irow = [invitations[i] EXCEPT !.status = "accepted"]
          /\ R(i).pc = "saveInvitation" /\ R(i).urows = NoUsers /\ R(i).orow = Nil
      BY BlankFields DEF RequestRecord
    <3>3. /\ R(i).irow.org = req[p].org /\ R(i).irow.email = req[p].email
          /\ R(i).irow.status = "accepted"
      BY <3>1, <3>2 DEF InvRow
    <3>4. \A u \in Stored(users) : users[u].org = req[p].org /\ users[u].email = req[p].email =>
                                      users[u].password = "chosen"
      <4>1. req[p].pc = "readPending" /\ req[p].op = "UpdatePassword"
        <5>1. At(p, "readPending")
          BY <1>2 DEF ReadPending
        <5> QED
          BY <1>t, <5>1 DEF At, TypeOK, Request, HoldsItsArguments
      <4>2. Current(req[p])
        BY DEF SequentialInv
      <4>3. Stored(req[p].urows) = {}
        BY <4>1, <4>2 DEF Current, RowsAreCurrent
      <4> QED
        BY <4>1, <4>2, <4>3 DEF Current, AnswersInTime
    <3> HIDE DEF R
    <3>5. Current(R(i))
      BY <3>2, <3>3, <3>4
         DEF Current, RowsAreCurrent, MembersLeave, AnswersInTime, SameMember, NoUsers, Stored
    <3> QED
      BY <1>2, <2>1, <3>5, MoveKeepsCurrent DEF ReadPending
  <2>2. CASE Return(p)
    BY <1>2, <2>2, BlankIsPlain, PlainKeepsCurrent DEF ReadPending, Return
  <2> QED
    BY <1>2, <2>1, <2>2 DEF ReadPending
<1> QED
  BY <1>1, <1>2

\* The steps that write.
LEMMA InsertsKeepCurrent ==
  ASSUME OneAtATime, SequentialInv, TenancyInv', NEW p \in Procs,
         CreateOrganizationWithUser(p) \/ CreateUserWithPassword(p)
  PROVE  SequentialInv'
<1>t. TypeOK /\ TypeOK'
  BY DEF SequentialInv, TenancyInv
<1>1. CASE CreateOrganizationWithUser(p)
  <2> DEFINE R(o, e) == [Blank EXCEPT !.op = "CreateOrganizationWithUser",
                                      !.pc = "createUser",
                                      !.newUser = NewUser(o, e, "manager")]
  <2>1. PICK o \in OrgId, e \in Email : Become(p, R(o, e))
    BY <1>1 DEF CreateOrganizationWithUser
  <2>2. PICK r \in Request : r = R(o, e)
    BY <1>t, <2>1 DEF Become, TypeOK
  <2>3. r.urows = NoUsers /\ r.irow = Nil /\ r.orow = Nil /\ r.op = "CreateOrganizationWithUser"
    BY <2>2, BlankFields DEF RequestRecord
  <2>4. (\A q \in Procs : Current(req[q]))'
    BY <1>t, <2>1, <2>2, <2>3, PlainIsCurrent, OnlyOneMoves DEF Plain
  <2> QED
    BY <1>1, <2>4 DEF CreateOrganizationWithUser, SequentialInv, AcceptedMeansPasswordSet,
                      SameMember, Stored
<1>2. CASE CreateUserWithPassword(p)
  <2>1. (\A q \in Procs : Current(req[q]))'
    BY <1>t, <1>2, BlankIsPlain, PlainIsCurrent, OnlyOneMoves DEF CreateUserWithPassword, Return
  <2>2. AcceptedMeansPasswordSet'
    <3>1. CASE UNCHANGED users
      BY <1>2, <3>1 DEF CreateUserWithPassword, SequentialInv, AcceptedMeansPasswordSet, SameMember, Stored
    <3>2. ASSUME NEW k \in UserId, CreateUser(k, req[p].newUser) PROVE AcceptedMeansPasswordSet'
      <4>1. \A u \in Stored(users') : \/ u \in Stored(users) /\ users'[u] = users[u]
                                      \/ u = k /\ users'[u] = req[p].newUser
        BY <1>t, <3>2 DEF CreateUser, TypeOK, StorageTypeOK, Stored
      <4>2. \A v \in Stored(users) : users[v].email # req[p].newUser.email
        BY <3>2 DEF CreateUser, EmailTaken
      <4>3. \A i \in Stored(invitations) : invitations[i].status = "accepted" =>
               ~SameMember(invitations[i], req[p].newUser)
        BY <4>2 DEF SequentialInv, TenancyInv, AcceptedHasAccount, SameMember
      <4> QED
        BY <1>2, <4>1, <4>3 DEF CreateUserWithPassword, SequentialInv, AcceptedMeansPasswordSet
    <3> QED
      BY <1>2, <3>1, <3>2 DEF CreateUserWithPassword
  <2> QED
    BY <1>2, <2>1, <2>2 DEF CreateUserWithPassword, SequentialInv, Stored
<1> QED
  BY <1>1, <1>2

LEMMA InviteKeepsCurrent ==
  ASSUME OneAtATime, SequentialInv, TenancyInv', NEW p \in Procs, InviteUser(p) \/ InviteNext(p)
  PROVE  SequentialInv'
<1>t. TypeOK /\ TypeOK'
  BY DEF SequentialInv, TenancyInv
<1> DEFINE R(op, o, e, t, i, rest) ==
             [Blank EXCEPT !.op = op, !.pc = "sendMail", !.org = o, !.inv = i,
                           !.irow = NewInvitation(o, e, t), !.todo = rest]
<1>1. PICK op, o, e, rest : op \in Op /\ Invite(p, op, o, e, rest)
  BY DEF InviteUser, InviteNext, Op
<1>2. PICK i \in InvId, t \in Token :
        CreateInvitation(i, NewInvitation(o, e, t)) /\ Become(p, R(op, o, e, t, i, rest))
  BY <1>1 DEF Invite
<1>3. PICK row : row = NewInvitation(o, e, t)
  OBVIOUS
<1>4. row.status = "pending"
  BY <1>3 DEF NewInvitation
<1>5. PICK r \in Request : r = R(op, o, e, t, i, rest)
  BY <1>t, <1>2 DEF Become, TypeOK
<1>6. Plain(r)
  BY <1>3, <1>4, <1>5, BlankFields DEF Plain, RequestRecord
<1>7. (\A q \in Procs : Current(req[q]))'
  BY <1>t, <1>2, <1>5, <1>6, PlainIsCurrent, OnlyOneMoves
<1>8. \A j \in Stored(invitations') : \/ j \in Stored(invitations) /\ invitations'[j] = invitations[j]
                                      \/ invitations'[j].status = "pending"
  BY <1>t, <1>2, <1>3, <1>4 DEF CreateInvitation, TypeOK, StorageTypeOK, Stored
<1>9. UNCHANGED users
  BY DEF InviteUser, InviteNext
<1> QED
  BY <1>7, <1>8, <1>9 DEF SequentialInv, AcceptedMeansPasswordSet

LEMMA SaveInvitationKeepsCurrent ==
  ASSUME OneAtATime, SequentialInv, TenancyInv', NEW p \in Procs, SaveInvitation(p)
  PROVE  SequentialInv'
<1>t. TypeOK /\ TypeOK'
  BY DEF SequentialInv, TenancyInv
<1>1. UNCHANGED <<organizations, users>>
  BY DEF SaveInvitation
<1>2. req[p] \in RequestRecord /\ req[p].irow # Nil
  BY <1>t DEF SaveInvitation, At, TypeOK, Request, HoldsItsArguments
<1>3. Current(req[p])
  BY DEF SequentialInv
<1>4. \A i \in Stored(invitations') : \/ i \in Stored(invitations) /\ invitations'[i] = invitations[i]
                                      \/ invitations'[i] = req[p].irow
  BY <1>t DEF SaveInvitation, UpdateInvitation, TypeOK, StorageTypeOK, Stored
<1>5. AcceptedMeansPasswordSet'
  BY <1>1, <1>2, <1>3, <1>4
     DEF SequentialInv, AcceptedMeansPasswordSet, Current, AnswersInTime
<1>6. (\A q \in Procs : Current(req[q]))'
  <2>1. CASE Return(p)
    BY <1>t, <2>1, BlankIsPlain, PlainIsCurrent, OnlyOneMoves DEF Return
  <2>2. CASE Become(p, [req[p] EXCEPT !.pc = "sendMail"])
    <3>1. PICK r \in Request : r = [req[p] EXCEPT !.pc = "sendMail"]
      BY <1>t, <2>2 DEF Become, TypeOK
    <3>2. /\ r.pc = "sendMail" /\ r.urows = req[p].urows /\ r.orow = req[p].orow
          /\ r.org = req[p].org /\ r.irow = req[p].irow
      BY <1>2, <3>1 DEF RequestRecord
    <3>3. Current(r)'
      BY <1>1, <1>3, <3>2 DEF Current, RowsAreCurrent, MembersLeave, AnswersInTime, Stored
    <3> QED
      BY <1>t, <2>2, <3>1, <3>3, OnlyOneMoves
  <2> QED
    BY <2>1, <2>2 DEF SaveInvitation, Return
<1> QED
  BY <1>5, <1>6 DEF SequentialInv

LEMMA SaveUserKeepsCurrent ==
  ASSUME OneAtATime, SequentialInv, TenancyInv', KeepsRows, NEW p \in Procs, SaveUser(p)
  PROVE  SequentialInv'
<1>t. TypeOK /\ TypeOK'
  BY DEF SequentialInv, TenancyInv
<1>1. UNCHANGED <<organizations, invitations>>
  BY DEF SaveUser
<1>2. req[p] \in RequestRecord /\ req[p].pc = "saveUsers"
  BY <1>t DEF SaveUser, At, TypeOK, Request
<1> DEFINE rest(u) == Saved(req[p].urows, u)
<1>3. PICK u \in Stored(req[p].urows) :
        /\ UpdateUser(u, req[p].urows[u])
        /\ \/ /\ Stored(rest(u)) # {}
              /\ Become(p, [req[p] EXCEPT !.urows = rest(u)])
           \/ /\ Stored(rest(u)) = {} /\ req[p].orow # Nil
              /\ Become(p, [req[p] EXCEPT !.urows = rest(u), !.pc = "saveOrganization"])
           \/ /\ Stored(rest(u)) = {} /\ req[p].op = "UpdatePassword"
              /\ Become(p, [req[p] EXCEPT !.urows = rest(u), !.pc = "readPending"])
           \/ Return(p)
  BY DEF SaveUser
<1>4. Current(req[p])
  BY DEF SequentialInv
<1>5. u \in Stored(users) /\ KeepsMarks(users[u], req[p].urows[u])
  BY <1>3, <1>4 DEF SequentialInv, TenancyInv, RowsAgree, Current, RowsAreCurrent
<1>6. /\ Stored(users') = Stored(users)
      /\ \A v \in Stored(users) : /\ SameAccount(users[v], users'[v])
                                  /\ KeepsMarks(users[v], users'[v])
                                  /\ v # u => users'[v] = users[v]
      /\ users'[u] = req[p].urows[u]
  <2>1. users' = [users EXCEPT ![u] = req[p].urows[u]]
    BY <1>3 DEF UpdateUser
  <2>2. req[p].urows[u] # Nil
    BY <1>3 DEF Stored
  <2> QED
    BY <1>t, <1>5, <2>1, <2>2, StoredIs DEF KeepsRows, KeepsMarks, TypeOK, StorageTypeOK, Stored
<1>7. rest(u) \in [UserId -> UserRow \cup {Nil}]
  BY <1>2 DEF RequestRecord, Saved
<1>8. /\ Stored(rest(u)) = Stored(req[p].urows) \ {u}
      /\ \A v \in Stored(rest(u)) : rest(u)[v] = req[p].urows[v]
  BY <1>2, <1>3 DEF RequestRecord, Saved, Stored
<1> HIDE DEF rest
<1>9. AcceptedMeansPasswordSet'
  <2>1. ASSUME NEW i \in Stored(invitations), NEW v \in Stored(users'),
               invitations[i].status = "accepted", SameMember(invitations[i], users'[v])
        PROVE  users'[v].password = "chosen"
    <3>1. v \in Stored(users) /\ SameMember(users[v], users'[v]) /\ KeepsMarks(users[v], users'[v])
      BY <1>6, <2>1 DEF SameAccount
    <3>2. SameMember(invitations[i], users[v])
      BY <2>1, <3>1 DEF SameMember, Stored
    <3> QED
      BY <2>1, <3>1, <3>2 DEF SequentialInv, AcceptedMeansPasswordSet, KeepsMarks
  <2> QED
    BY <1>1, <2>1 DEF SequentialInv, AcceptedMeansPasswordSet, Stored
<1>10. ASSUME NEW r, r.urows = rest(u), r.op = req[p].op, r.org = req[p].org, r.orow = req[p].orow,
              r.email = req[p].email, r.irow = req[p].irow,
              \/ r.pc = "saveUsers"
              \/ r.pc \in {"saveOrganization", "readPending"} /\ Stored(rest(u)) = {}
       PROVE  Current(r)'
  <2>1. RowsAreCurrent(r)'
    <3>1. \A v \in Stored(r.urows) : KeepsMarks(users'[v], r.urows[v])
      BY <1>4, <1>6, <1>8, <1>10 DEF Current, RowsAreCurrent, SequentialInv, TenancyInv, RowsAgree
    <3> QED
      BY <1>1, <1>4, <1>10, <3>1 DEF Current, RowsAreCurrent
  <2>2. ASSUME "list" \notin Faults, r.orow # Nil, r.orow.deletedAt = "set",
               organizations[r.org].deletedAt = "null",
               NEW v \in Stored(users'), users'[v].org = r.org
        PROVE  \/ users'[v].deletedAt = "set"
               \/ v \in Stored(r.urows) /\ r.urows[v].deletedAt = "set"
    <3>1. v \in Stored(users) /\ users[v].org = r.org /\ KeepsMarks(users[v], users'[v])
      BY <1>6, <2>2 DEF SameAccount, SameMember
    <3>2. \/ users[v].deletedAt = "set"
          \/ v \in Stored(req[p].urows) /\ req[p].urows[v].deletedAt = "set"
      BY <1>2, <1>4, <1>10, <2>2, <3>1 DEF Current, MembersLeave, GetUsersByOrganizationID
    <3> QED
      BY <1>6, <1>8, <1>10, <3>1, <3>2 DEF KeepsMarks
  <2>3. "list" \notin Faults => MembersLeave(r)'
    BY <1>1, <2>2 DEF MembersLeave, GetUsersByOrganizationID
  <2>4. ASSUME r.op = "UpdatePassword", NEW v \in Stored(users'),
               users'[v].org = r.org, users'[v].email = r.email
        PROVE  \/ users'[v].password = "chosen"
               \/ v \in Stored(r.urows) /\ r.urows[v].password = "chosen"
    <3>1. /\ v \in Stored(users) /\ users[v].org = r.org /\ users[v].email = r.email
          /\ KeepsMarks(users[v], users'[v])
      BY <1>6, <2>4 DEF SameAccount, SameMember
    <3>2. \/ users[v].password = "chosen"
          \/ v \in Stored(req[p].urows) /\ req[p].urows[v].password = "chosen"
      BY <1>2, <1>4, <1>10, <2>4, <3>1 DEF Current, AnswersInTime
    <3> QED
      BY <1>6, <1>8, <1>10, <3>1, <3>2 DEF KeepsMarks
  <2>5. ASSUME r.irow # Nil, r.irow.status = "accepted", NEW v \in Stored(users'),
               SameMember(r.irow, users'[v])
        PROVE  users'[v].password = "chosen"
    <3>1. v \in Stored(users) /\ SameMember(users[v], users'[v]) /\ KeepsMarks(users[v], users'[v])
      BY <1>6, <2>5 DEF SameAccount
    <3>2. SameMember(r.irow, users[v])
      BY <2>5, <3>1 DEF SameMember, Stored
    <3> QED
      BY <1>4, <1>10, <2>5, <3>1, <3>2 DEF Current, AnswersInTime, KeepsMarks
  <2>6. AnswersInTime(r)'
    BY <1>4, <1>10, <2>4, <2>5 DEF Current, AnswersInTime
  <2> QED
    BY <2>1, <2>3, <2>6 DEF Current
<1>11. ASSUME NEW r, Become(p, r), Current(r)'
       PROVE  SequentialInv'
  BY <1>t, <1>9, <1>11, OnlyOneMoves DEF SequentialInv
<1>12. CASE Become(p, [req[p] EXCEPT !.urows = rest(u)])
  <2>1. PICK r : r = [req[p] EXCEPT !.urows = rest(u)]
    OBVIOUS
  <2>2. /\ r.urows = rest(u) /\ r.op = req[p].op /\ r.org = req[p].org /\ r.orow = req[p].orow
        /\ r.email = req[p].email /\ r.irow = req[p].irow /\ r.pc = "saveUsers"
    BY <1>2, <2>1 DEF RequestRecord
  <2>3. Current(r)'
    BY <1>10, <2>2
  <2> QED
    BY <1>11, <1>12, <2>1, <2>3
<1>13. ASSUME NEW pc \in {"saveOrganization", "readPending"}, Stored(rest(u)) = {},
              Become(p, [req[p] EXCEPT !.urows = rest(u), !.pc = pc])
       PROVE  SequentialInv'
  <2>1. PICK r : r = [req[p] EXCEPT !.urows = rest(u), !.pc = pc]
    OBVIOUS
  <2>2. /\ r.urows = rest(u) /\ r.op = req[p].op /\ r.org = req[p].org /\ r.orow = req[p].orow
        /\ r.email = req[p].email /\ r.irow = req[p].irow /\ r.pc = pc
    BY <1>2, <2>1 DEF RequestRecord
  <2>3. Current(r)'
    BY <1>10, <1>13, <2>2
  <2> QED
    BY <1>11, <1>13, <2>1, <2>3
<1>14. CASE Return(p)
  BY <1>11, <1>14, BlankIsPlain, PlainIsCurrent DEF Return
<1> QED
  BY <1>3, <1>12, <1>13, <1>14

LEMMA SaveOrganizationKeepsCurrent ==
  ASSUME OneAtATime, SequentialInv, TenancyInv', NEW p \in Procs, SaveOrganization(p)
  PROVE  SequentialInv'
<1>1. (\A q \in Procs : Current(req[q]))'
  BY BlankIsPlain, PlainIsCurrent, OnlyOneMoves
     DEF SaveOrganization, Return, SequentialInv, TenancyInv
<1> QED
  BY <1>1 DEF SaveOrganization, SequentialInv, AcceptedMeansPasswordSet, SameMember, Stored

LEMMA SequentialInit == Init => SequentialInv
<1> SUFFICES ASSUME Init PROVE SequentialInv
  OBVIOUS
<1>1. \A p \in Procs : Current(req[p])
  BY BlankIsPlain, PlainIsCurrent DEF Init
<1>2. Stored(invitations) = {}
  BY DEF Init, StorageInit, Stored
<1> QED
  BY <1>1, <1>2, TenancyInit DEF SequentialInv, AcceptedMeansPasswordSet

LEMMA SequentialNext ==
  ASSUME OneAtATime
  PROVE  SequentialInv /\ [Next]_vars => SequentialInv'
<1> SUFFICES ASSUME SequentialInv, [Next]_vars PROVE SequentialInv'
  OBVIOUS
<1>t. TenancyInv' /\ KeepsRows
  BY TenancyNext, StepKeepsRows DEF SequentialInv
<1>1. ASSUME NEW p \in Procs, Start(p) PROVE SequentialInv'
  BY <1>t, <1>1, UserReadsKeepCurrent, LeavingKeepsCurrent, PlainMoves, AnswersKeepCurrent,
     InsertsKeepCurrent, InviteKeepsCurrent DEF Start
<1>2. ASSUME NEW p \in Procs, Continue(p) PROVE SequentialInv'
  BY <1>t, <1>2, ReadMembersKeepsCurrent, PlainMoves, AnswersKeepCurrent, InsertsKeepCurrent,
     InviteKeepsCurrent, SaveInvitationKeepsCurrent, SaveUserKeepsCurrent,
     SaveOrganizationKeepsCurrent DEF Continue
<1>3. ASSUME NEW p \in Procs, Abort(p) PROVE SequentialInv'
  BY <1>t, <1>3, PlainMoves
<1>4. CASE Tick \/ UNCHANGED vars
  <2>1. UNCHANGED <<tables, req>>
    BY <1>4 DEF Tick, vars
  <2>2. \A p \in Procs : Current(req[p])'
    BY <2>1 DEF SequentialInv, tables, Current, RowsAreCurrent, MembersLeave, AnswersInTime,
                GetUsersByOrganizationID, Stored
  <2> QED
    BY <1>t, <2>1, <2>2, SameTables DEF SequentialInv
<1> QED
  BY <1>1, <1>2, <1>3, <1>4 DEF Next

\* The inductive invariant.  Besides TenancyInv it says that what a request
\* holds is not older than the tables, that a deletion under way holds every
\* member still to be deleted, and that an acceptance about to be written is on
\* behalf of somebody whose new password is stored.
THEOREM SequentialInvariant ==
  ASSUME OneAtATime
  PROVE  Spec => []SequentialInv
  BY SequentialInit, SequentialNext, PTL DEF Spec

\* Whoever accepted an invitation has replaced the generated password: when
\* UpdatePassword writes the acceptance, its new password is already stored,
\* also when the request or a storage call before it failed.
THEOREM AcceptedHavePasswords ==
  ASSUME OneAtATime
  PROVE  Spec => []AcceptedMeansPasswordSet
<1>1. SequentialInv => AcceptedMeansPasswordSet
  BY DEF SequentialInv
<1> QED
  BY <1>1, SequentialInvariant, PTL

-----------------------------------------------------------------------------
(* What a step may not do *)

\* When DeleteOrganization, or DeleteUser for a manager, writes the deletion of
\* the organization, every member is already deleted, provided the list of
\* members did not fail.
THEOREM DeletionsAreComplete ==
  ASSUME OneAtATime, "list" \notin Faults
  PROVE  Spec => DeletionIsComplete
<1> DEFINE Complete == \A o \in Stored(organizations) :
                          organizations[o].deletedAt = "null" /\ organizations'[o].deletedAt = "set" =>
                             \A u \in Stored(users) : users[u].org = o => users[u].deletedAt = "set"
<1>1. SequentialInv /\ [Next]_vars => [Complete]_vars
  <2> SUFFICES ASSUME SequentialInv, [Next]_vars, NEW o \in Stored(organizations),
                      organizations[o].deletedAt = "null", organizations'[o].deletedAt = "set",
                      NEW u \in Stored(users), users[u].org = o
               PROVE  users[u].deletedAt = "set"
    OBVIOUS
  <2>t. TypeOK /\ o \in OrgId
    BY StoredIs DEF SequentialInv, TenancyInv
  <2>1. PICK p \in Procs : SaveOrganization(p) \/ CreateOrganizationWithUser(p)
    BY <2>t, OnlySavesWrite
  <2>2. CASE SaveOrganization(p)
    <3>1. req[p].pc = "saveOrganization" /\ organizations' = [organizations EXCEPT ![req[p].org] = req[p].orow]
      BY <2>2 DEF SaveOrganization, At, UpdateOrganization
    <3>2. req[p].orow # Nil
      BY <2>t, <3>1 DEF TypeOK, Request, HoldsItsArguments
    <3>3. req[p].org = o /\ req[p].orow.deletedAt = "set"
      BY <2>t, <3>1 DEF TypeOK, StorageTypeOK
    <3>4. Current(req[p])
      BY DEF SequentialInv
    <3> QED
      BY <3>1, <3>2, <3>3, <3>4
         DEF Current, RowsAreCurrent, MembersLeave, GetUsersByOrganizationID
  <2>3. CASE CreateOrganizationWithUser(p)
    BY <2>t, <2>3 DEF CreateOrganizationWithUser, CreateOrganization, IsNextKey, Stored, TypeOK, StorageTypeOK
  <2> QED
    BY <2>1, <2>2, <2>3
<1>2. [][Complete]_vars => DeletionIsComplete
  BY PTL DEF DeletionIsComplete
<1> QED
  BY <1>1, <1>2, SequentialInvariant, PTL DEF Spec

-----------------------------------------------------------------------------
(* The links in the e-mails *)

\* A request that does not renew an invitation writes its link back, and the
\* link in an e-mail about to go out is the one stored.
KeepsLink(r) ==
    (r.pc = "sendMail" \/ (r.pc = "saveInvitation" /\ r.op # "ResendInvitation"))
    => Link(r.irow) = Link(invitations[r.inv])

\* The link mailed last is the one stored, or its successor is on its way.
LinksAreCurrent ==
    \A i \in Stored(invitations) :
       lastMailed[i] # Nil =>
          \/ lastMailed[i] = Link(invitations[i])
          \/ \E p \in Procs : At(p, "sendMail") /\ req[p].inv = i

MailInv == /\ TenancyInv
           /\ \A p \in Procs : KeepsLink(req[p])
           /\ LinksAreCurrent

\* A request that is not at an e-mail moves on, and no link changes.
LEMMA MoveKeepsLinks ==
  ASSUME OneAtATime, MailInv, TenancyInv', UNCHANGED <<invitations, lastMailed>>,
         NEW p \in Procs, NEW r, Become(p, r), ~At(p, "sendMail"), KeepsLink(r)
  PROVE  MailInv'
<1>1. \A q \in Procs : q = p /\ req'[q] = r
  BY DEF OneAtATime, Become, MailInv, TenancyInv, TypeOK
<1>2. (\A q \in Procs : KeepsLink(req[q]))'
  BY <1>1 DEF KeepsLink
<1>3. LinksAreCurrent'
  BY <1>1 DEF MailInv, LinksAreCurrent, Stored
<1> QED
  BY <1>2, <1>3 DEF MailInv

\* The requests that never send an e-mail, and those that have yet to store
\* what they will send.
LEMMA MovesKeepLinks ==
  ASSUME OneAtATime, MailInv, TenancyInv', NEW p \in Procs,
         \/ Start(p) /\ ~InviteUser(p)
         \/ Continue(p) /\ ~InviteNext(p) /\ ~SaveInvitation(p) /\ ~SendMail(p)
  PROVE  MailInv'
<1>t. TypeOK
  BY DEF MailInv, TenancyInv
<1>1. UNCHANGED <<invitations, lastMailed>> /\ ~At(p, "sendMail")
  BY DEF Start, Continue, Starts, At, tables,
         CreateOrganizationWithUser, CreateUserWithPassword, InviteUsers, InviteNextFails,
         ResendInvitation, AcceptInvitation, RejectInvitation, UpdatePassword, ReadPending,
         UpdateProfile, DeleteUser, DeleteOrganization, ReadMembers, SaveUser, SaveOrganization,
         UpdateOrganizationName
<1>2. ASSUME NEW r, Become(p, r), r.pc \notin {"sendMail", "saveInvitation"}
      PROVE  MailInv'
  BY <1>1, <1>2, MoveKeepsLinks DEF KeepsLink
<1>3. ASSUME NEW i \in Stored(invitations), NEW status \in Status, NEW r, Become(p, r), r.pc = "saveInvitation",
             r.inv = i, r.irow = [invitations[i] EXCEPT !.status = status]
      PROVE  MailInv'
  <2>1. invitations[i] \in InvRow
    BY <1>t, StoredType
  <2>2. Link(r.irow) = Link(invitations[r.inv])
    BY <1>3, <2>1 DEF Link, InvRow
  <2> QED
    BY <1>1, <1>3, <2>2, MoveKeepsLinks DEF KeepsLink
<1>4. CASE ResendInvitation(p)
  <2>1. PICK i, t : Become(p, [Blank EXCEPT !.op = "ResendInvitation", !.pc = "saveInvitation",
                                            !.org = invitations[i].org, !.inv = i,
                                            !.irow = Renewed(invitations[i], t)])
    BY <1>4 DEF ResendInvitation
  <2>2. PICK r : /\ r = [Blank EXCEPT !.op = "ResendInvitation", !.pc = "saveInvitation",
                                      !.org = invitations[i].org, !.inv = i,
                                      !.irow = Renewed(invitations[i], t)]
                 /\ Become(p, r)
    BY <2>1
  <2>3. r.op = "ResendInvitation" /\ r.pc = "saveInvitation"
    BY <2>2, BlankFields DEF RequestRecord
  <2> QED
    BY <1>1, <2>2, <2>3, MoveKeepsLinks DEF KeepsLink
<1>5. CASE RejectInvitation(p)
  <2>1. PICK t \in Token : \E i \in GetInvitationByToken(t) :
          Become(p, [Blank EXCEPT !.op = "RejectInvitation", !.pc = "saveInvitation", !.inv = i,
                                  !.irow = [invitations[i] EXCEPT !.status = "rejected"]])
    BY <1>5 DEF RejectInvitation
  <2>2. PICK i \in Stored(invitations) :
          Become(p, [Blank EXCEPT !.op = "RejectInvitation", !.pc = "saveInvitation", !.inv = i,
                                  !.irow = [invitations[i] EXCEPT !.status = "rejected"]])
    BY <2>1 DEF GetInvitationByToken
  <2>3. PICK r : r = [Blank EXCEPT !.op = "RejectInvitation", !.pc = "saveInvitation", !.inv = i,
                                   !.irow = [invitations[i] EXCEPT !.status = "rejected"]]
    OBVIOUS
  <2>4. r.pc = "saveInvitation" /\ r.inv = i /\ r.irow = [invitations[i] EXCEPT !.status = "rejected"]
    BY <2>3, BlankFields DEF RequestRecord
  <2> QED
    BY <1>3, <2>2, <2>3, <2>4 DEF Status
<1>6. CASE ReadPending(p)
  <2>1. CASE Return(p)
    BY <1>2, <2>1, BlankFields DEF Return
  <2>2. ASSUME NEW i \in PendingFor(req[p].org, req[p].email),
               Become(p, [Blank EXCEPT !.op = "UpdatePassword", !.pc = "saveInvitation", !.inv = i,
                                       !.irow = [invitations[i] EXCEPT !.status = "accepted"]])
        PROVE  MailInv'
    <3>1. PICK r : r = [Blank EXCEPT !.op = "UpdatePassword", !.pc = "saveInvitation", !.inv = i,
                                     !.irow = [invitations[i] EXCEPT !.status = "accepted"]]
      OBVIOUS
    <3>2. r.pc = "saveInvitation" /\ r.inv = i /\ r.irow = [invitations[i] EXCEPT !.status = "accepted"]
      BY <3>1, BlankFields DEF RequestRecord
    <3> QED
      BY <1>3, <2>2, <3>1, <3>2 DEF Status, PendingFor, GetInvitationsByOrganizationID
  <2> QED
    BY <1>6, <2>1, <2>2 DEF ReadPending
<1>7. CASE InviteUsers(p) \/ InviteNextFails(p)
  <2>1. PICK o, rest : Become(p, InviteRest(o, rest))
    BY <1>7 DEF InviteUsers, InviteNextFails
  <2>2. PICK r : r = InviteRest(o, rest)
    OBVIOUS
  <2>3. r.pc \in {"idle", "inviteNext"}
    BY <2>2, BlankFields DEF InviteRest, RequestRecord
  <2> QED
    BY <1>2, <2>1, <2>2, <2>3
<1>8. CASE CreateUserWithPassword(p) \/ SaveOrganization(p)
  BY <1>2, <1>8, BlankFields DEF CreateUserWithPassword, SaveOrganization, Return
<1>9. CASE ReadMembers(p) \/ SaveUser(p)
  <2>1. req[p] \in RequestRecord /\ req[p].pc \in {"readMembers", "saveUsers"}
    BY <1>t, <1>9 DEF ReadMembers, SaveUser, At, TypeOK, Request
  <2>2. CASE Return(p)
    BY <1>2, <2>2, BlankFields DEF Return
  <2>3. CASE ReadMembers(p)
    <3>0. PICK pc \in {"saveOrganization", "saveUsers"} : \E rows :
            Become(p, [req[p] EXCEPT !.pc = pc, !.urows = rows])
      BY <2>3 DEF ReadMembers
    <3>1. PICK rows : Become(p, [req[p] EXCEPT !.pc = pc, !.urows = rows])
      BY <3>0
    <3>2. PICK r : r = [req[p] EXCEPT !.pc = pc, !.urows = rows]
      OBVIOUS
    <3>3. r.pc = pc
      BY <2>1, <3>2 DEF RequestRecord
    <3> QED
      BY <1>2, <3>1, <3>2, <3>3
  <2>4. CASE SaveUser(p) /\ ~Return(p)
    <3>1. PICK rows : \/ Become(p, [req[p] EXCEPT !.urows = rows])
                      \/ Become(p, [req[p] EXCEPT !.urows = rows, !.pc = "saveOrganization"])
                      \/ Become(p, [req[p] EXCEPT !.urows = rows, !.pc = "readPending"])
      BY <2>4 DEF SaveUser
    <3>2. PICK r : /\ \/ r = [req[p] EXCEPT !.urows = rows]
                      \/ r = [req[p] EXCEPT !.urows = rows, !.pc = "saveOrganization"]
                      \/ r = [req[p] EXCEPT !.urows = rows, !.pc = "readPending"]
                   /\ Become(p, r)
      BY <3>1
    <3>3. r.pc \in {"readMembers", "saveUsers", "saveOrganization", "readPending"}
      BY <2>1, <3>2 DEF RequestRecord
    <3> QED
      BY <1>2, <3>2, <3>3
  <2> QED
    BY <1>9, <2>2, <2>3, <2>4
<1>10. CASE CreateOrganizationWithUser(p) \/ AcceptInvitation(p)
  <2>1. PICK op, row : Become(p, [Blank EXCEPT !.op = op, !.pc = "createUser", !.newUser = row])
    BY <1>10 DEF CreateOrganizationWithUser, AcceptInvitation
  <2>2. PICK r : r = [Blank EXCEPT !.op = op, !.pc = "createUser", !.newUser = row]
    OBVIOUS
  <2>3. r.pc = "createUser"
    BY <2>2, BlankFields DEF RequestRecord
  <2> QED
    BY <1>2, <2>1, <2>2, <2>3
<1>11. ASSUME NEW op, NEW rows, Become(p, [Blank EXCEPT !.op = op, !.pc = "saveUsers", !.urows = rows])
       PROVE  MailInv'
  <2>1. PICK r : r = [Blank EXCEPT !.op = op, !.pc = "saveUsers", !.urows = rows]
    OBVIOUS
  <2>2. r.pc = "saveUsers"
    BY <2>1, BlankFields DEF RequestRecord
  <2> QED
    BY <1>2, <1>11, <2>1, <2>2
<1>12. CASE UpdatePassword(p)
  <2>1. PICK o, e, rows : Become(p, [Blank EXCEPT !.op = "UpdatePassword", !.pc = "saveUsers",
                                                  !.org = o, !.email = e, !.urows = rows])
    BY <1>12 DEF UpdatePassword
  <2>2. PICK r : r = [Blank EXCEPT !.op = "UpdatePassword", !.pc = "saveUsers",
                                   !.org = o, !.email = e, !.urows = rows]
    OBVIOUS
  <2>3. r.pc = "saveUsers"
    BY <2>2, BlankFields DEF RequestRecord
  <2> QED
    BY <1>2, <2>1, <2>2, <2>3
<1>13. ASSUME NEW op, NEW pc \in {"readMembers", "saveOrganization"}, NEW o, NEW row,
              Become(p, [Blank EXCEPT !.op = op, !.pc = pc, !.org = o, !.orow = row])
       PROVE  MailInv'
  <2>1. PICK r : r = [Blank EXCEPT !.op = op, !.pc = pc, !.org = o, !.orow = row]
    OBVIOUS
  <2>2. r.pc = pc
    BY <2>1, BlankFields DEF RequestRecord
  <2> QED
    BY <1>2, <1>13, <2>1, <2>2
<1>14. CASE UpdateProfile(p)
  BY <1>11, <1>14 DEF UpdateProfile
<1>15. CASE DeleteUser(p)
  BY <1>11, <1>13, <1>15 DEF DeleteUser, StartDeletion
<1>16. CASE DeleteOrganization(p)
  BY <1>13, <1>16 DEF DeleteOrganization, StartDeletion
<1>17. CASE UpdateOrganizationName(p)
  BY <1>13, <1>17 DEF UpdateOrganizationName
<1> QED
  BY <1>4, <1>5, <1>6, <1>7, <1>8, <1>9, <1>10, <1>12, <1>14, <1>15, <1>16, <1>17 DEF Start, Continue

LEMMA InviteKeepsLinks ==
  ASSUME OneAtATime, MailInv, TenancyInv', NEW p \in Procs, InviteUser(p) \/ InviteNext(p)
  PROVE  MailInv'
<1>t. TypeOK /\ TypeOK'
  BY DEF MailInv, TenancyInv
<1> DEFINE R(op, o, e, t, i, rest) ==
             [Blank EXCEPT !.op = op, !.pc = "sendMail", !.org = o, !.inv = i,
                           !.irow = NewInvitation(o, e, t), !.todo = rest]
<1>1. PICK op, o, e, rest : Invite(p, op, o, e, rest)
  BY DEF InviteUser, InviteNext
<1>2. PICK i \in InvId, t \in Token :
        CreateInvitation(i, NewInvitation(o, e, t)) /\ Become(p, R(op, o, e, t, i, rest))
  BY <1>1 DEF Invite
<1>3. PICK r \in Request : r = R(op, o, e, t, i, rest)
  BY <1>t, <1>2 DEF Become, TypeOK
<1>4. r.pc = "sendMail" /\ r.inv = i /\ r.irow = NewInvitation(o, e, t)
  BY <1>3, BlankFields DEF RequestRecord
<1>5. \A q \in Procs : q = p /\ req'[q] = r
  BY <1>t, <1>2, <1>3 DEF OneAtATime, Become, TypeOK
<1>6. ~At(p, "sendMail") /\ UNCHANGED lastMailed
  BY DEF InviteUser, InviteNext, Starts, At
<1>7. /\ invitations'[i] = r.irow
      /\ \A j \in Stored(invitations') : j # i => j \in Stored(invitations) /\ invitations'[j] = invitations[j]
  BY <1>t, <1>2, <1>4 DEF CreateInvitation, TypeOK, StorageTypeOK, Stored
<1>8. (\A q \in Procs : KeepsLink(req[q]))'
  BY <1>4, <1>5, <1>7 DEF KeepsLink
<1>9. ASSUME NEW j \in Stored(invitations'), lastMailed'[j] # Nil
      PROVE  \/ lastMailed'[j] = Link(invitations'[j])
             \/ \E q \in Procs : req'[q].pc = "sendMail" /\ req'[q].inv = j
  <2>1. CASE j = i
    BY <1>4, <1>5, <2>1
  <2>2. CASE j # i
    <3>1. j \in Stored(invitations) /\ invitations'[j] = invitations[j]
      BY <1>7, <2>2
    <3>2. \A q \in Procs : ~At(q, "sendMail")
      BY <1>5, <1>6
    <3> QED
      BY <1>6, <1>9, <3>1, <3>2 DEF MailInv, LinksAreCurrent
  <2> QED
    BY <2>1, <2>2
<1>10. LinksAreCurrent'
  BY <1>9 DEF LinksAreCurrent, At
<1> QED
  BY <1>8, <1>10 DEF MailInv

\* What ResendInvitation stores is what it is about to mail; the other saves
\* write the stored link back.
LEMMA SaveInvitationKeepsLinks ==
  ASSUME OneAtATime, MailInv, TenancyInv', NEW p \in Procs, SaveInvitation(p)
  PROVE  MailInv'
<1>t. TypeOK
  BY DEF MailInv, TenancyInv
<1>1. /\ req[p] \in RequestRecord /\ req[p].pc = "saveInvitation" /\ req[p].irow # Nil
      /\ KeepsLink(req[p])
  BY <1>t DEF SaveInvitation, At, TypeOK, Request, HoldsItsArguments, MailInv
<1>2. PICK r : /\ Become(p, r)
               /\ r = IF req[p].op = "ResendInvitation" THEN [req[p] EXCEPT !.pc = "sendMail"]
                                                        ELSE Blank
  BY DEF SaveInvitation
<1>3. IF req[p].op = "ResendInvitation"
      THEN r.pc = "sendMail" /\ r.inv = req[p].inv /\ r.irow = req[p].irow
      ELSE r.pc = "idle"
  BY <1>1, <1>2, BlankFields DEF RequestRecord
<1>4. \A q \in Procs : q = p /\ req'[q] = r
  BY <1>t, <1>2 DEF OneAtATime, Become, TypeOK
<1>5. req[p].inv \in Stored(invitations)
  BY <1>1 DEF MailInv, TenancyInv, RowsAgree
<1>6. /\ invitations'[req[p].inv] = req[p].irow
      /\ \A j \in Stored(invitations') : j # req[p].inv =>
            j \in Stored(invitations) /\ invitations'[j] = invitations[j]
  BY <1>t, <1>5 DEF SaveInvitation, UpdateInvitation, TypeOK, StorageTypeOK, Stored
<1>7. UNCHANGED lastMailed
  BY DEF SaveInvitation
<1>8. (\A q \in Procs : KeepsLink(req[q]))'
  BY <1>3, <1>4, <1>6 DEF KeepsLink
<1>9. ASSUME NEW j \in Stored(invitations'), lastMailed'[j] # Nil
      PROVE  \/ lastMailed'[j] = Link(invitations'[j])
             \/ \E q \in Procs : req'[q].pc = "sendMail" /\ req'[q].inv = j
  <2>1. \A q \in Procs : ~At(q, "sendMail")
    BY <1>1, <1>4 DEF At
  <2>2. j \in Stored(invitations) => lastMailed[j] = Link(invitations[j])
    BY <1>7, <1>9, <2>1 DEF MailInv, LinksAreCurrent
  <2>3. CASE j # req[p].inv
    BY <1>6, <1>7, <2>2, <2>3
  <2>4. CASE j = req[p].inv /\ req[p].op = "ResendInvitation"
    BY <1>3, <1>4, <2>4
  <2>5. CASE j = req[p].inv /\ req[p].op # "ResendInvitation"
    BY <1>1, <1>5, <1>6, <1>7, <2>2, <2>5 DEF KeepsLink
  <2> QED
    BY <2>3, <2>4, <2>5
<1>10. LinksAreCurrent'
  BY <1>9 DEF LinksAreCurrent, At
<1> QED
  BY <1>8, <1>10 DEF MailInv

LEMMA SendMailKeepsLinks ==
  ASSUME OneAtATime, "mail" \notin Faults, MailInv, TenancyInv', NEW p \in Procs, SendMail(p)
  PROVE  MailInv'
<1>t. TypeOK
  BY DEF MailInv, TenancyInv
<1>1. /\ req[p].pc = "sendMail" /\ req[p].inv \in InvId
      /\ UNCHANGED invitations
      /\ lastMailed' = [lastMailed EXCEPT ![req[p].inv] = Link(req[p].irow)]
  BY <1>t, SendArguments DEF SendMail, At, Link, tables
<1>2. PICK r : Become(p, r) /\ r = InviteRest(req[p].org, req[p].todo)
  BY DEF SendMail
<1>3. r.pc \in {"idle", "inviteNext"}
  BY <1>2, BlankFields DEF InviteRest, RequestRecord
<1>4. \A q \in Procs : q = p /\ req'[q] = r
  BY <1>t, <1>2 DEF OneAtATime, Become, TypeOK
<1>5. (\A q \in Procs : KeepsLink(req[q]))'
  BY <1>3, <1>4 DEF KeepsLink
<1>6. ASSUME NEW i \in Stored(invitations), lastMailed'[i] # Nil
      PROVE  lastMailed'[i] = Link(invitations[i])
  <2>1. Link(req[p].irow) = Link(invitations[req[p].inv])
    BY <1>1 DEF MailInv, KeepsLink
  <2>2. CASE i = req[p].inv
    BY <1>t, <1>1, <2>1, <2>2 DEF TypeOK
  <2>3. CASE i # req[p].inv
    <3>1. lastMailed'[i] = lastMailed[i]
      BY <1>t, <1>1, <2>3 DEF TypeOK
    <3> QED
      BY <1>4, <1>6, <2>3, <3>1 DEF MailInv, LinksAreCurrent
  <2> QED
    BY <2>2, <2>3
<1>7. LinksAreCurrent'
  BY <1>1, <1>6 DEF LinksAreCurrent, Stored
<1> QED
  BY <1>5, <1>7 DEF MailInv

LEMMA MailInit == Init => MailInv
<1> SUFFICES ASSUME Init PROVE MailInv
  OBVIOUS
<1>1. \A p \in Procs : KeepsLink(req[p])
  BY BlankFields DEF Init, KeepsLink
<1>2. Stored(invitations) = {}
  BY DEF Init, StorageInit, Stored
<1> QED
  BY <1>1, <1>2, TenancyInit DEF MailInv, LinksAreCurrent

LEMMA MailNext ==
  ASSUME OneAtATime, Faults \cap {"mail", "abort"} = {}
  PROVE  MailInv /\ [Next]_vars => MailInv'
<1> SUFFICES ASSUME MailInv, [Next]_vars PROVE MailInv'
  OBVIOUS
<1>t. TenancyInv'
  BY TenancyNext DEF MailInv
<1>1. ASSUME NEW p \in Procs, Start(p) PROVE MailInv'
  BY <1>t, <1>1, MovesKeepLinks, InviteKeepsLinks
<1>2. ASSUME NEW p \in Procs, Continue(p) PROVE MailInv'
  BY <1>t, <1>2, MovesKeepLinks, InviteKeepsLinks, SaveInvitationKeepsLinks, SendMailKeepsLinks
<1>3. ASSUME NEW p \in Procs, Abort(p) PROVE FALSE
  BY <1>3 DEF Abort
<1>4. CASE Tick \/ UNCHANGED vars
  <2>1. UNCHANGED <<invitations, lastMailed, req>>
    BY <1>4 DEF Tick, vars, tables
  <2> QED
    BY <1>t, <2>1 DEF MailInv, KeepsLink, LinksAreCurrent, At, Stored
<1> QED
  BY <1>1, <1>2, <1>3, <1>4 DEF Next

\* The link mailed last for a pending invitation opens it until that e-mail's
\* expiry: ResendInvitation replaces the stored token before it mails the new
\* one, and RejectInvitation and UpdatePassword write back the token they read.
THEOREM MailedLinksStayLive ==
  ASSUME OneAtATime, Faults \cap {"mail", "abort"} = {}
  PROVE  Spec => []MailedLinkIsLive
<1>1. MailInv => MailedLinkIsLive
  <2> SUFFICES ASSUME MailInv, Quiet, NEW i \in Stored(invitations),
                      invitations[i].status = "pending", lastMailed[i] # Nil,
                      now <= lastMailed[i].expiresAt
               PROVE  ValidateInvitationTokenAndGetRedirectURL(lastMailed[i].token)
    BY DEF MailedLinkIsLive
  <2>1. lastMailed[i] = Link(invitations[i])
    BY DEF MailInv, LinksAreCurrent, Quiet, At
  <2>2. lastMailed[i].token = invitations[i].token /\ lastMailed[i].expiresAt = invitations[i].expiresAt
    BY <2>1 DEF Link
  <2>3. i \in GetInvitationByToken(lastMailed[i].token)
    BY <2>2 DEF GetInvitationByToken
  <2>4. now \in Int /\ invitations[i].expiresAt \in Int
    BY StoredType, ConfigAssumption DEF MailInv, TenancyInv, TypeOK, InvRow
  <2>5. IsAcceptable(invitations[i])
    BY <2>2, <2>4 DEF IsAcceptable, IsExpired
  <2> QED
    BY <2>3, <2>5 DEF ValidateInvitationTokenAndGetRedirectURL
<1> QED
  BY <1>1, MailInit, MailNext, PTL DEF Spec
=============================================================================
