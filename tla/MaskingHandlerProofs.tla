------------------------ MODULE MaskingHandlerProofs ------------------------
(***************************************************************************)
(* Theorems about MaskingHandler: with a deletion handler that changes     *)
(* addresses and deletes rows for good, addresses stay unique and an       *)
(* account stays whose it was.                                             *)
(*                                                                         *)
(* TenancyInv is lost here, for the row a request holds may have another   *)
(* address than the one stored by now.  What is left of it compares both   *)
(* rows with the one the user was inserted with, which nothing changes.    *)
(***************************************************************************)
EXTENDS MaskingHandler, ManagerProofs

\* A row is the user's who was inserted as u.
StaysWho(u, row) ==
    /\ row.org = joinedAs[u].org /\ row.role = joinedAs[u].role
    /\ row.email \in {joinedAs[u].email, Mask}

\* So are the rows that a request will save.
HeldStaysWho(r) == \A u \in Stored(r.urows) : u \in Stored(users) /\ StaysWho(u, r.urows[u])

IdentityInv ==
    /\ joinedAs \in [UserId -> UserRow \cup {Nil}]
    /\ Stored(joinedAs) = Stored(users)
    /\ AccountKeepsIdentity
    /\ \A p \in Procs : HeldStaysWho(req[p])

MaskingInv == TypeOK /\ IdentityInv /\ OneAccountPerEmail

-----------------------------------------------------------------------------
(* What a step does to MaskingInv *)

\* A request moves on, and no user's row changes.
LEMMA MoveKeeps ==
  ASSUME MaskingInv, TypeOK', UNCHANGED <<users, joinedAs>>,
         NEW p \in Procs, NEW r, Become(p, r), HeldRows(req[p], r)
  PROVE  MaskingInv'
<1>1. ASSUME NEW u \in Stored(users), NEW row, SameAccount(users[u], row) PROVE StaysWho(u, row)
  BY <1>1 DEF MaskingInv, IdentityInv, AccountKeepsIdentity, StaysWho, SameAccount, SameMember
<1>2. HeldStaysWho(req[p])
  BY DEF MaskingInv, IdentityInv
<1>3. HeldStaysWho(r)
  BY <1>1, <1>2 DEF HeldStaysWho, HeldRows
<1>4. \A q \in Procs : req'[q] = req[q] \/ req'[q] = r
  BY DEF Become, MaskingInv, TypeOK
<1>5. \A q \in Procs : HeldStaysWho(req[q])
  BY DEF MaskingInv, IdentityInv
<1>6. \A q \in Procs : HeldStaysWho(req'[q])
  BY <1>3, <1>4, <1>5
<1>7. \A q \in Procs : HeldStaysWho(req[q])'
  BY <1>6 DEF HeldStaysWho, StaysWho
<1>8. AccountKeepsIdentity' /\ OneAccountPerEmail'
  BY DEF MaskingInv, IdentityInv, AccountKeepsIdentity, OneAccountPerEmail
<1> QED
  BY <1>7, <1>8 DEF MaskingInv, IdentityInv

\* A request saves the row of a user, who has the address alone.
LEMMA SaveKeeps ==
  ASSUME MaskingInv, TypeOK', UNCHANGED joinedAs, NEW u \in Stored(users), NEW row \in UserRow,
         users' = [users EXCEPT ![u] = row],
         row = users[u] \/ ~TakenByAnother(u, row), StaysWho(u, row),
         NEW p \in Procs, NEW r, Become(p, r), HeldRows(req[p], r)
  PROVE  MaskingInv'
<1>t. TypeOK /\ OneAccountPerEmail /\ AccountKeepsIdentity /\ Stored(joinedAs) = Stored(users)
  BY DEF MaskingInv, IdentityInv
<1>1. /\ Stored(users) = {v \in UserId : users[v] # Nil}
      /\ Stored(users)' = {v \in UserId : users'[v] # Nil}
      /\ u \in UserId /\ users[u] # Nil
  BY <1>t, StoredIs DEF TypeOK, StorageTypeOK, Stored
<1>2. users'[u] = row /\ \A v \in UserId \ {u} : users'[v] = users[v]
  BY <1>t, <1>1 DEF TypeOK, StorageTypeOK
<1>3. Stored(users)' = Stored(users)
  BY <1>1, <1>2, NilIsNoRow
<1>4. ASSUME NEW v \in Stored(users), NEW new, SameAccount(users[v], new) PROVE StaysWho(v, new)
  BY <1>t, <1>4 DEF AccountKeepsIdentity, StaysWho, SameAccount, SameMember
<1>5. HeldStaysWho(r)
  <2>1. HeldStaysWho(req[p])
    BY DEF MaskingInv, IdentityInv
  <2> QED
    BY <1>4, <2>1 DEF HeldStaysWho, HeldRows
<1>6. \A q \in Procs : req'[q] = req[q] \/ req'[q] = r
  BY <1>t DEF Become, TypeOK
<1>7. \A q \in Procs : HeldStaysWho(req'[q])
  <2>1. \A q \in Procs : HeldStaysWho(req[q])
    BY DEF MaskingInv, IdentityInv
  <2> QED
    BY <1>5, <1>6, <2>1
<1>8. \A q \in Procs : HeldStaysWho(req[q])'
  BY <1>3, <1>7 DEF HeldStaysWho, StaysWho
<1>9. AccountKeepsIdentity'
  BY <1>t, <1>1, <1>2, <1>3 DEF AccountKeepsIdentity, StaysWho
<1>10. OneAccountPerEmail'
  <2>1. \A v \in Stored(users) \ {u} : users[v].email # row.email
    BY <1>t DEF OneAccountPerEmail, TakenByAnother
  <2> QED
    BY <1>t, <1>1, <1>2, <1>3, <2>1 DEF OneAccountPerEmail
<1>11. Stored(joinedAs)' = Stored(users)' /\ (joinedAs \in [UserId -> UserRow \cup {Nil}])'
  BY <1>3 DEF MaskingInv, IdentityInv
<1> QED
  BY <1>8, <1>9, <1>10, <1>11 DEF MaskingInv, IdentityInv

-----------------------------------------------------------------------------
(* The steps *)

\* CustomDeletionHandler.DeleteUser leaves its request with members left to
\* mask, with the organization to delete, or done.
LEMMA MaskUserMoves ==
  ASSUME TypeOK, NEW p \in Procs, MaskUser(p)
  PROVE  \E u \in UserId, r \in Request :
            /\ u \in Stored(req[p].urows) /\ req[p].urows[u] \in UserRow
            /\ ~TakenByAnother(u, Masked(req[p].urows[u]))
            /\ users' = [users EXCEPT ![u] = Masked(req[p].urows[u])]
            /\ Become(p, r) /\ HeldRows(req[p], r)
<1>1. /\ req[p] \in RequestRecord /\ HoldsItsArguments(req[p])
      /\ req[p].pc = "saveUsers" /\ Deletes(req[p])
  BY DEF MaskUser, At, TypeOK, Request
<1> DEFINE rest(u) == Saved(req[p].urows, u)
<1>2. PICK u \in Stored(req[p].urows) :
        /\ ~TakenByAnother(u, RowToSave(req[p], u))
        /\ UpdateUser(u, RowToSave(req[p], u))
        /\ Become(p, IF Stored(rest(u)) # {} THEN [req[p] EXCEPT !.urows = rest(u)]
                     ELSE IF req[p].orow # Nil
                     THEN [req[p] EXCEPT !.urows = rest(u), !.pc = "saveOrganization"]
                     ELSE Blank)
  BY DEF MaskUser
<1>3. req[p].urows \in [UserId -> UserRow \cup {Nil}]
  BY <1>1 DEF RequestRecord
<1>4. u \in UserId /\ req[p].urows[u] \in UserRow
  BY <1>3 DEF Stored
<1>5. RowToSave(req[p], u) = Masked(req[p].urows[u])
  BY <1>1 DEF RowToSave
<1>6. rest(u) \in [UserId -> UserRow \cup {Nil}] /\ Stored(rest(u)) = {v \in UserId : rest(u)[v] # Nil}
  BY <1>3 DEF Saved, Stored
<1> DEFINE Goal(r) == r \in Request /\ HeldRows(req[p], r)
<1>7. \E r : Become(p, r) /\ Goal(r)
  <2>1. CASE Stored(rest(u)) # {}
    <3>1. PICK r : Become(p, r) /\ r = [req[p] EXCEPT !.urows = rest(u)]
      BY <1>2, <2>1
    <3>2. /\ r \in RequestRecord /\ r.pc = "saveUsers" /\ r.urows = rest(u)
          /\ r.op = req[p].op /\ r.org = req[p].org /\ r.orow = req[p].orow /\ r.todo = req[p].todo
      BY <1>1, <1>6, <3>1 DEF RequestRecord
    <3>3. \E v \in UserId : r.urows[v] # Nil
      BY <1>6, <2>1, <3>2
    <3>4. r \in Request
      <4> HIDE DEF rest
      <4> QED
        BY <1>1, <3>2, <3>3 DEF Request, HoldsItsArguments, Deletes
    <3>5. HeldRows(req[p], r)
      BY <1>1, <1>4, <3>2, RestHeld
    <3> QED
      BY <3>1, <3>4, <3>5
  <2>2. CASE Stored(rest(u)) = {} /\ req[p].orow # Nil
    <3>1. PICK r : Become(p, r) /\ r = [req[p] EXCEPT !.urows = rest(u), !.pc = "saveOrganization"]
      BY <1>2, <2>2
    <3>2. /\ r \in RequestRecord /\ r.pc = "saveOrganization" /\ r.urows = rest(u)
          /\ r.op = req[p].op /\ r.org = req[p].org /\ r.orow = req[p].orow /\ r.todo = req[p].todo
      BY <1>1, <1>6, <3>1 DEF RequestRecord, Pc
    <3>3. r \in Request
      <4> HIDE DEF rest
      <4> QED
        BY <1>1, <2>2, <3>2 DEF Request, HoldsItsArguments, Deletes
    <3>4. HeldRows(req[p], r)
      BY <1>1, <1>4, <3>2, RestHeld
    <3> QED
      BY <3>1, <3>3, <3>4
  <2>3. CASE Stored(rest(u)) = {} /\ req[p].orow = Nil
    <3>1. Become(p, Blank)
      BY <1>2, <2>3
    <3> QED
      BY <3>1, BlankType, BlankFields, NoRowsHeld
  <2> QED
    BY <2>1, <2>2, <2>3
<1>8. /\ ~TakenByAnother(u, Masked(req[p].urows[u]))
      /\ users' = [users EXCEPT ![u] = Masked(req[p].urows[u])]
  BY <1>2, <1>5 DEF UpdateUser
<1> QED
  BY <1>2, <1>4, <1>7, <1>8

LEMMA MaskUserKeeps ==
  ASSUME MaskingInv, NEW p \in Procs, MaskUser(p)
  PROVE  MaskingInv'
<1>t. TypeOK /\ HeldStaysWho(req[p])
  BY DEF MaskingInv, IdentityInv
<1>1. PICK u \in UserId, r \in Request :
        /\ u \in Stored(req[p].urows) /\ req[p].urows[u] \in UserRow
        /\ ~TakenByAnother(u, Masked(req[p].urows[u]))
        /\ users' = [users EXCEPT ![u] = Masked(req[p].urows[u])]
        /\ Become(p, r) /\ HeldRows(req[p], r)
  BY <1>t, MaskUserMoves
<1>2. u \in Stored(users) /\ StaysWho(u, req[p].urows[u])
  BY <1>1, <1>t DEF HeldStaysWho
<1>3. PICK row : row = Masked(req[p].urows[u])
  OBVIOUS
<1>4. /\ row \in UserRow /\ row.email = Mask
      /\ row.org = req[p].urows[u].org /\ row.role = req[p].urows[u].role
  BY <1>1, <1>3, MaskAssumption DEF Masked, UserRow, Time
<1>5. StaysWho(u, row)
  BY <1>2, <1>4 DEF StaysWho
<1>6. TypeOK'
  <2>1. users' \in [UserId -> UserRow \cup {Nil}]
    BY <1>1, <1>3, <1>4, <1>t DEF TypeOK, StorageTypeOK
  <2>2. req' \in [Procs -> Request]
    BY <1>1, <1>t, BecomeType
  <2>3. UNCHANGED <<organizations, invitations, now, issuedTo, lastMailed>>
    BY DEF MaskUser
  <2> QED
    BY <1>t, <2>1, <2>2, <2>3 DEF TypeOK, StorageTypeOK
<1>7. UNCHANGED joinedAs
  BY DEF MaskUser
<1>8. users' = [users EXCEPT ![u] = row] /\ ~TakenByAnother(u, row)
  BY <1>1, <1>3
<1> QED
  BY <1>1, <1>2, <1>4, <1>5, <1>6, <1>7, <1>8, SaveKeeps

\* UpdateUser by Manager: the row held goes back, or changes nothing.
LEMMA SaveUserKeeps ==
  ASSUME MaskingInv, NEW p \in Procs, SaveUserIfUnique(p)
  PROVE  MaskingInv'
<1>t. TypeOK /\ HeldStaysWho(req[p])
  BY DEF MaskingInv, IdentityInv
<1>0. TypeOK'
  BY <1>t, TypeNext DEF SaveUserIfUnique, Next, Continue
<1>r. req[p] \in RequestRecord
  BY <1>t DEF TypeOK, Request
<1>1. PICK u \in Stored(req[p].urows) :
        LET rest == Saved(req[p].urows, u)
        IN  /\ UpdateUser(u, req[p].urows[u])
            /\ \/ Become(p, [req[p] EXCEPT !.urows = rest])
               \/ Become(p, [req[p] EXCEPT !.urows = rest, !.pc = "saveOrganization"])
               \/ Become(p, [req[p] EXCEPT !.urows = rest, !.pc = "readPending"])
               \/ Return(p)
  BY DEF SaveUserIfUnique, SaveUser
<1>2. u \in UserId /\ req[p].urows[u] \in UserRow
  BY <1>r DEF RequestRecord, Stored
<1>3. u \in Stored(users) /\ StaysWho(u, req[p].urows[u])
  BY <1>t DEF HeldStaysWho
<1>4. \E r : Become(p, r) /\ HeldRows(req[p], r)
  <2> DEFINE rest == Saved(req[p].urows, u)
  <2>0. rest \in [UserId -> UserRow \cup {Nil}]
    BY <1>r DEF RequestRecord, Saved
  <2>1. ASSUME NEW r, Become(p, r), r.urows = rest PROVE \E s : Become(p, s) /\ HeldRows(req[p], s)
    BY <1>2, <1>r, <2>1, RestHeld
  <2>2. CASE Become(p, [req[p] EXCEPT !.urows = rest])
    <3>1. [req[p] EXCEPT !.urows = rest].urows = rest
      BY <1>r DEF RequestRecord
    <3> QED
      BY <2>1, <2>2, <3>1
  <2>3. ASSUME NEW pc, Become(p, [req[p] EXCEPT !.urows = rest, !.pc = pc])
        PROVE  \E s : Become(p, s) /\ HeldRows(req[p], s)
    <3>1. [req[p] EXCEPT !.urows = rest, !.pc = pc].urows = rest
      BY <1>r DEF RequestRecord
    <3> QED
      BY <2>1, <2>3, <3>1
  <2>4. CASE Return(p)
    BY <2>4, BlankFields, NoRowsHeld DEF Return
  <2> QED
    BY <1>1, <2>2, <2>3, <2>4
<1>5. PICK row : row = req[p].urows[u]
  OBVIOUS
<1>6. users' = [users EXCEPT ![u] = row]
  BY <1>1, <1>5 DEF UpdateUser
<1>7. row = users[u] \/ ~TakenByAnother(u, row)
  <2>1. users'[u] = row
    BY <1>2, <1>6, <1>t DEF TypeOK, StorageTypeOK
  <2>2. \A v \in UserId : users'[v] # users[v] => ~TakenByAnother(v, users'[v])
    BY DEF SaveUserIfUnique
  <2> QED
    BY <1>2, <2>1, <2>2
<1>8. UNCHANGED joinedAs
  BY DEF SaveUserIfUnique
<1> QED
  BY <1>0, <1>2, <1>3, <1>4, <1>5, <1>6, <1>7, <1>8, SaveKeeps

\* A user is inserted, and history notes the row.
LEMMA NewUserKeeps ==
  ASSUME MaskingInv, NEW p \in Procs, CreateUserWithPassword(p),
         joinedAs' = [u \in UserId |-> IF users[u] = Nil THEN users'[u] ELSE joinedAs[u]]
  PROVE  MaskingInv'
<1>t. /\ TypeOK /\ OneAccountPerEmail /\ AccountKeepsIdentity /\ Stored(joinedAs) = Stored(users)
      /\ joinedAs \in [UserId -> UserRow \cup {Nil}] /\ \A q \in Procs : HeldStaysWho(req[q])
  BY DEF MaskingInv, IdentityInv
<1>0. TypeOK'
  BY <1>t, TypeNext DEF Next, Continue
<1>1. /\ Stored(users) = {v \in UserId : users[v] # Nil}
      /\ Stored(users)' = {v \in UserId : users'[v] # Nil}
      /\ Stored(joinedAs) = {v \in UserId : joinedAs[v] # Nil}
      /\ Stored(joinedAs)' = {v \in UserId : joinedAs'[v] # Nil}
  BY <1>t, <1>0 DEF TypeOK, StorageTypeOK, Stored
<1>2. UNCHANGED users \/ \E u \in UserId : CreateUser(u, req[p].newUser)
  BY DEF CreateUserWithPassword
<1>3. \A v \in Stored(users) : users'[v] = users[v] /\ joinedAs'[v] = joinedAs[v]
  BY <1>2, <1>1, <1>t DEF CreateUser, IsNextKey, TypeOK, StorageTypeOK
<1>4. \A v \in UserId : v \notin Stored(users) => joinedAs'[v] = users'[v]
  BY <1>1
<1>5. joinedAs' \in [UserId -> UserRow \cup {Nil}]
  <2>1. users' \in [UserId -> UserRow \cup {Nil}]
    BY <1>0 DEF TypeOK, StorageTypeOK
  <2> QED
    BY <1>t, <2>1
<1>6. Stored(joinedAs)' = Stored(users)'
  BY <1>1, <1>3, <1>4, <1>t
<1>7. AccountKeepsIdentity'
  BY <1>1, <1>3, <1>4, <1>t DEF AccountKeepsIdentity
<1>8. \A q \in Procs : HeldStaysWho(req[q])'
  <2>1. req' = [req EXCEPT ![p] = Blank]
    BY DEF CreateUserWithPassword, Return, Become
  <2>2. Stored(Blank.urows) = {}
    BY BlankFields DEF NoUsers, Stored
  <2>3. ASSUME NEW q \in Procs, NEW v \in Stored(req'[q].urows)
        PROVE  req'[q] = req[q] /\ v \in Stored(req[q].urows)
    BY <1>t, <2>1, <2>2, <2>3 DEF TypeOK
  <2>4. \A v \in Stored(users) : v \in Stored(users)' /\ joinedAs'[v] = joinedAs[v]
    BY <1>1, <1>3
  <2>5. ASSUME NEW q \in Procs, NEW v \in Stored(req'[q].urows)
        PROVE  v \in Stored(users) /\ StaysWho(v, req'[q].urows[v])
    <3>1. HeldStaysWho(req[q])
      BY <1>t
    <3> QED
      BY <2>3, <3>1 DEF HeldStaysWho
  <2>6. ASSUME NEW q \in Procs PROVE HeldStaysWho(req[q])'
    <3>1. \A v \in Stored(req'[q].urows) :
             /\ v \in Stored(users)'
             /\ req'[q].urows[v].org = joinedAs'[v].org /\ req'[q].urows[v].role = joinedAs'[v].role
             /\ req'[q].urows[v].email \in {joinedAs'[v].email, Mask}
      BY <2>4, <2>5 DEF StaysWho
    <3> QED
      BY <3>1 DEF HeldStaysWho, StaysWho
  <2> QED
    BY <2>6
<1>9. OneAccountPerEmail'
  <2>1. CASE UNCHANGED users
    BY <1>t, <2>1 DEF OneAccountPerEmail
  <2>2. CASE \E u \in UserId : CreateUser(u, req[p].newUser)
    <3>1. PICK u \in UserId : CreateUser(u, req[p].newUser)
      BY <2>2
    <3>2. users'[u] = req[p].newUser /\ \A v \in UserId \ {u} : users'[v] = users[v]
      BY <3>1, <1>t DEF CreateUser, TypeOK, StorageTypeOK
    <3>3. \A v \in Stored(users) : users[v].email # req[p].newUser.email
      BY <3>1 DEF CreateUser, EmailTaken
    <3> QED
      BY <1>t, <1>1, <3>2, <3>3 DEF OneAccountPerEmail
  <2> QED
    BY <1>2, <2>1, <2>2
<1> QED
  BY <1>0, <1>5, <1>6, <1>7, <1>8, <1>9 DEF MaskingInv, IdentityInv

LEMMA MaskingStart == MaskingInit => MaskingInv
<1> SUFFICES ASSUME MaskingInit PROVE MaskingInv
  OBVIOUS
<1>1. TypeOK
  BY TypeInit DEF MaskingInit
<1>2. Stored(users) = {} /\ Stored(joinedAs) = {} /\ joinedAs \in [UserId -> UserRow \cup {Nil}]
  BY DEF MaskingInit, Init, StorageInit, Stored
<1>3. \A p \in Procs : HeldStaysWho(req[p])
  <2>1. Stored(Blank.urows) = {}
    BY BlankFields DEF NoUsers, Stored
  <2> QED
    BY <2>1 DEF MaskingInit, Init, HeldStaysWho
<1> QED
  BY <1>1, <1>2, <1>3 DEF MaskingInv, IdentityInv, AccountKeepsIdentity, OneAccountPerEmail

\* The steps of Manager that leave the users' table alone.
LEMMA ManagerMoveKeeps ==
  ASSUME MaskingInv, UNCHANGED joinedAs, NEW p \in Procs,
         \/ Start(p) \/ InviteNext(p) \/ InviteNextFails(p) \/ SendMail(p) \/ SaveInvitation(p)
         \/ ReadPending(p) \/ ReadMembers(p) \/ SaveOrganization(p) \/ Abort(p)
  PROVE  MaskingInv'
<1>1. TypeOK
  BY DEF MaskingInv
<1>2. TypeOK'
  BY <1>1, TypeNext DEF Next, Continue
<1>3. UNCHANGED users
  BY DEF Start, InviteNext, InviteNextFails, Invite, SendMail, SaveInvitation, ReadPending, ReadMembers, SaveOrganization, Abort,
         CreateOrganizationWithUser, InviteUser, InviteUsers, AcceptInvitation, RejectInvitation,
         ResendInvitation, UpdatePassword, UpdateProfile, DeleteUser, DeleteOrganization,
         UpdateOrganizationName, tables
<1>4. \E r : Become(p, r) /\ HeldRows(req[p], r)
  BY <1>1, EveryMove DEF Continue
<1> QED
  BY <1>2, <1>3, <1>4, MoveKeeps

\* The error of a refused save, and the deletion of an organization for good.
LEMMA ReturnKeeps ==
  ASSUME MaskingInv, UNCHANGED joinedAs, NEW p \in Procs, Return(p),
         UNCHANGED <<tables, now, issuedTo, lastMailed>>
  PROVE  MaskingInv'
<1>1. TypeOK /\ Become(p, Blank) /\ UNCHANGED users
  BY DEF MaskingInv, Return, tables
<1>2. TypeOK'
  BY <1>1, BlankType, MoveType
<1>3. HeldRows(req[p], Blank)
  BY BlankFields, NoRowsHeld
<1> QED
  BY <1>1, <1>2, <1>3, MoveKeeps

LEMMA MaskingStep == MaskingInv /\ [MaskingNext]_maskingVars => MaskingInv'
<1> SUFFICES ASSUME MaskingInv, [MaskingNext]_maskingVars PROVE MaskingInv'
  OBVIOUS
<1>1. ASSUME NEW p \in Procs, Start(p), UNCHANGED joinedAs PROVE MaskingInv'
  BY <1>1, ManagerMoveKeeps
<1>2. ASSUME NEW p \in Procs, CreateUserWithPassword(p),
             joinedAs' = [u \in UserId |-> IF users[u] = Nil THEN users'[u] ELSE joinedAs[u]]
      PROVE  MaskingInv'
  BY <1>2, NewUserKeeps
<1>3. ASSUME NEW p \in Procs, UNCHANGED joinedAs,
             \/ InviteNext(p) \/ InviteNextFails(p) \/ SendMail(p)
             \/ SaveInvitation(p) \/ ReadPending(p) \/ ReadMembers(p) \/ Abort(p)
      PROVE  MaskingInv'
  BY <1>3, ManagerMoveKeeps
<1>4. ASSUME NEW p \in Procs, SaveUserIfUnique(p) PROVE MaskingInv'
  BY <1>4, SaveUserKeeps
<1>5. ASSUME NEW p \in Procs, MaskUser(p) PROVE MaskingInv'
  BY <1>5, MaskUserKeeps
<1>6. ASSUME NEW p \in Procs, SaveRefused(p) PROVE MaskingInv'
  BY <1>6, ReturnKeeps DEF SaveRefused
<1>7. ASSUME NEW p \in Procs, EraseOrganization(p) PROVE MaskingInv'
  BY <1>7, ReturnKeeps DEF EraseOrganization
<1>8. ASSUME NEW p \in Procs, SaveOrInsertOrganization(p) PROVE MaskingInv'
  BY <1>8, ManagerMoveKeeps DEF SaveOrInsertOrganization
<1>9. ASSUME UNCHANGED maskingVars \/ (Tick /\ UNCHANGED joinedAs) PROVE MaskingInv'
  <2>1. UNCHANGED <<users, joinedAs, req>>
    BY <1>9 DEF maskingVars, vars, tables, Tick
  <2>2. TypeOK /\ IdentityInv /\ OneAccountPerEmail
    BY DEF MaskingInv
  <2>3. TypeOK'
    BY <1>9, <2>2, TypeNext DEF maskingVars, Next
  <2>4. OneAccountPerEmail'
    BY <2>1, <2>2 DEF OneAccountPerEmail
  <2>5. IdentityInv'
    BY <2>1, <2>2 DEF IdentityInv, AccountKeepsIdentity, HeldStaysWho, StaysWho
  <2> QED
    BY <2>3, <2>4, <2>5 DEF MaskingInv
<1> QED
  BY <1>1, <1>2, <1>3, <1>4, <1>5, <1>6, <1>7, <1>8, <1>9 DEF MaskingNext

-----------------------------------------------------------------------------
(* The theorems *)

\* Whatever the handler masks and whatever requests save late, the tables keep
\* their types, a request holds the rows only of users it may save, and both
\* stored and held rows name the member first inserted.
THEOREM MaskingInvariant == MaskingSpec => []MaskingInv
<1> QED
  BY MaskingStart, MaskingStep, PTL DEF MaskingSpec

\* A freed address may be invited again, to any organization, while requests of
\* its old user still hold it: an account stays in the organization and role it
\* was inserted with, at its own address or at the one CustomDeletionHandler
\* gives to everybody who leaves.
THEOREM AccountsKeepIdentity == MaskingSpec => []AccountKeepsIdentity
<1>1. MaskingInv => AccountKeepsIdentity
  BY DEF MaskingInv, IdentityInv
<1> QED
  BY <1>1, MaskingInvariant, PTL
=============================================================================
