------------------------- MODULE LocalManagerProofs -------------------------
(***************************************************************************)
(* Theorems about LocalManager: the two maps of invitations agree, a link  *)
(* opens the invitation it was made for, for ever, and the one mailed last *)
(* until the mail says it expires; and Tenancy is implemented, although an *)
(* address may have several accounts.                                      *)
(***************************************************************************)
EXTENDS LocalManager, TLAPS

\* Pointers lead to allocated invitations, each with its own id, which was
\* given out by the counter; a token in the map was issued.
PointersAreGood ==
    /\ \A t \in Stored(invitations) : heap[invitations[t]] # Nil
    /\ \A i \in Stored(invitationsByID) : heap[invitationsByID[i]] # Nil
    /\ \A a \in Stored(heap) : heap[a].id < nextInvID

LinkInv == TypeOK /\ PointersAreGood /\ IndexesAgree /\ LinkOpensItsInvitation

-----------------------------------------------------------------------------
LEMMA LinkInit == Init => LinkInv
<1> SUFFICES ASSUME Init PROVE LinkInv
  OBVIOUS
<1> USE DEF Init, StorageInit
<1>1. StorageTypeOK
  BY DEF StorageTypeOK
<1>2. TypeOK
  BY <1>1, LocalConfigAssumption DEF TypeOK
<1>3. PointersAreGood /\ IndexesAgree /\ LinkOpensItsInvitation
  BY DEF PointersAreGood, IndexesAgree, LinkOpensItsInvitation, Stored
<1> QED
  BY <1>2, <1>3 DEF LinkInv

\* What the invariant says of one entry of each map.
LEMMA LinkFacts ==
  ASSUME LinkInv
  PROVE  /\ \A t \in Token : invitations[t] # Nil =>
               /\ invitations[t] \in Addr /\ heap[invitations[t]] \in Object
               /\ heap[invitations[t]].id = issuedTo[t]
               /\ invitationsByID[heap[invitations[t]].id] \in {invitations[t], Nil}
         /\ \A i \in InvId : invitationsByID[i] # Nil =>
               /\ invitationsByID[i] \in Addr /\ heap[invitationsByID[i]] \in Object
               /\ heap[invitationsByID[i]].id = i
               /\ invitations[heap[invitationsByID[i]].row.token] = invitationsByID[i]
BY DEF LinkInv, TypeOK, StorageTypeOK, PointersAreGood, IndexesAgree, LinkOpensItsInvitation,
       Stored, Row

\* The same, entry by entry, makes the invariant hold after a step.
LEMMA LinkFromFacts ==
  ASSUME TypeOK',
         \A t \in Token : invitations'[t] # Nil =>
               /\ heap'[invitations'[t]] # Nil
               /\ heap'[invitations'[t]].id = issuedTo'[t]
               /\ invitationsByID'[heap'[invitations'[t]].id] \in {invitations'[t], Nil},
         \A i \in InvId : invitationsByID'[i] # Nil =>
               /\ heap'[invitationsByID'[i]] # Nil
               /\ heap'[invitationsByID'[i]].id = i
               /\ invitations'[heap'[invitationsByID'[i]].row.token] = invitationsByID'[i],
         \A a \in Addr : heap'[a] # Nil => heap'[a].id < nextInvID'
  PROVE  LinkInv'
<1>1. /\ DOMAIN invitations' = Token /\ DOMAIN invitationsByID' = InvId
      /\ DOMAIN heap' = Addr
  BY DEF TypeOK, StorageTypeOK
<1>2. PointersAreGood'
  BY <1>1 DEF PointersAreGood, Stored
<1>3. IndexesAgree'
  BY <1>1 DEF IndexesAgree, Stored, Row
<1>4. LinkOpensItsInvitation'
  BY <1>1 DEF LinkOpensItsInvitation, Stored
<1> QED
  BY <1>2, <1>3, <1>4 DEF LinkInv

-----------------------------------------------------------------------------
(* The operations of the storage on invitations *)

LEMMA CreateKeepsLinks ==
  ASSUME LinkInv, TypeOK', NEW i \in InvId, NEW t \in Token, NEW row \in InvRow, row.token = t,
         GenerateToken(t), issuedTo' = [issuedTo EXCEPT ![t] = i], CreateInvitation(i, row)
  PROVE  LinkInv'
<1> USE NilIsNoPointer
<1>t. TypeOK /\ StorageTypeOK
  BY DEF LinkInv, TypeOK
<1>1. PICK a \in Addr : /\ heap[a] = Nil
                        /\ heap' = [heap EXCEPT ![a] = [id |-> i, row |-> row]]
                        /\ invitations' = [invitations EXCEPT ![t] = a]
                        /\ invitationsByID' = [invitationsByID EXCEPT ![i] = a]
  BY DEF CreateInvitation, IsNextKey
<1>2. i = nextInvID /\ nextInvID' = i + 1 /\ i \in Nat
  BY <1>t DEF CreateInvitation, StorageTypeOK
<1>3. issuedTo[t] = Nil /\ invitations[t] = Nil
  BY LinkFacts, <1>t, NilIsNoRow DEF GenerateToken, IsNextKey, Object, StorageTypeOK
<1>4. /\ heap'[a] = [id |-> i, row |-> row] /\ heap'[a] # Nil
      /\ invitations'[t] = a /\ invitationsByID'[i] = a /\ issuedTo'[t] = i
      /\ \A b \in Addr \ {a} : heap'[b] = heap[b]
      /\ \A s \in Token \ {t} : invitations'[s] = invitations[s] /\ issuedTo'[s] = issuedTo[s]
      /\ \A j \in InvId \ {i} : invitationsByID'[j] = invitationsByID[j]
  <2>1. [id |-> i, row |-> row] # Nil
    BY DEF Object
  <2> QED
    BY <1>t, <1>1, <2>1 DEF TypeOK, StorageTypeOK
<1>5. \A b \in Addr : heap[b] # Nil => heap[b].id < i /\ heap[b].id \in InvId
  BY <1>t, <1>2 DEF LinkInv, PointersAreGood, Stored, StorageTypeOK, Object
<1>6. ASSUME NEW s \in Token, invitations'[s] # Nil
      PROVE  /\ heap'[invitations'[s]] # Nil
             /\ heap'[invitations'[s]].id = issuedTo'[s]
             /\ invitationsByID'[heap'[invitations'[s]].id] \in {invitations'[s], Nil}
  <2>1. CASE s = t
    BY <1>4, <2>1
  <2>2. CASE s # t
    <3>1. /\ invitations'[s] = invitations[s] /\ invitations[s] \in Addr /\ heap[invitations[s]] # Nil
          /\ heap[invitations[s]].id = issuedTo[s] /\ issuedTo'[s] = issuedTo[s]
          /\ invitationsByID[heap[invitations[s]].id] \in {invitations[s], Nil}
      BY <1>4, <1>6, <2>2, LinkFacts
    <3>2. heap'[invitations[s]] = heap[invitations[s]]
      BY <1>1, <1>4, <3>1
    <3>3. heap[invitations[s]].id \in InvId \ {i}
      BY <1>2, <1>5, <3>1, KeysAreNaturals
    <3> QED
      BY <1>4, <3>1, <3>2, <3>3
  <2> QED
    BY <2>1, <2>2
<1>7. ASSUME NEW j \in InvId, invitationsByID'[j] # Nil
      PROVE  /\ heap'[invitationsByID'[j]] # Nil
             /\ heap'[invitationsByID'[j]].id = j
             /\ invitations'[heap'[invitationsByID'[j]].row.token] = invitationsByID'[j]
  <2>1. CASE j = i
    BY <1>4, <2>1
  <2>2. CASE j # i
    <3>1. /\ invitationsByID'[j] = invitationsByID[j] /\ invitationsByID[j] \in Addr
          /\ heap[invitationsByID[j]] \in Object /\ heap[invitationsByID[j]] # Nil
          /\ heap[invitationsByID[j]].id = j
          /\ invitations[heap[invitationsByID[j]].row.token] = invitationsByID[j]
      BY <1>4, <1>7, <2>2, LinkFacts
    <3>2. heap'[invitationsByID[j]] = heap[invitationsByID[j]]
      BY <1>1, <1>4, <3>1
    <3>3. heap[invitationsByID[j]].row.token \in Token \ {t}
      BY <1>3, <1>7, <3>1 DEF Object, InvRow
    <3> QED
      BY <1>4, <3>1, <3>2, <3>3
  <2> QED
    BY <2>1, <2>2
<1>8. ASSUME NEW b \in Addr, heap'[b] # Nil PROVE heap'[b].id < nextInvID'
  BY <1>2, <1>4, <1>5, <1>8, KeysAreNaturals
<1> QED
  BY <1>6, <1>7, <1>8, LinkFromFacts

\* A caller changes an invitation but not its token: the maps do not change.
LEMMA ChangeKeepsLinks ==
  ASSUME LinkInv, TypeOK', NEW a \in Addr, heap[a] # Nil, NEW row \in InvRow,
         row.token = heap[a].row.token,
         invitationsByID[heap[a].id] \in {a, Nil},
         UpdateInvitation(a, row), UNCHANGED <<issuedTo, nextInvID>>
  PROVE  LinkInv'
<1> USE NilIsNoPointer
<1>t. TypeOK /\ StorageTypeOK
  BY DEF LinkInv, TypeOK
<1>1. heap[a] \in Object /\ heap' = [heap EXCEPT ![a].row = row]
  BY <1>t DEF StorageTypeOK, UpdateInvitation
<1>2. /\ heap'[a] = [id |-> heap[a].id, row |-> row]
      /\ \A b \in Addr \ {a} : heap'[b] = heap[b]
  BY <1>t, <1>1 DEF StorageTypeOK, Object
<1>3. \A b \in Addr : /\ heap'[b] # Nil <=> heap[b] # Nil
                      /\ heap[b] # Nil => /\ heap'[b].id = heap[b].id
                                          /\ heap'[b].row.token = heap[b].row.token
  BY <1>1, <1>2 DEF Object
<1>4. UNCHANGED <<invitations, invitationsByID>>
  <2>1. CASE invitationsByID[heap[a].id] = Nil
    BY <2>1, <1>t, <1>1 DEF UpdateInvitation, Object
  <2>2. CASE invitationsByID[heap[a].id] = a
    <3>1. heap[a].id \in InvId /\ invitations[row.token] = a
      BY <1>1, <2>2, LinkFacts DEF Object
    <3>2. /\ invitations' = [invitations EXCEPT ![row.token] = a]
          /\ invitationsByID' = [invitationsByID EXCEPT ![heap[a].id] = a]
      BY <2>2 DEF UpdateInvitation
    <3> QED
      BY <1>t, <2>2, <3>1, <3>2 DEF StorageTypeOK
  <2> QED
    BY <2>1, <2>2
<1>5. ASSUME NEW s \in Token, invitations'[s] # Nil
      PROVE  /\ heap'[invitations'[s]] # Nil
             /\ heap'[invitations'[s]].id = issuedTo'[s]
             /\ invitationsByID'[heap'[invitations'[s]].id] \in {invitations'[s], Nil}
  BY <1>3, <1>4, <1>5, LinkFacts
<1>6. ASSUME NEW j \in InvId, invitationsByID'[j] # Nil
      PROVE  /\ heap'[invitationsByID'[j]] # Nil
             /\ heap'[invitationsByID'[j]].id = j
             /\ invitations'[heap'[invitationsByID'[j]].row.token] = invitationsByID'[j]
  BY <1>3, <1>4, <1>6, LinkFacts
<1>7. ASSUME NEW b \in Addr, heap'[b] # Nil PROVE heap'[b].id < nextInvID'
  BY <1>3, <1>7 DEF LinkInv, PointersAreGood, Stored, TypeOK, StorageTypeOK
<1> QED
  BY <1>5, <1>6, <1>7, LinkFromFacts

\* A stored invitation gets a token nobody was given before: the new token
\* leads to it, and so does the old one.
LEMMA RenewKeepsLinks ==
  ASSUME LinkInv, TypeOK', NEW i \in Stored(invitationsByID), NEW t \in Token, NEW row \in InvRow,
         row.token = t, GenerateToken(t), issuedTo' = [issuedTo EXCEPT ![t] = i],
         UpdateInvitation(invitationsByID[i], row), UNCHANGED nextInvID
  PROVE  LinkInv'
<1> USE NilIsNoPointer
<1> DEFINE a == invitationsByID[i]
<1>t. TypeOK /\ StorageTypeOK
  BY DEF LinkInv, TypeOK
<1>0. i \in InvId /\ a # Nil
  BY <1>t DEF Stored, StorageTypeOK
<1>1. /\ a \in Addr /\ heap[a] \in Object /\ heap[a].id = i
      /\ invitations[heap[a].row.token] = a
  BY <1>0, LinkFacts
<1> HIDE DEF a
<1>2. /\ heap' = [heap EXCEPT ![a].row = row]
      /\ invitations' = [invitations EXCEPT ![t] = a]
      /\ invitationsByID' = [invitationsByID EXCEPT ![i] = a]
  BY <1>0, <1>1 DEF UpdateInvitation, a
<1>3. issuedTo[t] = Nil /\ invitations[t] = Nil
  BY LinkFacts, <1>t, NilIsNoRow DEF GenerateToken, IsNextKey, Object, StorageTypeOK
<1>4. /\ heap'[a] = [id |-> i, row |-> row]
      /\ invitations'[t] = a /\ issuedTo'[t] = i
      /\ \A b \in Addr \ {a} : heap'[b] = heap[b]
      /\ \A s \in Token \ {t} : invitations'[s] = invitations[s] /\ issuedTo'[s] = issuedTo[s]
  BY <1>t, <1>1, <1>2 DEF TypeOK, StorageTypeOK, Object
<1>5. invitationsByID' = invitationsByID
  BY <1>t, <1>0, <1>2 DEF StorageTypeOK, a
<1>6. \A b \in Addr : /\ heap'[b] # Nil <=> heap[b] # Nil
                      /\ heap[b] # Nil => heap'[b].id = heap[b].id
  BY <1>1, <1>4 DEF Object
<1>7. ASSUME NEW s \in Token, invitations'[s] # Nil
      PROVE  /\ heap'[invitations'[s]] # Nil
             /\ heap'[invitations'[s]].id = issuedTo'[s]
             /\ invitationsByID'[heap'[invitations'[s]].id] \in {invitations'[s], Nil}
  <2>1. CASE s = t
    BY <1>0, <1>1, <1>4, <1>5, <1>6, <2>1 DEF a
  <2>2. CASE s # t
    BY <1>4, <1>5, <1>6, <1>7, <2>2, LinkFacts
  <2> QED
    BY <2>1, <2>2
<1>8. ASSUME NEW j \in InvId, invitationsByID'[j] # Nil
      PROVE  /\ heap'[invitationsByID'[j]] # Nil
             /\ heap'[invitationsByID'[j]].id = j
             /\ invitations'[heap'[invitationsByID'[j]].row.token] = invitationsByID'[j]
  <2>1. CASE j = i
    BY <1>1, <1>4, <1>5, <1>6, <2>1 DEF a
  <2>2. CASE j # i
    <3>1. /\ invitationsByID[j] \in Addr /\ heap[invitationsByID[j]] \in Object
          /\ heap[invitationsByID[j]].id = j
          /\ invitations[heap[invitationsByID[j]].row.token] = invitationsByID[j]
      BY <1>5, <1>8, LinkFacts
    <3>2. heap'[invitationsByID[j]] = heap[invitationsByID[j]]
      BY <1>1, <1>4, <2>2, <3>1
    <3>3. heap[invitationsByID[j]].row.token \in Token \ {t}
      BY <1>3, <1>5, <1>8, <3>1 DEF Object, InvRow
    <3> QED
      BY <1>4, <1>5, <3>1, <3>2, <3>3
  <2> QED
    BY <2>1, <2>2
<1>9. ASSUME NEW b \in Addr, heap'[b] # Nil PROVE heap'[b].id < nextInvID'
  BY <1>6, <1>9 DEF LinkInv, PointersAreGood, Stored, TypeOK, StorageTypeOK
<1> QED
  BY <1>7, <1>8, <1>9, LinkFromFacts

\* A deleted invitation loses its id and its token; its replaced tokens still
\* lead to it, and to nothing else.
LEMMA DeleteKeepsLinks ==
  ASSUME LinkInv, TypeOK', NEW i \in InvId, DeleteInvitation(i), UNCHANGED issuedTo
  PROVE  LinkInv'
<1> USE NilIsNoPointer
<1> DEFINE a == invitationsByID[i]
<1>t. TypeOK /\ StorageTypeOK
  BY DEF LinkInv, TypeOK
<1>1. /\ a # Nil /\ a \in Addr /\ heap[a] \in Object /\ heap[a].id = i
      /\ invitations[heap[a].row.token] = a
  BY LinkFacts DEF DeleteInvitation
<1> HIDE DEF a
<1>2. /\ invitations' = [invitations EXCEPT ![heap[a].row.token] = Nil]
      /\ invitationsByID' = [invitationsByID EXCEPT ![i] = Nil]
      /\ UNCHANGED <<heap, nextInvID>>
  BY DEF DeleteInvitation, a
<1>3. ASSUME NEW s \in Token, invitations'[s] # Nil
      PROVE  /\ heap'[invitations'[s]] # Nil
             /\ heap'[invitations'[s]].id = issuedTo'[s]
             /\ invitationsByID'[heap'[invitations'[s]].id] \in {invitations'[s], Nil}
  <2>1. invitations'[s] = invitations[s]
    BY <1>t, <1>2, <1>3 DEF StorageTypeOK
  <2> QED
    BY <1>t, <1>2, <1>3, <2>1, LinkFacts DEF StorageTypeOK
<1>4. ASSUME NEW j \in InvId, invitationsByID'[j] # Nil
      PROVE  /\ heap'[invitationsByID'[j]] # Nil
             /\ heap'[invitationsByID'[j]].id = j
             /\ invitations'[heap'[invitationsByID'[j]].row.token] = invitationsByID'[j]
  <2>1. j # i /\ invitationsByID'[j] = invitationsByID[j]
    BY <1>t, <1>2, <1>4 DEF StorageTypeOK
  <2>2. /\ heap[invitationsByID[j]] \in Object /\ heap[invitationsByID[j]].id = j
        /\ invitations[heap[invitationsByID[j]].row.token] = invitationsByID[j]
    BY <1>4, <2>1, LinkFacts
  <2>3. heap[invitationsByID[j]].row.token \in Token \ {heap[a].row.token}
    BY <1>1, <2>1, <2>2 DEF Object, InvRow
  <2> QED
    BY <1>t, <1>2, <2>1, <2>2, <2>3 DEF StorageTypeOK
<1>5. ASSUME NEW b \in Addr, heap'[b] # Nil PROVE heap'[b].id < nextInvID'
  BY <1>2, <1>5 DEF LinkInv, PointersAreGood, Stored, StorageTypeOK, TypeOK
<1> QED
  BY <1>3, <1>4, <1>5, LinkFromFacts

-----------------------------------------------------------------------------
(* Every step keeps the types *)

LEMMA RowTypes ==
  ASSUME now \in 0..MaxNow, NEW o \in OrgId, NEW e \in Email, NEW t \in Token
  PROVE  /\ NewOrganization \in OrgRow
         /\ \A role \in Role : NewUser(o, e, role) \in UserRow
         /\ NewInvitation(o, e, t) \in InvRow
         /\ NewInvitation(o, e, t).token = t /\ NewInvitation(o, e, t).expiresAt \in Int
<1>1. CalculateExpiry \in Int
  BY LocalConfigAssumption DEF CalculateExpiry
<1> QED
  BY <1>1 DEF NewOrganization, NewUser, NewInvitation, OrgRow, UserRow, InvRow, Role, Status,
              Password, Time

LEMMA RenewedType ==
  ASSUME now \in 0..MaxNow, NEW row \in InvRow, NEW t \in Token
  PROVE  Renewed(row, t) \in InvRow /\ Renewed(row, t).token = t
<1>1. CalculateExpiry \in Int
  BY LocalConfigAssumption DEF CalculateExpiry
<1> QED
  BY <1>1 DEF Renewed, InvRow, Status

\* Closing an invitation leaves its token.
LEMMA ClosedType ==
  ASSUME NEW row \in InvRow, NEW s \in Status
  PROVE  [row EXCEPT !.status = s] \in InvRow /\ [row EXCEPT !.status = s].token = row.token
BY DEF InvRow

LEMMA MailType ==
  ASSUME lastMailed \in [InvId -> Mail \cup {Nil}], NEW i \in InvId, NEW row \in InvRow,
         SendInvitation(i, row)
  PROVE  lastMailed' \in [InvId -> Mail \cup {Nil}]
<1>1. [token |-> row.token, expiresAt |-> row.expiresAt] \in Mail
  BY DEF Mail, InvRow
<1> QED
  BY <1>1 DEF SendInvitation

\* A row behind a stored pointer, and what UpdateInvitation does to the types.
LEMMA UpdateType ==
  ASSUME StorageTypeOK, NEW a \in Addr, heap[a] # Nil, NEW row \in InvRow,
         UpdateInvitation(a, row)
  PROVE  /\ heap[a] \in Object /\ Row(a) \in InvRow
         /\ heap' \in [Addr -> Object \cup {Nil}]
         /\ invitations' \in [Token -> Addr \cup {Nil}]
         /\ invitationsByID' \in [InvId -> Addr \cup {Nil}]
<1>1. heap[a] \in Object /\ Row(a) \in InvRow
  BY DEF StorageTypeOK, Object, Row
<1>2. [heap[a] EXCEPT !.row = row] \in Object
  BY <1>1 DEF Object
<1>3. heap' = [heap EXCEPT ![a] = [heap[a] EXCEPT !.row = row]]
  BY DEF UpdateInvitation
<1> QED
  BY <1>1, <1>2, <1>3 DEF StorageTypeOK, UpdateInvitation, InvRow

-----------------------------------------------------------------------------
(* Every step keeps the invariant *)

\* Requests that leave the invitations alone.
LEMMA QuietSteps ==
  ASSUME LinkInv, CreateOrganizationWithUser \/ AcceptInvitation \/ Tick \/ UNCHANGED vars
  PROVE  LinkInv'
<1>t. TypeOK /\ StorageTypeOK
  BY DEF LinkInv, TypeOK
<1>1. UNCHANGED <<heap, invitations, invitationsByID, nextInvID, issuedTo>>
  BY DEF CreateOrganizationWithUser, AcceptInvitation, Tick, vars, maps
<1>2. TypeOK'
  <2>1. CASE CreateOrganizationWithUser
    <3>1. PICK o \in OrgId, u \in UserId, e \in Email :
            /\ CreateOrganization(o, NewOrganization)
            /\ CreateUser(u, NewUser(o, e, "manager"))
            /\ UNCHANGED <<now, lastMailed>>
      BY <2>1 DEF CreateOrganizationWithUser
    <3>2. NewOrganization \in OrgRow /\ NewUser(o, e, "manager") \in UserRow
      BY DEF NewOrganization, NewUser, OrgRow, UserRow, Role, Password, Time
    <3> QED
      BY <1>t, <1>1, <3>1, <3>2, KeysAreNaturals
      DEF TypeOK, StorageTypeOK, CreateOrganization, CreateUser
  <2>2. CASE AcceptInvitation
    <3>1. PICK t \in Stored(invitations), u \in UserId :
            /\ CreateUser(u, NewUser(RowOf(t).org, RowOf(t).email, "user"))
            /\ UNCHANGED <<organizations, nextOrgID, now, lastMailed>>
      BY <2>2 DEF AcceptInvitation
    <3>2. RowOf(t) \in InvRow
      BY <1>t, LinkFacts DEF StorageTypeOK, Stored, RowOf, Row, Object
    <3>3. NewUser(RowOf(t).org, RowOf(t).email, "user") \in UserRow
      BY <3>2 DEF NewUser, InvRow, UserRow, Role, Password, Time
    <3> QED
      BY <1>t, <1>1, <3>1, <3>3, KeysAreNaturals DEF TypeOK, StorageTypeOK, CreateUser
  <2>3. CASE Tick
    BY <1>t, <2>3, LocalConfigAssumption DEF TypeOK, StorageTypeOK, Tick, maps
  <2>4. CASE UNCHANGED vars
    BY <1>t, <2>4 DEF TypeOK, StorageTypeOK, vars, maps
  <2> QED
    BY <2>1, <2>2, <2>3, <2>4
<1> QED
  BY <1>1, <1>2 DEF LinkInv, PointersAreGood, IndexesAgree, LinkOpensItsInvitation, Stored, Row

LEMMA InviteStep ==
  ASSUME LinkInv, InviteUser
  PROVE  LinkInv'
<1>t. TypeOK /\ StorageTypeOK
  BY DEF LinkInv, TypeOK
<1>1. PICK o \in OrgId, e \in Email, i \in InvId, t \in Token :
        /\ GenerateToken(t)
        /\ CreateInvitation(i, NewInvitation(o, e, t))
        /\ issuedTo' = [issuedTo EXCEPT ![t] = i]
        /\ SendInvitation(i, NewInvitation(o, e, t))
        /\ UNCHANGED <<organizations, users, nextOrgID, nextUserID, now>>
  BY DEF InviteUser
<1> DEFINE row == NewInvitation(o, e, t)
<1>2. row \in InvRow /\ row.token = t
  BY <1>t, RowTypes DEF TypeOK
<1> HIDE DEF row
<1>3. PICK a \in Addr :
        /\ heap' = [heap EXCEPT ![a] = [id |-> i, row |-> row]]
        /\ invitations' = [invitations EXCEPT ![t] = a]
        /\ invitationsByID' = [invitationsByID EXCEPT ![i] = a]
        /\ nextInvID' = i + 1
  BY <1>1, <1>2 DEF CreateInvitation, row
<1>4. [id |-> i, row |-> row] \in Object
  BY <1>2 DEF Object
<1>5. lastMailed' \in [InvId -> Mail \cup {Nil}]
  BY <1>t, <1>1, <1>2, MailType DEF TypeOK, row
<1>6. nextInvID' \in Nat /\ UNCHANGED <<organizations, users, nextOrgID, nextUserID, now>>
  BY <1>1, <1>3, KeysAreNaturals
<1>7. issuedTo' \in [Token -> InvId \cup {Nil}]
  BY <1>t, <1>1 DEF TypeOK
<1>8. /\ heap' \in [Addr -> Object \cup {Nil}]
      /\ invitations' \in [Token -> Addr \cup {Nil}]
      /\ invitationsByID' \in [InvId -> Addr \cup {Nil}]
  BY <1>t, <1>3, <1>4 DEF StorageTypeOK
<1>9. TypeOK'
  BY <1>t, <1>5, <1>6, <1>7, <1>8 DEF TypeOK, StorageTypeOK
<1> QED
  BY <1>1, <1>2, <1>9, CreateKeepsLinks DEF row

LEMMA RejectStep ==
  ASSUME LinkInv, RejectInvitation
  PROVE  LinkInv'
<1>t. TypeOK /\ StorageTypeOK
  BY DEF LinkInv, TypeOK
<1>1. PICK t \in Stored(invitations) :
        /\ UpdateInvitation(invitations[t], [RowOf(t) EXCEPT !.status = "rejected"])
        /\ UNCHANGED <<organizations, users, nextOrgID, nextUserID, nextInvID,
                       now, issuedTo, lastMailed>>
  BY DEF RejectInvitation
<1> DEFINE a == invitations[t]
           row == [RowOf(t) EXCEPT !.status = "rejected"]
<1>2. /\ a \in Addr /\ heap[a] \in Object /\ heap[a] # Nil
      /\ invitationsByID[heap[a].id] \in {a, Nil}
  BY <1>t, LinkFacts, NilIsNoPointer DEF StorageTypeOK, Stored
<1>3. row \in InvRow /\ row.token = heap[a].row.token
  <2>1. heap[a].row \in InvRow
    BY <1>2 DEF Object
  <2> QED
    BY <2>1, ClosedType DEF RowOf, Row, Status
<1>4. TypeOK'
  <2>1. UpdateInvitation(a, row)
    BY <1>1
  <2> HIDE DEF a, row
  <2> QED
    BY <1>t, <1>1, <1>2, <1>3, <2>1, UpdateType DEF TypeOK, StorageTypeOK
<1> QED
  BY <1>1, <1>2, <1>3, <1>4, ChangeKeepsLinks

LEMMA ResendStep ==
  ASSUME LinkInv, ResendInvitation
  PROVE  LinkInv'
<1>t. TypeOK /\ StorageTypeOK
  BY DEF LinkInv, TypeOK
<1>1. PICK i \in Stored(invitationsByID), t \in Token :
        /\ GenerateToken(t)
        /\ UpdateInvitation(invitationsByID[i], Renewed(Row(invitationsByID[i]), t))
        /\ issuedTo' = [issuedTo EXCEPT ![t] = i]
        /\ SendInvitation(i, Renewed(Row(invitationsByID[i]), t))
        /\ UNCHANGED <<organizations, users, nextOrgID, nextUserID, nextInvID, now>>
  BY DEF ResendInvitation
<1> DEFINE a == invitationsByID[i]
           row == Renewed(Row(a), t)
<1>2. i \in InvId /\ a \in Addr /\ heap[a] \in Object /\ heap[a] # Nil
  BY <1>t, LinkFacts, NilIsNoPointer DEF StorageTypeOK, Stored
<1>3. row \in InvRow /\ row.token = t
  <2>1. Row(a) \in InvRow
    BY <1>2 DEF Object, Row
  <2> QED
    BY <1>t, <2>1, RenewedType DEF TypeOK
<1>4. lastMailed' \in [InvId -> Mail \cup {Nil}]
  <2>1. SendInvitation(i, row)
    BY <1>1
  <2> HIDE DEF row
  <2> QED
    BY <1>t, <1>2, <1>3, <2>1, MailType DEF TypeOK
<1>5. TypeOK'
  <2>1. UpdateInvitation(a, row)
    BY <1>1
  <2> HIDE DEF a, row
  <2> QED
    BY <1>t, <1>1, <1>2, <1>3, <1>4, <2>1, UpdateType DEF TypeOK, StorageTypeOK
<1> QED
  BY <1>1, <1>3, <1>5, RenewKeepsLinks

LEMMA PasswordStep ==
  ASSUME LinkInv, UpdatePassword
  PROVE  LinkInv'
<1>t. TypeOK /\ StorageTypeOK
  BY DEF LinkInv, TypeOK
<1>1. PICK u \in Stored(users) :
        /\ UpdateUser(u, WithPassword(users[u]))
        /\ \/ \E a \in PendingFor(users[u].org, users[u].email) :
                 UpdateInvitation(a, [Row(a) EXCEPT !.status = "accepted"])
           \/ UNCHANGED <<heap, invitations, invitationsByID>>
        /\ UNCHANGED <<organizations, nextOrgID, nextUserID, nextInvID,
                       now, issuedTo, lastMailed>>
  BY DEF UpdatePassword
<1>2. users' \in [UserId -> UserRow \cup {Nil}]
  <2>1. users[u] \in UserRow
    BY <1>t DEF StorageTypeOK, Stored
  <2>2. WithPassword(users[u]) \in UserRow
    BY <2>1 DEF WithPassword, UserRow, Password
  <2> QED
    BY <1>t, <1>1, <2>2 DEF StorageTypeOK, UpdateUser
<1>3. CASE UNCHANGED <<heap, invitations, invitationsByID>>
  <2>1. TypeOK'
    BY <1>t, <1>1, <1>2, <1>3 DEF TypeOK, StorageTypeOK
  <2> QED
    BY <1>1, <1>3, <2>1
    DEF LinkInv, PointersAreGood, IndexesAgree, LinkOpensItsInvitation, Stored, Row
<1>4. CASE \E a \in PendingFor(users[u].org, users[u].email) :
             UpdateInvitation(a, [Row(a) EXCEPT !.status = "accepted"])
  <2>1. PICK a \in PendingFor(users[u].org, users[u].email) :
          UpdateInvitation(a, [Row(a) EXCEPT !.status = "accepted"])
    BY <1>4
  <2>2. PICK t \in Stored(invitations) : a = invitations[t]
    BY DEF PendingFor, GetInvitationsByOrganizationID
  <2>3. /\ a \in Addr /\ heap[a] \in Object /\ heap[a] # Nil
        /\ invitationsByID[heap[a].id] \in {a, Nil}
    BY <1>t, <2>2, LinkFacts, NilIsNoPointer DEF StorageTypeOK, Stored
  <2> DEFINE row == [Row(a) EXCEPT !.status = "accepted"]
  <2>4. row \in InvRow /\ row.token = heap[a].row.token
    <3>1. heap[a].row \in InvRow
      BY <2>3 DEF Object
    <3> QED
      BY <3>1, ClosedType DEF Row, Status
  <2>5. UpdateInvitation(a, row)
    BY <2>1
  <2> HIDE DEF row
  <2>6. TypeOK'
    BY <1>t, <1>1, <1>2, <2>3, <2>4, <2>5, UpdateType DEF TypeOK, StorageTypeOK
  <2> QED
    BY <1>1, <2>3, <2>4, <2>5, <2>6, ChangeKeepsLinks
<1> QED
  BY <1>1, <1>3, <1>4

LEMMA WithdrawStep ==
  ASSUME LinkInv, WithdrawInvitation
  PROVE  LinkInv'
<1>t. TypeOK /\ StorageTypeOK
  BY DEF LinkInv, TypeOK
<1>1. PICK i \in InvId : DeleteInvitation(i) /\ UNCHANGED <<now, issuedTo, lastMailed>>
  BY DEF WithdrawInvitation
<1>2. TypeOK'
  BY <1>t, <1>1 DEF TypeOK, StorageTypeOK, DeleteInvitation
<1> QED
  BY <1>1, <1>2, DeleteKeepsLinks

LEMMA LinkNext == LinkInv /\ [Next]_vars => LinkInv'
BY QuietSteps, InviteStep, RejectStep, ResendStep, PasswordStep, WithdrawStep DEF Next

LEMMA LinkInvariant == Spec => []LinkInv
BY LinkInit, LinkNext, PTL DEF Spec

-----------------------------------------------------------------------------
\* The two maps of the storage (internal/storage/storage.go:196, :210) agree
\* for ever: a replaced token, whose entry is never removed, still reaches the
\* invitation itself and never a second copy of it.
THEOREM MapsAgree == Spec => []IndexesAgree
BY LinkInvariant, PTL DEF LinkInv

\* A link opens the invitation its token was drawn for, or none: not another's,
\* however often tokens are replaced and invitations are withdrawn.
THEOREM LinksStayTrue == Spec => []LinkOpensItsInvitation
BY LinkInvariant, PTL DEF LinkInv

\* The tables and maps keep their types.
THEOREM TypesStay == Spec => []TypeOK
BY LinkInvariant, PTL DEF LinkInv

-----------------------------------------------------------------------------
(* What each request does to the rows *)

LEMMA WriteRow ==
  ASSUME NEW a \in Addr, heap[a] \in Object, NEW row, UpdateInvitation(a, row)
  PROVE  heap' = [heap EXCEPT ![a] = [id |-> heap[a].id, row |-> row]]
<1>1. heap' = [heap EXCEPT ![a] = [heap[a] EXCEPT !.row = row]]
  BY DEF UpdateInvitation
<1>2. [heap[a] EXCEPT !.row = row] = [id |-> heap[a].id, row |-> row]
  BY DEF Object
<1> QED
  BY <1>1, <1>2

\* Closing an invitation, by whatever link, changes its status alone; it is
\* accepted on behalf of the user whose password is set.
LEMMA CloseEffect ==
  ASSUME LinkInv, RejectInvitation \/ UpdatePassword
  PROVE  /\ UNCHANGED <<organizations, invitations, invitationsByID, nextOrgID, nextUserID, nextInvID,
                        now, issuedTo, lastMailed>>
         /\ \/ UNCHANGED heap
            \/ \E a \in Addr, s \in {"rejected", "accepted"} :
                  /\ heap[a] \in Object
                  /\ heap' = [heap EXCEPT ![a] = [id |-> heap[a].id,
                                                  row |-> [Row(a) EXCEPT !.status = s]]]
                  /\ s = "accepted" => \E u \in Stored(users) : SameMember(Row(a), users[u])
<1>t. TypeOK /\ StorageTypeOK
  BY DEF LinkInv, TypeOK
<1>1. ASSUME NEW t \in Stored(invitations), NEW a, a = invitations[t], NEW s \in {"rejected", "accepted"},
             UpdateInvitation(a, [Row(a) EXCEPT !.status = s])
      PROVE  /\ UNCHANGED <<invitations, invitationsByID>>
             /\ a \in Addr /\ heap[a] \in Object
             /\ heap' = [heap EXCEPT ![a] = [id |-> heap[a].id, row |-> [Row(a) EXCEPT !.status = s]]]
  <2>1. /\ a \in Addr /\ heap[a] \in Object
        /\ invitationsByID[heap[a].id] \in {a, Nil}
    BY <1>t, <1>1, LinkFacts DEF StorageTypeOK, Stored
  <2>2. Row(a) \in InvRow /\ heap[a].row = Row(a)
    BY <2>1 DEF Object, Row
  <2> DEFINE row == [Row(a) EXCEPT !.status = s]
  <2>3. row.token = Row(a).token
    BY <2>2 DEF InvRow
  <2>4. UpdateInvitation(a, row)
    BY <1>1
  <2> HIDE DEF row
  <2>5. heap' = [heap EXCEPT ![a] = [id |-> heap[a].id, row |-> row]]
    BY <2>1, <2>4, WriteRow
  <2>6. UNCHANGED <<invitations, invitationsByID>>
    <3>1. CASE invitationsByID[heap[a].id] = Nil
      BY <2>1, <2>4, <3>1, NilIsNoPointer DEF UpdateInvitation
    <3>2. CASE invitationsByID[heap[a].id] = a
      <4>1. heap[a].id \in InvId /\ a # Nil
        BY <2>1, NilIsNoPointer DEF Object
      <4>2. invitations[row.token] = a
        BY <2>2, <2>3, <3>2, <4>1, LinkFacts
      <4>3. /\ invitations' = [invitations EXCEPT ![row.token] = a]
            /\ invitationsByID' = [invitationsByID EXCEPT ![heap[a].id] = a]
        BY <2>4, <3>2, <4>1 DEF UpdateInvitation
      <4> QED
        BY <1>t, <3>2, <4>1, <4>2, <4>3 DEF StorageTypeOK
    <3> QED
      BY <2>1, <3>1, <3>2
  <2> QED
    BY <2>1, <2>5, <2>6 DEF row
<1>2. CASE RejectInvitation
  <2>1. PICK t \in Stored(invitations) :
          /\ UpdateInvitation(invitations[t], [RowOf(t) EXCEPT !.status = "rejected"])
          /\ UNCHANGED <<organizations, users, nextOrgID, nextUserID, nextInvID,
                         now, issuedTo, lastMailed>>
    BY <1>2 DEF RejectInvitation
  <2>2. PICK a : a = invitations[t] /\ UpdateInvitation(a, [Row(a) EXCEPT !.status = "rejected"])
    BY <2>1 DEF RowOf
  <2> QED
    BY <1>1, <2>1, <2>2
<1>3. CASE UpdatePassword
  <2>1. PICK u \in Stored(users) :
          /\ \/ \E a \in PendingFor(users[u].org, users[u].email) :
                   UpdateInvitation(a, [Row(a) EXCEPT !.status = "accepted"])
             \/ UNCHANGED <<heap, invitations, invitationsByID>>
          /\ UNCHANGED <<organizations, nextOrgID, nextUserID, nextInvID, now, issuedTo, lastMailed>>
    BY <1>3 DEF UpdatePassword
  <2>2. ASSUME NEW a \in PendingFor(users[u].org, users[u].email),
               UpdateInvitation(a, [Row(a) EXCEPT !.status = "accepted"])
        PROVE  /\ UNCHANGED <<invitations, invitationsByID>>
               /\ a \in Addr /\ heap[a] \in Object
               /\ heap' = [heap EXCEPT ![a] = [id |-> heap[a].id, row |-> [Row(a) EXCEPT !.status = "accepted"]]]
               /\ SameMember(Row(a), users[u])
    <3>1. PICK t \in Stored(invitations) : a = invitations[t]
      BY DEF PendingFor, GetInvitationsByOrganizationID
    <3>2. SameMember(Row(a), users[u])
      BY DEF PendingFor, GetInvitationsByOrganizationID, SameMember, Row, Stored
    <3> QED
      BY <1>1, <2>2, <3>1, <3>2
  <2> QED
    BY <2>1, <2>2
<1> QED
  BY <1>2, <1>3

\* A new invitation, at a new address, by a new token.
LEMMA InviteEffect ==
  ASSUME LinkInv, InviteUser
  PROVE  \E o \in OrgId, e \in Email, i \in InvId, t \in Token, a \in Addr :
            /\ i = nextInvID /\ nextInvID' = i + 1
            /\ heap[a] = Nil /\ invitations[t] = Nil
            /\ heap' = [heap EXCEPT ![a] = [id |-> i, row |-> NewInvitation(o, e, t)]]
            /\ invitations' = [invitations EXCEPT ![t] = a]
            /\ invitationsByID' = [invitationsByID EXCEPT ![i] = a]
            /\ SendInvitation(i, NewInvitation(o, e, t))
            /\ UNCHANGED <<organizations, users, nextOrgID, nextUserID, now>>
<1>1. PICK o \in OrgId, e \in Email, i \in InvId, t \in Token :
        /\ GenerateToken(t)
        /\ CreateInvitation(i, NewInvitation(o, e, t))
        /\ SendInvitation(i, NewInvitation(o, e, t))
        /\ UNCHANGED <<organizations, users, nextOrgID, nextUserID, now>>
  BY DEF InviteUser
<1>2. PICK row : row = NewInvitation(o, e, t)
  OBVIOUS
<1>3. row.token = t
  BY <1>2 DEF NewInvitation
<1>4. i = nextInvID /\ nextInvID' = i + 1
  BY <1>1 DEF CreateInvitation
<1>5. PICK a \in Addr : /\ heap[a] = Nil
                        /\ heap' = [heap EXCEPT ![a] = [id |-> i, row |-> row]]
                        /\ invitations' = [invitations EXCEPT ![t] = a]
                        /\ invitationsByID' = [invitationsByID EXCEPT ![i] = a]
  BY <1>1, <1>2, <1>3 DEF CreateInvitation, IsNextKey
<1>6. issuedTo[t] = Nil
  BY <1>1 DEF GenerateToken, IsNextKey
<1>7. invitations[t] = Nil
  BY <1>6, LinkFacts, NilIsNoRow DEF Object
<1> QED
  BY <1>1, <1>2, <1>4, <1>5, <1>7

\* A renewed invitation, still at its address, by one more token.
LEMMA ResendEffect ==
  ASSUME LinkInv, ResendInvitation
  PROVE  \E i \in InvId, t \in Token : \E a \in Addr :
            /\ a = invitationsByID[i] /\ heap[a] \in Object /\ heap[a].id = i
            /\ invitations[t] = Nil
            /\ heap' = [heap EXCEPT ![a] = [id |-> i, row |-> Renewed(Row(a), t)]]
            /\ invitations' = [invitations EXCEPT ![t] = a]
            /\ SendInvitation(i, Renewed(Row(a), t))
            /\ UNCHANGED <<organizations, users, invitationsByID, nextOrgID, nextUserID, nextInvID, now>>
<1>t. TypeOK /\ StorageTypeOK
  BY DEF LinkInv, TypeOK
<1>1. PICK i \in Stored(invitationsByID), t \in Token :
        /\ GenerateToken(t)
        /\ UpdateInvitation(invitationsByID[i], Renewed(Row(invitationsByID[i]), t))
        /\ SendInvitation(i, Renewed(Row(invitationsByID[i]), t))
        /\ UNCHANGED <<organizations, users, nextOrgID, nextUserID, nextInvID, now>>
  BY DEF ResendInvitation
<1>2. PICK a : a = invitationsByID[i]
  OBVIOUS
<1>3. i \in InvId /\ a # Nil /\ a \in Addr /\ heap[a] \in Object /\ heap[a].id = i
  BY <1>t, <1>2, LinkFacts DEF StorageTypeOK, Stored
<1>4. Row(a) \in InvRow
  BY <1>3 DEF Object, Row
<1>5. PICK row : row = Renewed(Row(a), t)
  OBVIOUS
<1>6. row.token = t
  BY <1>4, <1>5, <1>t, RenewedType DEF TypeOK
<1>7. UpdateInvitation(a, row) /\ SendInvitation(i, row)
  BY <1>1, <1>2, <1>5
<1>8. /\ heap' = [heap EXCEPT ![a] = [id |-> i, row |-> row]]
      /\ invitations' = [invitations EXCEPT ![t] = a]
      /\ invitationsByID' = [invitationsByID EXCEPT ![i] = a]
  <2>1. heap' = [heap EXCEPT ![a] = [id |-> i, row |-> row]]
    BY <1>3, <1>7, WriteRow
  <2> QED
    BY <1>2, <1>3, <1>6, <1>7, <2>1 DEF UpdateInvitation
<1>9. invitationsByID' = invitationsByID
  BY <1>t, <1>2, <1>3, <1>8 DEF StorageTypeOK
<1>10. invitations[t] = Nil
  <2>1. issuedTo[t] = Nil
    BY <1>1 DEF GenerateToken, IsNextKey
  <2> QED
    BY <2>1, LinkFacts, NilIsNoRow DEF Object
<1> QED
  BY <1>1, <1>2, <1>3, <1>5, <1>7, <1>8, <1>9, <1>10

-----------------------------------------------------------------------------
(* Accounts, and what Tenancy sees of them *)

\* Ids come from counters, so no insert overwrites a row.
IdsAreCounted == /\ \A o \in Stored(organizations) : o < nextOrgID
                 /\ \A u \in Stored(users) : u < nextUserID

AccountInv == LinkInv /\ IdsAreCounted /\ AcceptedHasAccount

\* The heap after an object was written at an address.
LEMMA HeapAfter ==
  ASSUME TypeOK, NEW a \in Addr, NEW i \in InvId, NEW row \in InvRow,
         heap' = [heap EXCEPT ![a] = [id |-> i, row |-> row]]
  PROVE  /\ Stored(heap') = Stored(heap) \cup {a}
         /\ heap'[a].row = row
         /\ \A b \in Stored(heap) : b # a => heap'[b] = heap[b]
<1>1. [id |-> i, row |-> row] # Nil
  BY NilIsNoPointer DEF Object
<1> QED
  BY <1>1 DEF TypeOK, StorageTypeOK, Stored

\* A step that only writes over a stored invitation, for the same member, is
\* invisible to Tenancy.
LEMMA NoNewInvitation ==
  ASSUME AccountInv, NEW a \in Addr, heap[a] \in Object, NEW row \in InvRow,
         heap' = [heap EXCEPT ![a] = [id |-> heap[a].id, row |-> row]],
         row.org = Row(a).org, row.email = Row(a).email
  PROVE  /\ Stored(heap') = Stored(heap)
         /\ \A b \in Stored(heap) : /\ Row(b)'.org = Row(b).org /\ Row(b)'.email = Row(b).email
                                    /\ Row(b)'.status = "accepted" =>
                                          (b = a /\ row.status = "accepted") \/ Row(b).status = "accepted"
         /\ invited' = invited
<1>1. heap[a].id \in InvId /\ a \in Stored(heap)
  BY NilIsNoPointer DEF Object, Stored, AccountInv, LinkInv, TypeOK, StorageTypeOK
<1>2. /\ Stored(heap') = Stored(heap) \cup {a} /\ heap'[a].row = row
      /\ \A b \in Stored(heap) : b # a => heap'[b] = heap[b]
  BY <1>1, HeapAfter DEF AccountInv, LinkInv
<1>3. Stored(heap') = Stored(heap)
  BY <1>1, <1>2
<1>4. \A b \in Stored(heap) : heap'[b].row.org = heap[b].row.org /\ heap'[b].row.email = heap[b].row.email
  BY <1>2 DEF Row
<1>5. invited' = invited
  BY <1>3, <1>4 DEF invited, Row
<1> QED
  BY <1>2, <1>3, <1>4, <1>5 DEF Row

\* Users after a step that inserts none.
LEMMA NoNewAccount ==
  ASSUME AccountInv, UNCHANGED users \/ UpdatePassword
  PROVE  /\ Stored(users') = Stored(users)
         /\ \A u \in Stored(users) : /\ users'[u].org = users[u].org /\ users'[u].email = users[u].email
                                     /\ users'[u].role = users[u].role
         /\ members' = members
<1>1. /\ Stored(users') = Stored(users)
      /\ \A u \in Stored(users) : /\ users'[u].org = users[u].org /\ users'[u].email = users[u].email
                                  /\ users'[u].role = users[u].role
  <2>1. CASE UNCHANGED users
    BY <2>1
  <2>2. CASE UpdatePassword
    <3>1. PICK u \in Stored(users) : users' = [users EXCEPT ![u] = WithPassword(users[u])]
      BY <2>2 DEF UpdatePassword, UpdateUser
    <3>2. u \in UserId /\ users[u] \in UserRow /\ users \in [UserId -> UserRow \cup {Nil}]
      BY DEF AccountInv, LinkInv, TypeOK, StorageTypeOK, Stored
    <3>3. /\ WithPassword(users[u]) \in UserRow
          /\ WithPassword(users[u]).org = users[u].org /\ WithPassword(users[u]).email = users[u].email
          /\ WithPassword(users[u]).role = users[u].role
      BY <3>2 DEF WithPassword, UserRow, Password
    <3> HIDE DEF WithPassword
    <3> QED
      BY <3>1, <3>2, <3>3, NilIsNoRow DEF Stored
  <2> QED
    BY <2>1, <2>2
<1>2. members' = members
  BY <1>1 DEF members
<1> QED
  BY <1>1, <1>2

\* What a request does to the accounts, and to Tenancy.
AccountStep == /\ IdsAreCounted' /\ AcceptedHasAccount'
               /\ [T!Next]_<<founded, invited, members>>

LEMMA FoundAccounts ==
  ASSUME AccountInv, CreateOrganizationWithUser
  PROVE  AccountStep
<1>t. TypeOK /\ StorageTypeOK
  BY DEF AccountInv, LinkInv, TypeOK
<1>1. PICK o \in OrgId, u \in UserId, e \in Email :
        /\ CreateOrganization(o, NewOrganization)
        /\ CreateUser(u, NewUser(o, e, "manager"))
        /\ UNCHANGED heap
  BY DEF CreateOrganizationWithUser
<1>2. NewOrganization \in OrgRow /\ NewUser(o, e, "manager") \in UserRow
  BY DEF NewOrganization, NewUser, OrgRow, UserRow, Role, Password, Time
<1>3. PICK row \in UserRow : row = NewUser(o, e, "manager")
  BY <1>2
<1>4. row.org = o /\ row.email = e /\ row.role = "manager"
  BY <1>3 DEF NewUser
<1>5. /\ o \notin Stored(organizations) /\ Stored(organizations') = Stored(organizations) \cup {o}
      /\ nextOrgID' = nextOrgID + 1 /\ o = nextOrgID
  BY <1>t, <1>1, <1>2, NilIsNoRow
     DEF AccountInv, IdsAreCounted, CreateOrganization, StorageTypeOK, Stored
<1>6. /\ u \notin Stored(users) /\ Stored(users') = Stored(users) \cup {u}
      /\ users'[u] = row /\ \A v \in Stored(users) : users'[v] = users[v]
      /\ nextUserID' = nextUserID + 1 /\ u = nextUserID
  BY <1>t, <1>1, <1>3, NilIsNoRow
     DEF AccountInv, IdsAreCounted, CreateUser, StorageTypeOK, Stored
<1>7. IdsAreCounted'
  BY <1>t, <1>5, <1>6, KeysAreNaturals DEF AccountInv, IdsAreCounted, StorageTypeOK, Stored
<1>8. AcceptedHasAccount'
  BY <1>1, <1>6 DEF AccountInv, AcceptedHasAccount, SameMember, Row
<1>9. members' = members \cup {[org |-> o, email |-> e, role |-> "manager"]}
  BY <1>4, <1>6 DEF members
<1>10. T!FoundWithManager(o, e)
  BY <1>1, <1>5, <1>9 DEF T!FoundWithManager, T!Taken, founded, invited, Row, Stored
<1> QED
  BY <1>7, <1>8, <1>10 DEF AccountStep, T!Next

\* A link leads to an invitation the organization made, replaced and withdrawn
\* invitations included: whoever accepts it was invited.
LEMMA JoinAccounts ==
  ASSUME AccountInv, AcceptInvitation
  PROVE  AccountStep
<1>t. TypeOK /\ StorageTypeOK
  BY DEF AccountInv, LinkInv, TypeOK
<1>1. PICK t \in Stored(invitations), u \in UserId :
        /\ CreateUser(u, NewUser(RowOf(t).org, RowOf(t).email, "user"))
        /\ UNCHANGED <<organizations, heap, nextOrgID>>
  BY DEF AcceptInvitation
<1>2. PICK a : a = invitations[t] /\ a \in Stored(heap) /\ RowOf(t) = Row(a)
  BY <1>t, LinkFacts, NilIsNoPointer DEF AccountInv, StorageTypeOK, Stored, RowOf
<1>3. Row(a).org \in OrgId /\ Row(a).email \in Email
  BY <1>t, <1>2 DEF StorageTypeOK, Stored, Row, Object, InvRow
<1>4. NewUser(Row(a).org, Row(a).email, "user") \in UserRow
  BY <1>3 DEF NewUser, UserRow, Role, Password, Time
<1>5. PICK row \in UserRow : row = NewUser(Row(a).org, Row(a).email, "user")
  BY <1>4
<1>6. row.org = Row(a).org /\ row.email = Row(a).email /\ row.role = "user"
  BY <1>5 DEF NewUser
<1>7. /\ u \notin Stored(users) /\ Stored(users') = Stored(users) \cup {u}
      /\ users'[u] = row /\ \A v \in Stored(users) : users'[v] = users[v]
      /\ nextUserID' = nextUserID + 1 /\ u = nextUserID
  BY <1>t, <1>1, <1>2, <1>5, NilIsNoRow
     DEF AccountInv, IdsAreCounted, CreateUser, StorageTypeOK, Stored
<1>8. IdsAreCounted'
  BY <1>t, <1>1, <1>7, KeysAreNaturals DEF AccountInv, IdsAreCounted, StorageTypeOK, Stored
<1>9. AcceptedHasAccount'
  BY <1>1, <1>7 DEF AccountInv, AcceptedHasAccount, SameMember, Row
<1>10. members' = members \cup {[org |-> Row(a).org, email |-> Row(a).email, role |-> "user"]}
  BY <1>6, <1>7 DEF members
<1>11. <<Row(a).org, Row(a).email>> \in invited /\ UNCHANGED <<founded, invited>>
  BY <1>1, <1>2 DEF invited, founded, Row
<1>12. T!Join(Row(a).org, Row(a).email)
  BY <1>10, <1>11 DEF T!Join, T!Taken
<1> QED
  BY <1>3, <1>8, <1>9, <1>12 DEF AccountStep, T!Next

LEMMA InviteAccounts ==
  ASSUME AccountInv, InviteUser
  PROVE  AccountStep
<1>t. TypeOK
  BY DEF AccountInv, LinkInv
<1>1. PICK o \in OrgId, e \in Email, i \in InvId, t \in Token, a \in Addr :
        /\ heap[a] = Nil
        /\ heap' = [heap EXCEPT ![a] = [id |-> i, row |-> NewInvitation(o, e, t)]]
        /\ UNCHANGED <<organizations, users, nextOrgID, nextUserID, now>>
  BY InviteEffect DEF AccountInv
<1>2. PICK row \in InvRow : row = NewInvitation(o, e, t)
  BY <1>t, RowTypes DEF TypeOK
<1>3. row.org = o /\ row.email = e /\ row.status = "pending"
  BY <1>2 DEF NewInvitation
<1>4. /\ Stored(heap') = Stored(heap) \cup {a} /\ heap'[a].row = row
      /\ \A b \in Stored(heap) : heap'[b] = heap[b]
  BY <1>t, <1>1, <1>2, HeapAfter DEF Stored
<1>5. AcceptedHasAccount'
  BY <1>1, <1>3, <1>4 DEF AccountInv, AcceptedHasAccount, Row, SameMember
<1>6. invited' = invited \cup {<<o, e>>}
  BY <1>3, <1>4 DEF invited, Row
<1>7. T!Invite(o, e)
  BY <1>1, <1>6 DEF T!Invite, founded, members, Stored
<1> QED
  BY <1>1, <1>5, <1>7 DEF AccountStep, AccountInv, IdsAreCounted, T!Next, Stored

LEMMA ResendAccounts ==
  ASSUME AccountInv, ResendInvitation
  PROVE  AccountStep
<1>t. TypeOK
  BY DEF AccountInv, LinkInv
<1>1. PICK i \in InvId, t \in Token : \E a \in Addr :
        /\ heap[a] \in Object /\ heap[a].id = i
        /\ heap' = [heap EXCEPT ![a] = [id |-> i, row |-> Renewed(Row(a), t)]]
        /\ UNCHANGED <<organizations, users, nextOrgID, nextUserID>>
  BY ResendEffect DEF AccountInv
<1>2. PICK a \in Addr :
        /\ heap[a] \in Object /\ heap[a].id = i
        /\ heap' = [heap EXCEPT ![a] = [id |-> i, row |-> Renewed(Row(a), t)]]
  BY <1>1
<1>3. Row(a) \in InvRow
  BY <1>2 DEF Row, Object
<1>4. PICK row \in InvRow : row = Renewed(Row(a), t)
  BY <1>t, <1>3, RenewedType DEF TypeOK
<1>5. row.org = Row(a).org /\ row.email = Row(a).email /\ row.status = "pending"
  BY <1>3, <1>4 DEF Renewed, InvRow
<1>6. /\ Stored(heap') = Stored(heap) /\ invited' = invited
      /\ \A b \in Stored(heap) : /\ Row(b)'.org = Row(b).org /\ Row(b)'.email = Row(b).email
                                 /\ Row(b)'.status = "accepted" => Row(b).status = "accepted"
  BY <1>2, <1>4, <1>5, NoNewInvitation
<1>7. AcceptedHasAccount'
  BY <1>1, <1>6 DEF AccountInv, AcceptedHasAccount, SameMember
<1> QED
  BY <1>1, <1>6, <1>7 DEF AccountStep, AccountInv, IdsAreCounted, founded, members, Stored

\* UpdatePassword accepts on behalf of the user whose password it sets.
LEMMA CloseAccounts ==
  ASSUME AccountInv, RejectInvitation \/ UpdatePassword
  PROVE  AccountStep
<1>1. UNCHANGED users \/ UpdatePassword
  BY DEF RejectInvitation
<1>2. /\ Stored(users') = Stored(users) /\ members' = members
      /\ \A u \in Stored(users) : users'[u].org = users[u].org /\ users'[u].email = users[u].email
  BY <1>1, NoNewAccount
<1>3. \A u \in Stored(users') : users'[u] # Nil
  BY DEF Stored
<1>4. ASSUME NEW row, \E u \in Stored(users) : SameMember(row, users[u])
      PROVE  \E u \in Stored(users') : SameMember(row, users'[u])
  BY <1>2, <1>3, <1>4 DEF SameMember
<1>5. UNCHANGED <<organizations, nextOrgID, nextUserID>>
  BY CloseEffect DEF AccountInv
<1>6. IdsAreCounted' /\ founded' = founded
  BY <1>2, <1>5 DEF AccountInv, IdsAreCounted, founded
<1>7. AcceptedHasAccount' /\ invited' = invited
  <2>1. CASE UNCHANGED heap
    BY <1>4, <2>1 DEF AccountInv, AcceptedHasAccount, invited, Row
  <2>2. ASSUME NEW a \in Addr, NEW s \in {"rejected", "accepted"}, heap[a] \in Object,
               heap' = [heap EXCEPT ![a] = [id |-> heap[a].id, row |-> [Row(a) EXCEPT !.status = s]]],
               s = "accepted" => \E u \in Stored(users) : SameMember(Row(a), users[u])
        PROVE  AcceptedHasAccount' /\ invited' = invited
    <3>1. Row(a) \in InvRow
      BY <2>2 DEF Row, Object
    <3>2. PICK row \in InvRow : row = [Row(a) EXCEPT !.status = s]
      BY <3>1, ClosedType DEF Status
    <3>3. row.org = Row(a).org /\ row.email = Row(a).email /\ row.status = s
      BY <3>1, <3>2 DEF InvRow
    <3>4. /\ Stored(heap') = Stored(heap) /\ invited' = invited
          /\ \A b \in Stored(heap) : /\ Row(b)'.org = Row(b).org /\ Row(b)'.email = Row(b).email
                                     /\ Row(b)'.status = "accepted" =>
                                           (b = a /\ s = "accepted") \/ Row(b).status = "accepted"
      BY <2>2, <3>2, <3>3, NoNewInvitation
    <3>5. ASSUME NEW b \in Stored(heap), Row(b)'.status = "accepted"
          PROVE  \E u \in Stored(users') : SameMember(Row(b)', users'[u])
      <4>1. \E u \in Stored(users) : SameMember(Row(b), users[u])
        BY <2>2, <3>4, <3>5 DEF AccountInv, AcceptedHasAccount
      <4>2. PICK u \in Stored(users') : SameMember(Row(b), users'[u])
        BY <1>4, <4>1
      <4> QED
        BY <3>4, <4>2 DEF SameMember
    <3> QED
      BY <3>4, <3>5 DEF AcceptedHasAccount
  <2> QED
    BY <2>1, <2>2, CloseEffect DEF AccountInv
<1> QED
  BY <1>2, <1>6, <1>7 DEF AccountStep

LEMMA AccountNext ==
  ASSUME AccountInv, [Next]_vars
  PROVE  AccountInv' /\ AccountStep
<1>1. ASSUME WithdrawInvitation \/ Tick \/ UNCHANGED vars PROVE AccountStep
  <2>1. UNCHANGED <<organizations, users, heap, nextOrgID, nextUserID>>
    BY <1>1 DEF WithdrawInvitation, DeleteInvitation, Tick, vars, maps
  <2>2. UNCHANGED <<founded, invited, members>>
    BY <2>1 DEF founded, invited, members, Stored, Row
  <2>3. IdsAreCounted' /\ AcceptedHasAccount'
    BY <2>1 DEF AccountInv, IdsAreCounted, AcceptedHasAccount, SameMember, Stored, Row
  <2> QED
    BY <2>2, <2>3 DEF AccountStep
<1>2. AccountStep
  BY <1>1, FoundAccounts, JoinAccounts, InviteAccounts, ResendAccounts, CloseAccounts DEF Next
<1> QED
  BY <1>2, LinkNext DEF AccountInv, AccountStep

LEMMA AccountInit == Init => AccountInv
<1> SUFFICES ASSUME Init PROVE AccountInv
  OBVIOUS
<1>1. Stored(organizations) = {} /\ Stored(users) = {} /\ Stored(heap) = {}
  BY DEF Init, StorageInit, Stored
<1> QED
  BY <1>1, LinkInit DEF AccountInv, IdsAreCounted, AcceptedHasAccount

LEMMA AccountInvariant == Spec => []AccountInv
BY AccountInit, AccountNext, PTL DEF Spec

\* An accepted invitation has an account at its organization and address,
\* although over this storage any number of links reach the same row.
THEOREM NobodyElseAccepts == Spec => []AcceptedHasAccount
<1>1. AccountInv => AcceptedHasAccount
  BY DEF AccountInv
<1> QED
  BY <1>1, AccountInvariant, PTL

\* A Manager over InMemoryStorage implements Tenancy, but for the uniqueness of
\* addresses: CreateOrganizationWithUser founds and appoints in one step, and
\* whoever joins through AcceptInvitation was invited, by a replaced link too.
THEOREM Implements == Spec => ImplementsTenancy
<1>1. Init => T!Init
  BY DEF Init, StorageInit, T!Init, founded, invited, members, Stored
<1>2. AccountInv /\ [Next]_vars => [T!Next]_<<founded, invited, members>>
  BY AccountNext DEF AccountStep
<1> QED
  BY <1>1, <1>2, AccountInvariant, PTL DEF Spec, ImplementsTenancy, T!Spec

-----------------------------------------------------------------------------
(* Managers *)

\* An organization has one manager at most, and a manager an organization: no
\* other account is ever inserted as a manager, although an address, and the
\* manager's own too, may join any number of times.
OneManagerPerOrganization ==
    /\ \A u \in Stored(users) : users[u].role = "manager" => users[u].org \in founded
    /\ \A u, v \in Stored(users) :
          users[u].role = "manager" /\ users[v].role = "manager" /\ users[u].org = users[v].org => u = v

\* A user inserted beside the others, as a member or as the manager of a new
\* organization.
LEMMA ManagerAfterInsert ==
  ASSUME OneManagerPerOrganization, NEW u \in UserId,
         Stored(users') = Stored(users) \cup {u},
         \A v \in Stored(users) : users'[v] = users[v],
         founded \subseteq founded',
         users'[u].role = "manager" => users'[u].org \in founded' \ founded
  PROVE  OneManagerPerOrganization'
<1>1. \A v \in Stored(users) : v # u => users'[v] = users[v]
  OBVIOUS
<1>2. ASSUME NEW v \in Stored(users'), users'[v].role = "manager" PROVE users'[v].org \in founded'
  BY <1>2 DEF OneManagerPerOrganization
<1>3. ASSUME NEW v \in Stored(users'), NEW w \in Stored(users'),
             users'[v].role = "manager", users'[w].role = "manager", users'[v].org = users'[w].org
      PROVE  v = w
  <2>1. CASE v \in Stored(users) /\ w \in Stored(users)
    BY <1>3, <2>1 DEF OneManagerPerOrganization
  <2>2. CASE v = u \/ w = u
    BY <1>3, <2>2 DEF OneManagerPerOrganization
  <2> QED
    BY <2>1, <2>2
<1> QED
  BY <1>2, <1>3 DEF OneManagerPerOrganization

LEMMA ManagerNext ==
  ASSUME AccountInv, OneManagerPerOrganization, [Next]_vars
  PROVE  OneManagerPerOrganization'
<1>t. TypeOK /\ StorageTypeOK
  BY DEF AccountInv, LinkInv, TypeOK
<1>1. CASE CreateOrganizationWithUser
  <2>1. PICK o \in OrgId, u \in UserId, e \in Email :
          /\ CreateOrganization(o, NewOrganization)
          /\ CreateUser(u, NewUser(o, e, "manager"))
    BY <1>1 DEF CreateOrganizationWithUser
  <2>2. NewOrganization \in OrgRow /\ NewUser(o, e, "manager") \in UserRow
    BY DEF NewOrganization, NewUser, OrgRow, UserRow, Role, Password, Time
  <2>3. PICK row \in UserRow : row = NewUser(o, e, "manager")
    BY <2>2
  <2>4. row.org = o
    BY <2>3 DEF NewUser
  <2>5. o \notin founded /\ founded' = founded \cup {o}
    BY <1>t, <2>1, <2>2, NilIsNoRow
       DEF AccountInv, IdsAreCounted, CreateOrganization, StorageTypeOK, Stored, founded
  <2>6. /\ Stored(users') = Stored(users) \cup {u} /\ u \notin Stored(users)
        /\ users'[u] = row /\ \A v \in Stored(users) : users'[v] = users[v]
    BY <1>t, <2>1, <2>3, NilIsNoRow
       DEF AccountInv, IdsAreCounted, CreateUser, StorageTypeOK, Stored
  <2> QED
    BY <2>4, <2>5, <2>6, ManagerAfterInsert
<1>2. CASE AcceptInvitation
  <2>1. PICK t \in Stored(invitations), u \in UserId :
          /\ CreateUser(u, NewUser(RowOf(t).org, RowOf(t).email, "user"))
          /\ UNCHANGED organizations
    BY <1>2 DEF AcceptInvitation
  <2>2. RowOf(t).org \in OrgId /\ RowOf(t).email \in Email
    BY <1>t, LinkFacts, NilIsNoPointer
       DEF AccountInv, StorageTypeOK, Stored, RowOf, Row, Object, InvRow
  <2>3. PICK row \in UserRow : row = NewUser(RowOf(t).org, RowOf(t).email, "user")
    BY <2>2 DEF NewUser, UserRow, Role, Password, Time
  <2>4. row.role = "user" /\ "user" # "manager"
    BY <2>3 DEF NewUser
  <2>5. /\ Stored(users') = Stored(users) \cup {u} /\ u \notin Stored(users)
        /\ users'[u] = row /\ \A v \in Stored(users) : users'[v] = users[v]
    BY <1>t, <2>1, <2>3, NilIsNoRow
       DEF AccountInv, IdsAreCounted, CreateUser, StorageTypeOK, Stored
  <2>6. founded' = founded
    BY <2>1 DEF founded, Stored
  <2> QED
    BY <2>4, <2>5, <2>6, ManagerAfterInsert
<1>3. CASE UNCHANGED users \/ UpdatePassword
  <2>1. /\ Stored(users') = Stored(users)
        /\ \A u \in Stored(users) : users'[u].org = users[u].org /\ users'[u].role = users[u].role
    BY <1>3, NoNewAccount
  <2>2. founded \subseteq founded'
    <3>1. CASE UNCHANGED organizations
      BY <3>1 DEF founded, Stored
    <3>2. CASE CreateOrganizationWithUser
      BY <1>t, <3>2, NilIsNoRow
         DEF CreateOrganizationWithUser, CreateOrganization, StorageTypeOK, Stored, founded,
             NewOrganization, OrgRow, Time
    <3> QED
      BY <3>1, <3>2 DEF Next, InviteUser, AcceptInvitation, RejectInvitation, ResendInvitation,
                        UpdatePassword, WithdrawInvitation, DeleteInvitation, Tick, vars, maps
  <2> QED
    BY <2>1, <2>2 DEF OneManagerPerOrganization
<1> QED
  BY <1>1, <1>2, <1>3 DEF Next, InviteUser, RejectInvitation, ResendInvitation,
                          WithdrawInvitation, DeleteInvitation, Tick, vars, maps

\* CreateOrganizationWithUser and AcceptInvitation over the maps, which keep
\* no address unique: an organization never gets a second manager.
THEOREM OneManager == Spec => []OneManagerPerOrganization
<1>1. Init => OneManagerPerOrganization
  BY DEF Init, StorageInit, OneManagerPerOrganization, Stored
<1> QED
  BY <1>1, ManagerNext, AccountInvariant, PTL DEF Spec

-----------------------------------------------------------------------------
(* The link mailed last *)

MailReaches(i) ==
    /\ invitations[lastMailed[i].token] = invitationsByID[i]
    /\ lastMailed[i].expiresAt <= Row(invitationsByID[i]).expiresAt

\* The link mailed last still reaches the stored invitation, which expires no
\* earlier than the e-mail says, and no later than one made now would.
LinksAreCurrent ==
    /\ \A i \in Stored(lastMailed) : /\ i < nextInvID
                                     /\ i \in Stored(invitationsByID) => MailReaches(i)
    /\ \A a \in Stored(heap) : Row(a).expiresAt <= CalculateExpiry

MailInv == LinkInv /\ LinksAreCurrent

LEMMA MailTypes ==
  ASSUME LinkInv
  PROVE  /\ DOMAIN lastMailed = InvId /\ DOMAIN heap = Addr /\ DOMAIN invitationsByID = InvId
         /\ \A i \in Stored(lastMailed) : /\ i \in InvId /\ lastMailed[i].token \in Token
                                          /\ lastMailed[i].expiresAt \in Int
         /\ \A a \in Stored(heap) : a \in Addr /\ Row(a) \in InvRow /\ Row(a).expiresAt \in Int
         /\ CalculateExpiry \in Int
BY LocalConfigAssumption
DEF LinkInv, TypeOK, StorageTypeOK, Stored, Mail, Object, InvRow, Row, CalculateExpiry

\* An e-mail that goes out names the link and the time of the row; one that
\* does not leaves what went out before.
LEMMA SendEffect ==
  ASSUME LinkInv, NEW i \in InvId, NEW row, SendInvitation(i, row)
  PROVE  /\ Stored(lastMailed') \subseteq Stored(lastMailed) \cup {i}
         /\ \A j \in InvId \ {i} : lastMailed'[j] = lastMailed[j]
         /\ \/ lastMailed'[i] = lastMailed[i]
            \/ lastMailed'[i].token = row.token /\ lastMailed'[i].expiresAt = row.expiresAt
BY MailTypes DEF SendInvitation, Stored

\* An invitation written at an address, under a token that led nowhere before.
LEMMA MailWritten ==
  ASSUME MailInv, LinkInv', NEW i \in InvId, NEW t \in Token, NEW a \in Addr, NEW row \in InvRow,
         row.token = t, row.expiresAt = CalculateExpiry,
         invitations[t] = Nil,
         heap' = [heap EXCEPT ![a] = [id |-> i, row |-> row]],
         invitations' = [invitations EXCEPT ![t] = a],
         invitationsByID' = [invitationsByID EXCEPT ![i] = a],
         SendInvitation(i, row), UNCHANGED now, i < nextInvID', nextInvID <= nextInvID',
         heap[a] = Nil \/ heap[a].id = i,
         lastMailed[i] # Nil => invitationsByID[i] = a
  PROVE  MailInv'
<1> USE NilIsNoPointer
<1>t. TypeOK /\ StorageTypeOK /\ LinkInv
  BY DEF MailInv, LinkInv, TypeOK
<1>n. nextInvID \in Nat /\ nextInvID' \in Nat /\ InvId \subseteq Nat
  BY KeysAreNaturals DEF MailInv, LinkInv, TypeOK, StorageTypeOK
<1>1. CalculateExpiry' = CalculateExpiry
  BY DEF CalculateExpiry
<1>2. /\ Stored(heap') = Stored(heap) \cup {a} /\ heap'[a].row = row
      /\ \A b \in Stored(heap) : b # a => heap'[b] = heap[b]
  BY <1>t, HeapAfter
<1>3. \A b \in Stored(heap') : Row(b)'.expiresAt <= CalculateExpiry'
  BY <1>1, <1>2, <1>t, MailTypes DEF MailInv, LinksAreCurrent, Row
<1>4. /\ invitations'[t] = a /\ invitationsByID'[i] = a
      /\ \A s \in Token \ {t} : invitations'[s] = invitations[s]
      /\ \A j \in InvId \ {i} : invitationsByID'[j] = invitationsByID[j]
  BY <1>t DEF StorageTypeOK
<1>5. /\ Stored(lastMailed') \subseteq Stored(lastMailed) \cup {i}
      /\ \A j \in InvId \ {i} : lastMailed'[j] = lastMailed[j]
      /\ \/ lastMailed'[i] = lastMailed[i]
         \/ lastMailed'[i].token = t /\ lastMailed'[i].expiresAt = row.expiresAt
  BY <1>t, SendEffect
<1>6. ASSUME NEW j \in Stored(lastMailed') PROVE j < nextInvID'
  BY <1>5, <1>6, <1>n, <1>t, MailTypes DEF MailInv, LinksAreCurrent
<1>7. ASSUME NEW j \in Stored(lastMailed'), j # i, j \in Stored(invitationsByID')
      PROVE  MailReaches(j)'
  <2>1. /\ j \in InvId /\ j \in Stored(lastMailed) /\ lastMailed'[j] = lastMailed[j]
        /\ lastMailed[j].token \in Token
    BY <1>t, <1>5, <1>7, MailTypes
  <2>2. j \in Stored(invitationsByID) /\ invitationsByID'[j] = invitationsByID[j]
    BY <1>t, <1>4, <1>7, <2>1, MailTypes DEF Stored
  <2>3. MailReaches(j)
    BY <2>1, <2>2 DEF MailInv, LinksAreCurrent
  <2>4. /\ invitationsByID[j] # Nil /\ invitationsByID[j] \in Addr
        /\ heap[invitationsByID[j]] \in Object /\ heap[invitationsByID[j]].id = j
    BY <1>t, <2>1, <2>2, LinkFacts DEF Stored
  <2>5. lastMailed[j].token # t
    BY <2>3, <2>4 DEF MailReaches
  <2>6. invitationsByID[j] # a /\ invitationsByID[j] \in Stored(heap)
    BY <1>t, <1>7, <2>4, MailTypes DEF Stored
  <2>7. heap'[invitationsByID[j]] = heap[invitationsByID[j]]
    BY <1>2, <2>6
  <2> QED
    BY <1>4, <2>1, <2>2, <2>3, <2>5, <2>7 DEF MailReaches, Row
<1>8. ASSUME i \in Stored(lastMailed') PROVE MailReaches(i)'
  <2>1. CASE lastMailed'[i].token = t /\ lastMailed'[i].expiresAt = row.expiresAt
    <3>1. row.expiresAt <= row.expiresAt
      BY <1>t, MailTypes
    <3> QED
      BY <1>2, <1>4, <2>1, <3>1 DEF MailReaches, Row
  <2>2. CASE lastMailed'[i] = lastMailed[i]
    <3>1. i \in Stored(lastMailed) /\ lastMailed[i] # Nil
      BY <1>8, <2>2, <1>t, MailTypes DEF Stored
    <3>2. invitationsByID[i] = a /\ i \in Stored(invitationsByID)
      BY <3>1, <1>t, MailTypes DEF Stored
    <3>3. MailReaches(i) /\ lastMailed[i].token \in Token /\ lastMailed[i].expiresAt \in Int
      BY <1>t, <3>1, <3>2, MailTypes DEF MailInv, LinksAreCurrent
    <3>4. a \in Stored(heap) /\ Row(a).expiresAt \in Int
      BY <1>t, <3>2, LinkFacts, MailTypes DEF Stored
    <3>5. Row(a).expiresAt <= CalculateExpiry
      BY <3>4 DEF MailInv, LinksAreCurrent
    <3>6. lastMailed[i].expiresAt <= row.expiresAt
      BY <1>t, <3>2, <3>3, <3>4, <3>5, MailTypes DEF MailReaches
    <3> QED
      BY <1>2, <1>4, <2>2, <3>2, <3>3, <3>6 DEF MailReaches, Row
  <2> QED
    BY <1>5, <2>1, <2>2
<1> QED
  BY <1>3, <1>6, <1>7, <1>8 DEF MailInv, LinksAreCurrent

LEMMA MailInvite ==
  ASSUME MailInv, InviteUser
  PROVE  MailInv'
<1>t. TypeOK /\ LinkInv
  BY DEF MailInv, LinkInv
<1>1. PICK o \in OrgId, e \in Email, i \in InvId, t \in Token, a \in Addr :
        /\ i = nextInvID /\ nextInvID' = i + 1
        /\ heap[a] = Nil /\ invitations[t] = Nil
        /\ heap' = [heap EXCEPT ![a] = [id |-> i, row |-> NewInvitation(o, e, t)]]
        /\ invitations' = [invitations EXCEPT ![t] = a]
        /\ invitationsByID' = [invitationsByID EXCEPT ![i] = a]
        /\ SendInvitation(i, NewInvitation(o, e, t))
        /\ UNCHANGED now
  BY <1>t, InviteEffect
<1>2. PICK row \in InvRow : row = NewInvitation(o, e, t)
  BY <1>t, RowTypes DEF TypeOK
<1>3. row.token = t /\ row.expiresAt = CalculateExpiry
  BY <1>2 DEF NewInvitation
<1>4. i < nextInvID' /\ nextInvID <= nextInvID'
  BY <1>1, KeysAreNaturals
<1>5. lastMailed[i] = Nil
  <2>1. ASSUME lastMailed[i] # Nil PROVE i < nextInvID
    BY <1>t, <2>1, MailTypes DEF MailInv, LinksAreCurrent, Stored
  <2> QED
    BY <1>1, <2>1, KeysAreNaturals
<1>6. LinkInv'
  BY <1>t, InviteStep
<1> QED
  BY <1>1, <1>2, <1>3, <1>4, <1>5, <1>6, MailWritten

LEMMA MailResend ==
  ASSUME MailInv, ResendInvitation
  PROVE  MailInv'
<1>t. TypeOK /\ StorageTypeOK /\ LinkInv
  BY DEF MailInv, LinkInv, TypeOK
<1>1. PICK i \in InvId, t \in Token : \E a \in Addr :
        /\ a = invitationsByID[i] /\ heap[a] \in Object /\ heap[a].id = i
        /\ invitations[t] = Nil
        /\ heap' = [heap EXCEPT ![a] = [id |-> i, row |-> Renewed(Row(a), t)]]
        /\ invitations' = [invitations EXCEPT ![t] = a]
        /\ SendInvitation(i, Renewed(Row(a), t))
        /\ UNCHANGED <<invitationsByID, nextInvID, now>>
  BY <1>t, ResendEffect
<1>2. PICK a \in Addr :
        /\ a = invitationsByID[i] /\ heap[a] \in Object /\ heap[a].id = i
        /\ invitations[t] = Nil
        /\ heap' = [heap EXCEPT ![a] = [id |-> i, row |-> Renewed(Row(a), t)]]
        /\ invitations' = [invitations EXCEPT ![t] = a]
        /\ SendInvitation(i, Renewed(Row(a), t))
        /\ UNCHANGED <<invitationsByID, nextInvID, now>>
  BY <1>1
<1>3. Row(a) \in InvRow
  BY <1>2 DEF Row, Object
<1>4. PICK row \in InvRow : row = Renewed(Row(a), t)
  BY <1>t, <1>3, RenewedType DEF TypeOK
<1>5. row.token = t /\ row.expiresAt = CalculateExpiry
  BY <1>3, <1>4 DEF Renewed, InvRow
<1>6. invitationsByID' = [invitationsByID EXCEPT ![i] = a]
  BY <1>t, <1>2 DEF StorageTypeOK
<1>7. i < nextInvID' /\ nextInvID <= nextInvID'
  <2>1. heap[a].id < nextInvID
    BY <1>t, <1>2, NilIsNoPointer DEF LinkInv, PointersAreGood, Stored, StorageTypeOK
  <2> QED
    BY <1>t, <1>2, <2>1 DEF StorageTypeOK
<1>8. LinkInv'
  BY <1>t, ResendStep
<1> QED
  BY <1>2, <1>4, <1>5, <1>6, <1>7, <1>8, MailWritten

LEMMA MailClose ==
  ASSUME MailInv, RejectInvitation \/ UpdatePassword
  PROVE  MailInv'
<1>t. TypeOK /\ StorageTypeOK /\ LinkInv
  BY DEF MailInv, LinkInv, TypeOK
<1>1. UNCHANGED <<invitations, invitationsByID, nextInvID, now, lastMailed>>
  BY <1>t, CloseEffect
<1>2. /\ Stored(heap') = Stored(heap)
      /\ \A b \in Stored(heap) : heap'[b].row.expiresAt = heap[b].row.expiresAt
  <2>1. CASE UNCHANGED heap
    BY <2>1
  <2>2. ASSUME NEW a \in Addr, NEW s \in {"rejected", "accepted"}, heap[a] \in Object,
               heap' = [heap EXCEPT ![a] = [id |-> heap[a].id, row |-> [Row(a) EXCEPT !.status = s]]]
        PROVE  /\ Stored(heap') = Stored(heap)
               /\ \A b \in Stored(heap) : heap'[b].row.expiresAt = heap[b].row.expiresAt
    <3>1. Row(a) \in InvRow /\ heap[a].id \in InvId /\ a \in Stored(heap)
      BY <1>t, <2>2, NilIsNoPointer DEF Row, Object, StorageTypeOK, Stored
    <3>2. PICK row : row = [Row(a) EXCEPT !.status = s]
      OBVIOUS
    <3>3. row.expiresAt = heap[a].row.expiresAt
      BY <3>1, <3>2 DEF InvRow, Row
    <3>4. heap' = [heap EXCEPT ![a] = [id |-> heap[a].id, row |-> row]] /\ row \in InvRow
      BY <2>2, <3>1, <3>2, ClosedType DEF Status
    <3>5. /\ Stored(heap') = Stored(heap) \cup {a} /\ heap'[a].row = row
          /\ \A b \in Stored(heap) : b # a => heap'[b] = heap[b]
      BY <1>t, <3>1, <3>4, HeapAfter
    <3> QED
      BY <3>1, <3>3, <3>5
  <2> QED
    BY <1>t, <2>1, <2>2, CloseEffect
<1>3. LinkInv'
  BY <1>t, RejectStep, PasswordStep
<1>4. \A i \in Stored(invitationsByID) : i \in InvId /\ invitationsByID[i] \in Stored(heap)
  BY <1>t, LinkFacts, MailTypes, NilIsNoPointer DEF Stored
<1>5. \A i \in Stored(invitationsByID) : MailReaches(i) => MailReaches(i)'
  BY <1>1, <1>2, <1>4 DEF MailReaches, Row
<1>6. \A a \in Stored(heap') : Row(a)'.expiresAt <= CalculateExpiry'
  BY <1>1, <1>2 DEF MailInv, LinksAreCurrent, Row, CalculateExpiry
<1> QED
  BY <1>1, <1>3, <1>5, <1>6 DEF MailInv, LinksAreCurrent

\* Withdrawing an invitation removes one entry by token: its own.
LEMMA MailWithdraw ==
  ASSUME MailInv, WithdrawInvitation
  PROVE  MailInv'
<1> USE NilIsNoPointer
<1>t. TypeOK /\ StorageTypeOK /\ LinkInv
  BY DEF MailInv, LinkInv, TypeOK
<1>1. PICK i \in InvId : DeleteInvitation(i) /\ UNCHANGED <<now, lastMailed>>
  BY DEF WithdrawInvitation
<1>2. PICK a : a = invitationsByID[i]
  OBVIOUS
<1>3. /\ a # Nil /\ a \in Addr /\ heap[a] \in Object /\ heap[a].id = i
      /\ invitations' = [invitations EXCEPT ![heap[a].row.token] = Nil]
      /\ invitationsByID' = [invitationsByID EXCEPT ![i] = Nil]
      /\ UNCHANGED <<heap, nextInvID>>
  BY <1>t, <1>1, <1>2, LinkFacts DEF DeleteInvitation
<1>4. ASSUME NEW j \in Stored(lastMailed), j \in Stored(invitationsByID')
      PROVE  MailReaches(j)'
  <2>1. j \in InvId /\ j # i /\ invitationsByID'[j] = invitationsByID[j]
    BY <1>t, <1>3, <1>4, MailTypes DEF Stored, StorageTypeOK
  <2>2. invitationsByID[j] # Nil /\ j \in Stored(invitationsByID) /\ heap[invitationsByID[j]].id = j
    BY <1>t, <1>3, <1>4, <2>1, LinkFacts, MailTypes DEF Stored
  <2>3. MailReaches(j) /\ lastMailed[j].token \in Token
    BY <1>t, <1>4, <2>2, MailTypes DEF MailInv, LinksAreCurrent
  <2>4. invitations[heap[a].row.token] = a
    BY <1>t, <1>2, <1>3, LinkFacts
  <2>5. lastMailed[j].token # heap[a].row.token
    BY <1>3, <2>1, <2>2, <2>3, <2>4 DEF MailReaches
  <2>6. invitations'[lastMailed[j].token] = invitations[lastMailed[j].token]
    BY <1>t, <1>3, <2>3, <2>5 DEF StorageTypeOK
  <2> QED
    BY <1>1, <1>3, <2>1, <2>3, <2>6 DEF MailReaches, Row
<1>5. LinkInv'
  BY <1>t, WithdrawStep
<1>6. \A b \in Stored(heap') : Row(b)'.expiresAt <= CalculateExpiry'
  BY <1>1, <1>3 DEF MailInv, LinksAreCurrent, Row, CalculateExpiry
<1> QED
  BY <1>1, <1>3, <1>4, <1>5, <1>6 DEF MailInv, LinksAreCurrent

LEMMA MailQuiet ==
  ASSUME MailInv, CreateOrganizationWithUser \/ AcceptInvitation \/ Tick \/ UNCHANGED vars
  PROVE  MailInv'
<1>t. TypeOK /\ LinkInv
  BY DEF MailInv, LinkInv
<1>1. UNCHANGED <<heap, invitations, invitationsByID, nextInvID, lastMailed>>
  BY DEF CreateOrganizationWithUser, AcceptInvitation, Tick, vars, maps
<1>2. now' = now \/ now' = now + 1
  BY DEF CreateOrganizationWithUser, AcceptInvitation, Tick, vars, maps
<1>3. CalculateExpiry <= CalculateExpiry' /\ CalculateExpiry' \in Int
  BY <1>2, <1>t, LocalConfigAssumption DEF CalculateExpiry, TypeOK
<1>4. \A a \in Stored(heap) : Row(a).expiresAt <= CalculateExpiry'
  BY <1>3, <1>t, MailTypes DEF MailInv, LinksAreCurrent
<1>5. LinkInv'
  BY <1>t, QuietSteps
<1> QED
  BY <1>1, <1>4, <1>5 DEF MailInv, LinksAreCurrent, MailReaches, Row, Stored

LEMMA MailNext == MailInv /\ [Next]_vars => MailInv'
BY MailQuiet, MailInvite, MailClose, MailResend, MailWithdraw DEF Next

LEMMA MailInit == Init => MailInv
<1> SUFFICES ASSUME Init PROVE MailInv
  OBVIOUS
<1>1. Stored(lastMailed) = {} /\ Stored(heap) = {}
  BY DEF Init, StorageInit, Stored
<1> QED
  BY <1>1, LinkInit DEF MailInv, LinksAreCurrent

LEMMA LiveLinks == MailInv => MailedLinkIsLive
<1> SUFFICES ASSUME MailInv, NEW i \in Stored(invitationsByID),
                    Row(invitationsByID[i]).status = "pending",
                    lastMailed[i] # Nil, now <= lastMailed[i].expiresAt
             PROVE  ValidateInvitationTokenAndGetRedirectURL(lastMailed[i].token)
  BY DEF MailedLinkIsLive
<1>t. TypeOK /\ LinkInv
  BY DEF MailInv, LinkInv
<1>1. i \in InvId /\ i \in Stored(lastMailed)
  BY <1>t, MailTypes DEF Stored
<1>2. MailReaches(i)
  BY <1>1 DEF MailInv, LinksAreCurrent
<1>3. /\ invitationsByID[i] # Nil /\ invitationsByID[i] \in Stored(heap)
  BY <1>t, <1>1, LinkFacts, MailTypes, NilIsNoPointer DEF Stored
<1>4. now <= Row(invitationsByID[i]).expiresAt /\ Row(invitationsByID[i]).expiresAt \in Int /\ now \in Int
  BY <1>t, <1>1, <1>2, <1>3, MailTypes DEF MailReaches, TypeOK
<1>5. IsAcceptable(Row(invitationsByID[i]))
  BY <1>4 DEF IsAcceptable, IsExpired
<1> QED
  BY <1>2, <1>3, <1>5 DEF MailReaches, ValidateInvitationTokenAndGetRedirectURL, RowOf

\* The link of the last e-mail that SendInvitation got out for a pending
\* invitation passes ValidateInvitationTokenAndGetRedirectURL until the time
\* that e-mail names, unless the invitation is withdrawn: over this storage a
\* resend whose e-mail fails leaves the earlier link open.
THEOREM MailedLinksStayLive == Spec => []MailedLinkIsLive
<1>1. Spec => []MailInv
  BY MailInit, MailNext, PTL DEF Spec
<1> QED
  BY <1>1, LiveLinks, PTL
=============================================================================
