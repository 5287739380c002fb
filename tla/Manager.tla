------------------------------ MODULE Manager ------------------------------
(***************************************************************************)
(* The service of orgboss: the methods of Manager (manager.go), with the   *)
(* default role checker and the default deletion handler, over             *)
(* PostgresStorage.                                                        *)
(*                                                                         *)
(* A process of Procs is a goroutine serving one request at a time.        *)
(* Manager takes no lock and opens no transaction, so a request is a       *)
(* sequence of storage calls and requests interleave between any two.      *)
(* The action that starts a request makes its checks and its first reads;  *)
(* each later storage call, or e-mail, is an action of its own.  What a    *)
(* request has read and still holds is in req[p]: that is the row its next *)
(* Save writes back whole.                                                 *)
(*                                                                         *)
(* The checks a handler makes with further reads of the same user          *)
(* (ValidateOrganizationAccess, CheckPermission) are part of the starting  *)
(* action: they read only org and role, which no step changes              *)
(* (TenancyStable).  A check that fails returns an error and changes       *)
(* nothing, so it is the absence of a step.                                *)
(*                                                                         *)
(* Hooks are all nil: NewHooks sets none and nothing outside the package   *)
(* can reach Manager.hooks.                                                *)
(***************************************************************************)
EXTENDS PostgresStorage, Rules, Sequences

CONSTANTS Procs,                \* goroutines serving requests
          Ops,                  \* the methods the clients of an instance call
          MaxBulkInviteCount,   \* Config.MaxBulkInviteCount
          MaxNow,               \* bound on the clock
          Faults                \* what may fail in an instance

FaultKind == {"abort",   \* the request dies, or a storage call's error ends it
              "invite",  \* one InviteUser of a bulk invitation fails
              "mail",    \* SendInvitation fails, or no EmailSender is set
              "list"}    \* GetUsersByOrganizationID fails

ASSUME ConfigAssumption == /\ ExpiryDuration \in Int
                           /\ MaxBulkInviteCount \in Int
                           /\ MaxNow \in Nat
                           /\ Faults \subseteq FaultKind

VARIABLES lastMailed,  \* the e-mail that went out last for each invitation
          req          \* the request each process serves

vars == <<tables, now, issuedTo, lastMailed, req>>

Op == {"CreateOrganizationWithUser", "InviteUser", "InviteUsers",
       "AcceptInvitation", "RejectInvitation", "DeleteUser",
       "DeleteOrganization", "ResendInvitation", "UpdatePassword",
       "UpdateProfile", "UpdateOrganization"}

\* Where a request stands: the storage call or e-mail it makes next.
Pc == {"idle", "createUser", "inviteNext", "sendMail", "readMembers",
       "saveUsers", "saveOrganization", "saveInvitation", "readPending"}

Mail == [token : Token, expiresAt : Int]

RequestRecord ==
    [op      : Op \cup {Nil},
     pc      : Pc,
     org     : OrgId \cup {Nil},                \* the organization served
     orow    : OrgRow \cup {Nil},               \* its row, to be saved
     urows   : [UserId -> UserRow \cup {Nil}],  \* user rows to be saved
     newUser : UserRow \cup {Nil},              \* the user to insert
     email   : Email \cup {Nil},                \* whose invitation to accept
     inv     : InvId \cup {Nil},                \* the invitation served
     irow    : InvRow \cup {Nil},               \* its row, to be saved or mailed
     todo    : Seq(Email)]                      \* the rest of a bulk invitation

\* What a request holds where it stands: no storage call, and no e-mail, is
\* made with a row or an id that was never read.
HoldsItsArguments(r) ==
    /\ r.pc = "createUser" => r.newUser # Nil
    /\ r.pc = "inviteNext" => r.todo # <<>>
    /\ r.pc \in {"sendMail", "saveInvitation"} => r.inv # Nil /\ r.irow # Nil
    /\ r.todo # <<>> => r.org # Nil
    /\ r.pc \in {"readMembers", "saveOrganization"} => r.orow # Nil
    /\ r.orow # Nil => r.org # Nil /\ r.op # "UpdatePassword"
    /\ r.pc = "saveUsers" => \E u \in UserId : r.urows[u] # Nil
    /\ r.pc = "saveUsers" /\ r.op = "UpdatePassword" => r.org # Nil /\ r.email # Nil
    /\ r.pc = "readPending" => r.op = "UpdatePassword" /\ r.org # Nil /\ r.email # Nil

Request == {r \in RequestRecord : HoldsItsArguments(r)}

NoUsers == [u \in UserId |-> Nil]

Blank == [op |-> Nil, pc |-> "idle", org |-> Nil, orow |-> Nil, urows |-> NoUsers,
          newUser |-> Nil, email |-> Nil, inv |-> Nil, irow |-> Nil, todo |-> <<>>]

TypeOK == /\ StorageTypeOK
          /\ now \in 0..MaxNow
          /\ issuedTo \in [Token -> InvId \cup {Nil}]
          /\ lastMailed \in [InvId -> Mail \cup {Nil}]
          /\ req \in [Procs -> Request]

Init == /\ StorageInit
        /\ now = 0
        /\ issuedTo = [t \in Token |-> Nil]
        /\ lastMailed = [i \in InvId |-> Nil]
        /\ req = [p \in Procs |-> Blank]

-----------------------------------------------------------------------------
(* Helpers *)

Starts(p, op) == op \in Ops /\ req[p].pc = "idle"

At(p, pc) == req[p].pc = pc

Become(p, r) == req' = [req EXCEPT ![p] = r]

Return(p) == Become(p, Blank)

ValidateOrganizationAccess(u, o) == users[u].org = o

CheckPermission(u, o, action) == users[u].org = o /\ HasPermission(users[u].role, action)

HoldUser(u, row) == [NoUsers EXCEPT ![u] = row]

\* Mistake: the loop does not advance.
SavedForEver(rows, u) == rows

\* What is left to save of the rows held once u's is saved.
Saved(rows, u) == [rows EXCEPT ![u] = Nil]

\* The redirect of an invitation link leads on, to the page that accepts it.
ValidateInvitationTokenAndGetRedirectURL(t) ==
    \E i \in GetInvitationByToken(t) : IsAcceptable(invitations[i])

\* Mistake: the address is not compared.
PendingOfAnyone(o, e) == {i \in GetInvitationsByOrganizationID(o) : invitations[i].status = "pending"}

\* Mistake: an invitation that was answered is accepted again.
AnsweredOrPending(o, e) == {i \in GetInvitationsByOrganizationID(o) : invitations[i].email = e}

\* The invitations among which UpdatePassword looks for the one to accept.
PendingFor(o, e) == {i \in GetInvitationsByOrganizationID(o) :
                       invitations[i].email = e /\ invitations[i].status = "pending"}

-----------------------------------------------------------------------------
(* Founding an organization *)

CreateOrganizationWithUser(p) ==
    /\ Starts(p, "CreateOrganizationWithUser")
    /\ \E o \in OrgId, e \in Email :
          /\ CreateOrganization(o, NewOrganization)
          /\ Become(p, [Blank EXCEPT !.op = "CreateOrganizationWithUser",
                                     !.pc = "createUser",
                                     !.newUser = NewUser(o, e, "manager")])
    /\ UNCHANGED <<users, invitations, now, issuedTo, lastMailed>>

\* createUserWithPassword, for the manager of a new organization and for the
\* user who accepts an invitation.  The second disjunct is the unique index
\* refusing the row; the organization or the invitation stays as it is.
CreateUserWithPassword(p) ==
    /\ At(p, "createUser")
    /\ \/ \E u \in UserId : CreateUser(u, req[p].newUser)
       \/ EmailTaken(req[p].newUser.email) /\ UNCHANGED users
    /\ Return(p)
    /\ UNCHANGED <<organizations, invitations, now, issuedTo, lastMailed>>

-----------------------------------------------------------------------------
(* Inviting *)

\* The body of InviteUser up to the e-mail; nothing checks that the
\* organization exists.
Invite(p, op, o, e, rest) ==
    \E i \in InvId, t \in Token :
       /\ GenerateToken(t)
       /\ CreateInvitation(i, NewInvitation(o, e, t))
       /\ issuedTo' = [issuedTo EXCEPT ![t] = i]
       /\ Become(p, [Blank EXCEPT !.op = op, !.pc = "sendMail", !.org = o, !.inv = i,
                                  !.irow = NewInvitation(o, e, t), !.todo = rest])

InviteUser(p) ==
    /\ Starts(p, "InviteUser")
    /\ \E o \in OrgId, e \in Email : Invite(p, "InviteUser", o, e, <<>>)
    /\ UNCHANGED <<organizations, users, now, lastMailed>>

\* What is left of a bulk invitation of organization o.
InviteRest(o, rest) ==
    IF rest = <<>> THEN Blank
    ELSE [Blank EXCEPT !.op = "InviteUsers", !.pc = "inviteNext", !.org = o, !.todo = rest]

InviteUsers(p) ==
    /\ Starts(p, "InviteUsers")
    /\ \E o \in OrgId, n \in 1..MaxBulkInviteCount : \E emails \in [1..n -> Email] :
          Become(p, InviteRest(o, emails))
    /\ UNCHANGED <<tables, now, issuedTo, lastMailed>>

\* One round of the loop of InviteUsers.
InviteNext(p) ==
    /\ At(p, "inviteNext")
    /\ Invite(p, "InviteUsers", req[p].org, Head(req[p].todo), Tail(req[p].todo))
    /\ UNCHANGED <<organizations, users, now, lastMailed>>

\* Mistake: the first error ends the loop.
InviteNextGivesUp(p) ==
    /\ "invite" \in Faults
    /\ At(p, "inviteNext")
    /\ Return(p)
    /\ UNCHANGED <<tables, now, issuedTo, lastMailed>>

\* InviteUser fails for an address: the loop goes on with the next one.
InviteNextFails(p) ==
    /\ "invite" \in Faults
    /\ At(p, "inviteNext")
    /\ Become(p, InviteRest(req[p].org, Tail(req[p].todo)))
    /\ UNCHANGED <<tables, now, issuedTo, lastMailed>>

\* SendInvitation, at the end of InviteUser and of ResendInvitation.  When it
\* fails, the invitation is already stored under its new token.
SendMail(p) ==
    /\ At(p, "sendMail")
    /\ \/ lastMailed' = [lastMailed EXCEPT ![req[p].inv] =
                             [token |-> req[p].irow.token, expiresAt |-> req[p].irow.expiresAt]]
       \/ "mail" \in Faults /\ UNCHANGED lastMailed
    /\ Become(p, InviteRest(req[p].org, req[p].todo))
    /\ UNCHANGED <<tables, now, issuedTo>>

\* The permission check of ResendInvitation asks for a manager of the
\* invitation's organization; the invitation's status is not looked at.
ResendInvitation(p) ==
    /\ Starts(p, "ResendInvitation")
    /\ \E u \in Stored(users), i \in Stored(invitations), t \in Token :
          /\ CheckPermission(u, invitations[i].org, "update")
          /\ GenerateToken(t)
          /\ issuedTo' = [issuedTo EXCEPT ![t] = i]
          /\ Become(p, [Blank EXCEPT !.op = "ResendInvitation", !.pc = "saveInvitation",
                                     !.org = invitations[i].org, !.inv = i,
                                     !.irow = Renewed(invitations[i], t)])
    /\ UNCHANGED <<tables, now, lastMailed>>

-----------------------------------------------------------------------------
(* Answering an invitation *)

\* The invitation's status stays pending: UpdatePassword accepts it.
AcceptInvitation(p) ==
    /\ Starts(p, "AcceptInvitation")
    /\ \E t \in Token : \E i \in GetInvitationByToken(t) :
          /\ IsAcceptable(invitations[i])
          /\ Become(p, [Blank EXCEPT !.op = "AcceptInvitation", !.pc = "createUser",
                                     !.newUser = NewUser(invitations[i].org, invitations[i].email, "user")])
    /\ UNCHANGED <<tables, now, issuedTo, lastMailed>>

RejectInvitation(p) ==
    /\ Starts(p, "RejectInvitation")
    /\ \E t \in Token : \E i \in GetInvitationByToken(t) :
          /\ ~IsExpired(invitations[i].expiresAt)
          /\ Become(p, [Blank EXCEPT !.op = "RejectInvitation", !.pc = "saveInvitation", !.inv = i,
                                     !.irow = [invitations[i] EXCEPT !.status = "rejected"]])
    /\ UNCHANGED <<tables, now, issuedTo, lastMailed>>

\* UpdateInvitation, at the end of RejectInvitation, of UpdatePassword, and
\* before the e-mail of ResendInvitation.
SaveInvitation(p) ==
    /\ At(p, "saveInvitation")
    /\ UpdateInvitation(req[p].inv, req[p].irow)
    /\ Become(p, IF req[p].op = "ResendInvitation" THEN [req[p] EXCEPT !.pc = "sendMail"]
                                                   ELSE Blank)
    /\ UNCHANGED <<organizations, users, now, issuedTo, lastMailed>>

-----------------------------------------------------------------------------
(* Users *)

UpdatePassword(p) ==
    /\ Starts(p, "UpdatePassword")
    /\ \E u \in Stored(users), o \in OrgId :
          /\ ValidateOrganizationAccess(u, o)
          /\ Become(p, [Blank EXCEPT !.op = "UpdatePassword", !.pc = "saveUsers",
                                     !.org = o, !.email = users[u].email,
                                     !.urows = HoldUser(u, WithPassword(users[u]))])
    /\ UNCHANGED <<tables, now, issuedTo, lastMailed>>

\* UpdatePassword then accepts the first pending invitation of this user that
\* the organization's list shows; the query gives the list no order.
ReadPending(p) ==
    LET pending == PendingFor(req[p].org, req[p].email)
    IN  /\ At(p, "readPending")
        /\ \/ \E i \in pending :
                 Become(p, [Blank EXCEPT !.op = "UpdatePassword", !.pc = "saveInvitation", !.inv = i,
                                         !.irow = [invitations[i] EXCEPT !.status = "accepted"]])
           \/ pending = {} /\ Return(p)
        /\ UNCHANGED <<tables, now, issuedTo, lastMailed>>

\* UpdateProfile writes the row back as it read it, with a new UpdatedAt.
UpdateProfile(p) ==
    /\ Starts(p, "UpdateProfile")
    /\ \E u \in Stored(users), o \in OrgId :
          /\ ValidateOrganizationAccess(u, o)
          /\ Become(p, [Blank EXCEPT !.op = "UpdateProfile", !.pc = "saveUsers",
                                     !.urows = HoldUser(u, users[u])])
    /\ UNCHANGED <<tables, now, issuedTo, lastMailed>>

-----------------------------------------------------------------------------
(* Leaving *)

\* DeleteOrganization up to the list of members: GetOrganization.
StartDeletion(p, op, o) ==
    /\ organizations[o] # Nil
    /\ Become(p, [Blank EXCEPT !.op = op, !.pc = "readMembers", !.org = o,
                               !.orow = DeletedOrganization(organizations[o])])

\* A user is deleted alone; a manager takes the organization along.
DeleteUser(p) ==
    /\ Starts(p, "DeleteUser")
    /\ \E u \in Stored(users), o \in OrgId :
          /\ ValidateOrganizationAccess(u, o)
          /\ \/ /\ users[u].role # "manager"
                /\ Become(p, [Blank EXCEPT !.op = "DeleteUser", !.pc = "saveUsers",
                                           !.urows = HoldUser(u, DeletedUser(users[u]))])
             \/ /\ users[u].role = "manager"
                /\ StartDeletion(p, "DeleteUser", o)
    /\ UNCHANGED <<tables, now, issuedTo, lastMailed>>

DeleteOrganization(p) ==
    /\ Starts(p, "DeleteOrganization")
    /\ \E o \in OrgId : StartDeletion(p, "DeleteOrganization", o)
    /\ UNCHANGED <<tables, now, issuedTo, lastMailed>>

\* GetUsersByOrganizationID; its error is discarded, and the deletion goes on
\* as if the organization had no members.
ReadMembers(p) ==
    /\ At(p, "readMembers")
    /\ \E listed \in {GetUsersByOrganizationID(req[p].org)} \cup (IF "list" \in Faults THEN {{}} ELSE {}) :
          Become(p, [req[p] EXCEPT
                        !.pc = IF listed = {} THEN "saveOrganization" ELSE "saveUsers",
                        !.urows = [u \in UserId |-> IF u \in listed THEN DeletedUser(users[u]) ELSE Nil]])
    /\ UNCHANGED <<tables, now, issuedTo, lastMailed>>

\* UpdateUser for one of the rows held, in any order.  After the last one a
\* deletion saves the organization and UpdatePassword lists the invitations.
SaveUser(p) ==
    /\ At(p, "saveUsers")
    /\ \E u \in Stored(req[p].urows) :
          LET rest == Saved(req[p].urows, u)
          IN  /\ UpdateUser(u, req[p].urows[u])
              /\ \/ /\ Stored(rest) # {}
                    /\ Become(p, [req[p] EXCEPT !.urows = rest])
                 \/ /\ Stored(rest) = {} /\ req[p].orow # Nil
                    /\ Become(p, [req[p] EXCEPT !.urows = rest, !.pc = "saveOrganization"])
                 \/ /\ Stored(rest) = {} /\ req[p].op = "UpdatePassword"
                    /\ Become(p, [req[p] EXCEPT !.urows = rest, !.pc = "readPending"])
                 \/ /\ Stored(rest) = {} /\ req[p].orow = Nil /\ req[p].op # "UpdatePassword"
                    /\ Return(p)
    /\ UNCHANGED <<organizations, invitations, now, issuedTo, lastMailed>>

SaveOrganization(p) ==
    /\ At(p, "saveOrganization")
    /\ UpdateOrganization(req[p].org, req[p].orow)
    /\ Return(p)
    /\ UNCHANGED <<users, invitations, now, issuedTo, lastMailed>>

\* A manager renames the organization: the row read is written back whole.
UpdateOrganizationName(p) ==
    /\ Starts(p, "UpdateOrganization")
    /\ \E u \in Stored(users), o \in Stored(organizations) :
          /\ CheckPermission(u, o, "update")
          /\ Become(p, [Blank EXCEPT !.op = "UpdateOrganization", !.pc = "saveOrganization",
                                     !.org = o, !.orow = organizations[o]])
    /\ UNCHANGED <<tables, now, issuedTo, lastMailed>>

-----------------------------------------------------------------------------
(* Failure, time *)

\* A storage call fails, the context is cancelled, or the process dies: the
\* request ends where it stands and nothing undoes what it did before.
Abort(p) ==
    /\ "abort" \in Faults
    /\ ~At(p, "idle")
    /\ Return(p)
    /\ UNCHANGED <<tables, now, issuedTo, lastMailed>>

Tick ==
    /\ now < MaxNow
    /\ now' = now + 1
    /\ UNCHANGED <<tables, issuedTo, lastMailed, req>>

Start(p) == \/ CreateOrganizationWithUser(p)
            \/ InviteUser(p)       \/ InviteUsers(p)
            \/ AcceptInvitation(p) \/ RejectInvitation(p)
            \/ ResendInvitation(p)
            \/ UpdatePassword(p)   \/ UpdateProfile(p)
            \/ DeleteUser(p)       \/ DeleteOrganization(p)
            \/ UpdateOrganizationName(p)

Continue(p) == \/ CreateUserWithPassword(p)
               \/ InviteNext(p)    \/ InviteNextFails(p) \/ SendMail(p)
               \/ SaveInvitation(p)
               \/ ReadPending(p)   \/ ReadMembers(p)
               \/ SaveUser(p)      \/ SaveOrganization(p)

Next == \/ \E p \in Procs : Start(p) \/ Continue(p) \/ Abort(p)
        \/ Tick

Spec == Init /\ [][Next]_vars

\* A goroutine that serves a request runs on, and a storage call or an e-mail
\* returns; nobody is bound to start a request, and nothing has to fail.
FairSpec == Spec /\ \A p \in Procs : WF_vars(Continue(p))

-----------------------------------------------------------------------------
(* What holds whatever interleaves and whatever fails *)

SameAccount(row, new) == SameMember(row, new) /\ new.role = row.role

KeepsRows == /\ \A o \in Stored(organizations) : organizations'[o] # Nil
             /\ \A u \in Stored(users) : SameAccount(users[u], users'[u])
             /\ \A i \in Stored(invitations) : SameMember(invitations[i], invitations'[i])

\* Isolation of tenants: no request ever moves a stored user or invitation to
\* another organization or address, changes a role, or loses a row, although
\* requests write back whole rows they read any number of steps ago.
TenancyStable == [][KeepsRows]_vars

\* An organization has one manager at most: neither a second founding, nor an
\* invitation, nor a stale save makes another one.
OneManagerPerOrganization ==
    \A u, v \in Stored(users) :
       users[u].role = "manager" /\ users[v].role = "manager" /\ users[u].org = users[v].org => u = v

\* Everybody who is not a manager was invited, by the organization the account
\* belongs to, at the address of the account; a manager's organization exists.
MembersBelong ==
    \A u \in Stored(users) :
       IF users[u].role = "manager" THEN organizations[users[u].org] # Nil
       ELSE \E i \in Stored(invitations) : SameMember(users[u], invitations[i])

\* An accepted invitation has the account it was accepted with: the acceptance
\* written at the end of UpdatePassword is never on behalf of somebody else,
\* and no stale save of the invitation outlives the account.
AcceptedHasAccount ==
    \A i \in Stored(invitations) :
       invitations[i].status = "accepted" =>
          \E u \in Stored(users) : SameMember(invitations[i], users[u])

\* A link opens one invitation at most, the one its token was drawn for,
\* although ResendInvitation replaces tokens and stale saves of
\* RejectInvitation and UpdatePassword bring replaced tokens back.
TokenNamesOneInvitation ==
    \A i \in Stored(invitations) : issuedTo[invitations[i].token] = i

\* One account per address over all organizations, deleted accounts included.
OneAccountPerEmail ==
    \A u, v \in Stored(users) : users[u].email = users[v].email => u = v

(* The inductive invariant: what the rows a request holds, read any number *)
(* of steps ago, still have in common with the tables.                     *)

IsManager(row) == row # Nil /\ row.role = "manager"

\* A row to be saved belongs to the member or invitation its key still names.
RowsAgree(r) ==
    /\ \A u \in Stored(r.urows) : u \in Stored(users) /\ SameAccount(users[u], r.urows[u])
    /\ r.irow # Nil => /\ r.inv \in Stored(invitations)
                       /\ SameMember(invitations[r.inv], r.irow)
                       /\ issuedTo[r.irow.token] = r.inv
    /\ r.orow # Nil => r.org \in Stored(organizations)

\* A user about to be inserted founds an organization or was invited, and an
\* acceptance about to be written is on behalf of an account.
Justified(r) ==
    /\ IsManager(r.newUser) => r.newUser.org \in Stored(organizations)
    /\ r.newUser # Nil /\ ~IsManager(r.newUser) =>
          \E i \in Stored(invitations) : SameMember(r.newUser, invitations[i])
    /\ r.irow # Nil /\ r.irow.status = "accepted" =>
          \E u \in Stored(users) : SameMember(r.irow, users[u])
    /\ r.op = "UpdatePassword" /\ r.pc \in {"saveUsers", "readPending"} =>
          \E u \in Stored(users) : users[u].org = r.org /\ users[u].email = r.email

\* Only the request that founded an organization is about to give it a manager.
FounderIsAlone ==
    \A p \in Procs : IsManager(req[p].newUser) =>
       /\ \A u \in Stored(users) : IsManager(users[u]) => users[u].org # req[p].newUser.org
       /\ \A q \in Procs \ {p} : IsManager(req[q].newUser) =>
                                    req[q].newUser.org # req[p].newUser.org

TenancyInv == /\ TypeOK
              /\ \A p \in Procs : RowsAgree(req[p]) /\ Justified(req[p])
              /\ FounderIsAlone
              /\ OneManagerPerOrganization
              /\ OneAccountPerEmail
              /\ MembersBelong
              /\ AcceptedHasAccount
              /\ TokenNamesOneInvitation

\* The state of the abstract specification: what Manager keeps of it.
founded == Stored(organizations)

invited == {<<invitations[i].org, invitations[i].email>> : i \in Stored(invitations)}

members == {[org |-> users[u].org, email |-> users[u].email, role |-> users[u].role] :
               u \in Stored(users)}

T == INSTANCE Tenancy WITH EmailsAreUnique <- TRUE

\* Manager implements Tenancy: every step of every request, complete or cut
\* off, is one of its steps or changes no membership.
ImplementsTenancy == T!Spec

-----------------------------------------------------------------------------
(* What holds when requests are served one at a time.  Overtaking says what  *)
(* of it is lost when they interleave, and to which saves.                   *)

Quiet == \A p \in Procs : At(p, "idle")

\* A deleted user or organization is never live again.
DeletionIsFinal ==
    [][/\ \A o \in Stored(organizations) :
             organizations[o].deletedAt = "set" => organizations'[o].deletedAt = "set"
       /\ \A u \in Stored(users) :
             users[u].deletedAt = "set" => users'[u].deletedAt = "set"]_vars

\* When an organization becomes deleted, every member it has is deleted.
DeletionIsComplete ==
    [][\A o \in Stored(organizations) :
          organizations[o].deletedAt = "null" /\ organizations'[o].deletedAt = "set" =>
             \A u \in Stored(users) : users[u].org = o => users[u].deletedAt = "set"]_vars

\* Whoever accepted an invitation has replaced the random password that
\* AcceptInvitation generated.
AcceptedMeansPasswordSet ==
    \A i \in Stored(invitations), u \in Stored(users) :
       invitations[i].status = "accepted" /\ SameMember(invitations[i], users[u]) =>
          users[u].password = "chosen"

\* The link mailed last for a pending invitation leads on until the time that
\* e-mail names: ResendInvitation stores the token and the expiry it mails.
MailedLinkIsLive ==
    Quiet => \A i \in Stored(invitations) :
                (/\ invitations[i].status = "pending"
                 /\ lastMailed[i] # Nil
                 /\ now <= lastMailed[i].expiresAt)
                => ValidateInvitationTokenAndGetRedirectURL(lastMailed[i].token)

-----------------------------------------------------------------------------
(* What has to happen *)

\* Every request ends, the loops of DeleteOrganization and InviteUsers included.
RequestsReturn == \A p \in Procs : ~At(p, "idle") ~> At(p, "idle")

\* An address that cannot be invited does not keep a bulk invitation from
\* trying the addresses after it.
BulkTriesEveryAddress ==
    \A p \in Procs, n \in 1..MaxBulkInviteCount :
       At(p, "inviteNext") /\ Len(req[p].todo) = n + 1
          ~> At(p, "inviteNext") /\ Len(req[p].todo) = n

\* A deletion of an organization that nothing fails gets to the organization,
\* however many members it deletes first and whatever else saves the row.
DeletionReachesOrganization ==
    \A p \in Procs, o \in OrgId :
       At(p, "readMembers") /\ req[p].org = o
          ~> organizations[o] # Nil /\ organizations[o].deletedAt = "set"

-----------------------------------------------------------------------------
(* What the documents and comments say and the code does not do *)

\* README.md:17: "Create organizations and users atomically with transaction
\* support".  Once nothing is under way, every organization has its manager.
FoundedWithManager ==
    Quiet => \A o \in Stored(organizations) :
                \E u \in GetUsersByOrganizationID(o) : users[u].role = "manager"
=============================================================================
