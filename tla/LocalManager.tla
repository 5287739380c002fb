---------------------------- MODULE LocalManager ----------------------------
(***************************************************************************)
(* A Manager over InMemoryStorage, the storage NewManager gives it, with   *)
(* the default role checker.                                               *)
(*                                                                         *)
(* The storage is not safe for concurrent use, so the application serves   *)
(* one request at a time, and no call of this storage fails half-way: each *)
(* method of Manager is one action.  What the storage makes different is   *)
(* which invitation a link opens, and that nothing keeps addresses unique. *)
(* InviteUsers is InviteUser repeated; UpdateProfile and                   *)
(* UpdateOrganization change a name and a time, which rows leave out, and  *)
(* DeleteUser and DeleteOrganization set DeletedAt, which no method and no *)
(* query reads (Manager models all four).                                  *)
(***************************************************************************)
EXTENDS InMemoryStorage, Rules

CONSTANT MaxNow  \* bound on the clock

ASSUME LocalConfigAssumption == ExpiryDuration \in Int /\ MaxNow \in Nat

VARIABLE lastMailed  \* the e-mail that went out last for each invitation

vars == <<maps, now, issuedTo, lastMailed>>

Mail == [token : Token, expiresAt : Int]

TypeOK == /\ StorageTypeOK
          /\ now \in 0..MaxNow
          /\ issuedTo \in [Token -> InvId \cup {Nil}]
          /\ lastMailed \in [InvId -> Mail \cup {Nil}]

Init == /\ StorageInit
        /\ now = 0
        /\ issuedTo = [t \in Token |-> Nil]
        /\ lastMailed = [i \in InvId |-> Nil]

-----------------------------------------------------------------------------
\* The invitation behind a pointer, or behind a link.
Row(a) == heap[a].row

RowOf(t) == Row(invitations[t])

\* SendInvitation, which may fail: the invitation is stored all the same.
SendInvitation(i, row) ==
    \/ lastMailed' = [lastMailed EXCEPT ![i] = [token |-> row.token, expiresAt |-> row.expiresAt]]
    \/ UNCHANGED lastMailed

\* Mistake: the address is not compared.
PendingOfAnyone(o, e) == {a \in GetInvitationsByOrganizationID(o) : Row(a).status = "pending"}

\* The invitations among which UpdatePassword looks for the one to accept.
PendingFor(o, e) == {a \in GetInvitationsByOrganizationID(o) :
                       Row(a).email = e /\ Row(a).status = "pending"}

\* The redirect of an invitation link leads on, to the page that accepts it.
ValidateInvitationTokenAndGetRedirectURL(t) ==
    invitations[t] # Nil /\ IsAcceptable(RowOf(t))

-----------------------------------------------------------------------------
(* The methods of Manager *)

\* Neither of the two inserts can fail.
CreateOrganizationWithUser ==
    \E o \in OrgId, u \in UserId, e \in Email :
       /\ CreateOrganization(o, NewOrganization)
       /\ CreateUser(u, NewUser(o, e, "manager"))
       /\ UNCHANGED <<heap, invitations, invitationsByID, nextInvID, now, issuedTo, lastMailed>>

InviteUser ==
    \E o \in OrgId, e \in Email, i \in InvId, t \in Token :
       /\ GenerateToken(t)
       /\ CreateInvitation(i, NewInvitation(o, e, t))
       /\ issuedTo' = [issuedTo EXCEPT ![t] = i]
       /\ SendInvitation(i, NewInvitation(o, e, t))
       /\ UNCHANGED <<organizations, users, nextOrgID, nextUserID, now>>

\* Nothing keeps a link from being accepted twice before the password is set.
AcceptInvitation ==
    \E t \in Stored(invitations), u \in UserId :
       /\ IsAcceptable(RowOf(t))
       /\ CreateUser(u, NewUser(RowOf(t).org, RowOf(t).email, "user"))
       /\ UNCHANGED <<organizations, heap, invitations, invitationsByID, nextOrgID, nextInvID,
                      now, issuedTo, lastMailed>>

RejectInvitation ==
    \E t \in Stored(invitations) :
       /\ ~IsExpired(RowOf(t).expiresAt)
       /\ UpdateInvitation(invitations[t], [RowOf(t) EXCEPT !.status = "rejected"])
       /\ UNCHANGED <<organizations, users, nextOrgID, nextUserID, nextInvID,
                      now, issuedTo, lastMailed>>

ResendInvitation ==
    \E u \in Stored(users), i \in Stored(invitationsByID), t \in Token :
       LET a == invitationsByID[i]
       IN  /\ users[u].org = Row(a).org
           /\ HasPermission(users[u].role, "update")
           /\ GenerateToken(t)
           /\ UpdateInvitation(a, Renewed(Row(a), t))
           /\ issuedTo' = [issuedTo EXCEPT ![t] = i]
           /\ SendInvitation(i, Renewed(Row(a), t))
           /\ UNCHANGED <<organizations, users, nextOrgID, nextUserID, nextInvID, now>>

\* The password is set, and the first pending invitation of this user in the
\* organization's list, which has no order, is accepted.
UpdatePassword ==
    \E u \in Stored(users) :
       LET pending == PendingFor(users[u].org, users[u].email)
       IN  /\ UpdateUser(u, WithPassword(users[u]))
           /\ \/ \E a \in pending : UpdateInvitation(a, [Row(a) EXCEPT !.status = "accepted"])
              \/ pending = {} /\ UNCHANGED <<heap, invitations, invitationsByID>>
           /\ UNCHANGED <<organizations, nextOrgID, nextUserID, nextInvID,
                          now, issuedTo, lastMailed>>

(* The application *)

\* It holds the storage it passed to NewManagerWithStorage, and may withdraw
\* an invitation there; Manager has no method for it.
WithdrawInvitation ==
    /\ \E i \in InvId : DeleteInvitation(i)
    /\ UNCHANGED <<now, issuedTo, lastMailed>>

Tick == /\ now < MaxNow
        /\ now' = now + 1
        /\ UNCHANGED <<maps, issuedTo, lastMailed>>

Next == \/ CreateOrganizationWithUser
        \/ InviteUser
        \/ AcceptInvitation
        \/ RejectInvitation
        \/ ResendInvitation
        \/ UpdatePassword
        \/ WithdrawInvitation
        \/ Tick

Spec == Init /\ [][Next]_vars

-----------------------------------------------------------------------------
(* What holds *)

\* The two maps never disagree: whatever link an invitation is reached by, a
\* replaced one included, it is the same row as by its id, so that accepting
\* or rejecting it by one link closes all of them; and the token an
\* invitation has now reaches it.
IndexesAgree ==
    /\ \A t \in Stored(invitations) :
          invitationsByID[heap[invitations[t]].id] \in {invitations[t], Nil}
    /\ \A i \in Stored(invitationsByID) :
          /\ heap[invitationsByID[i]].id = i
          /\ invitations[Row(invitationsByID[i]).token] = invitationsByID[i]

\* A link, a replaced one included, opens the invitation its token was drawn
\* for or none at all.
LinkOpensItsInvitation ==
    \A t \in Stored(invitations) : heap[invitations[t]].id = issuedTo[t]

\* An accepted invitation has an account at its organization and address.
AcceptedHasAccount ==
    \A a \in Stored(heap) :
       Row(a).status = "accepted" => \E u \in Stored(users) : SameMember(Row(a), users[u])

\* The link mailed last for a pending invitation leads on until the time that
\* e-mail names, unless the invitation was withdrawn.
MailedLinkIsLive ==
    \A i \in Stored(invitationsByID) :
       /\ Row(invitationsByID[i]).status = "pending"
       /\ lastMailed[i] # Nil
       /\ now <= lastMailed[i].expiresAt
       => ValidateInvitationTokenAndGetRedirectURL(lastMailed[i].token)

founded == Stored(organizations)

\* Withdrawn invitations too: they were made.
invited == {<<Row(a).org, Row(a).email>> : a \in Stored(heap)}

members == {[org |-> users[u].org, email |-> users[u].email, role |-> users[u].role] :
               u \in Stored(users)}

T == INSTANCE Tenancy WITH EmailsAreUnique <- FALSE

\* Over this storage, too, everybody belongs to the organization that founded
\* or invited them; only that an address belongs to one of them is lost.
ImplementsTenancy == T!Spec

=============================================================================
