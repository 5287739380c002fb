-------------------------- MODULE PostgresStorage --------------------------
(***************************************************************************)
(* The three tables of orgboss and the calls of PostgresStorage            *)
(* (internal/storage/postgres.go) that Manager makes on them.              *)
(*                                                                         *)
(* Every call is one statement, so one atomic step of the database: no     *)
(* method of the Storage interface spans two statements and Manager never  *)
(* opens a transaction.  The operators below are the effects of single     *)
(* calls; the module that uses them says which handler makes which call    *)
(* when.                                                                   *)
(*                                                                         *)
(* DeletedAt is a plain *time.Time in types/models.go, not                 *)
(* gorm.DeletedAt, so GORM does not hide a row whose DeletedAt is set from *)
(* any query.                                                              *)
(***************************************************************************)
EXTENDS Rows

VARIABLES organizations, users, invitations

tables == <<organizations, users, invitations>>

StorageTypeOK == /\ organizations \in [OrgId -> OrgRow \cup {Nil}]
                 /\ users \in [UserId -> UserRow \cup {Nil}]
                 /\ invitations \in [InvId -> InvRow \cup {Nil}]

StorageInit == /\ organizations = [o \in OrgId |-> Nil]
               /\ users = [u \in UserId |-> Nil]
               /\ invitations = [i \in InvId |-> Nil]

-----------------------------------------------------------------------------
(* Reads.  None of the queries filters on deleted_at. *)

\* Mistake: a query that forgets the manager.
GetUsersOfRoleUser(o) == {u \in Stored(users) : users[u].org = o /\ users[u].role = "user"}

GetUsersByOrganizationID(o) == {u \in Stored(users) : users[u].org = o}

GetInvitationsByOrganizationID(o) == {i \in Stored(invitations) : invitations[i].org = o}

GetInvitationByToken(t) == {i \in Stored(invitations) : invitations[i].token = t}

(* Inserts.  The primary key is a serial: the smallest id never used (IsNextKey). *)

CreateOrganization(o, row) ==
    /\ IsNextKey(organizations, o)
    /\ organizations' = [organizations EXCEPT ![o] = row]

\* Mistakes: no unique index, or one over the rows that are not deleted.
EmailNeverTaken(e) == FALSE
EmailTakenByLiveUser(e) == \E u \in Stored(users) : users[u].email = e /\ users[u].deletedAt = "null"

\* users.email carries a unique index; a row keeps its e-mail when it is
\* logically deleted, so the index covers deleted users too.
EmailTaken(e) == \E u \in Stored(users) : users[u].email = e

CreateUser(u, row) ==
    /\ ~EmailTaken(row.email)
    /\ IsNextKey(users, u)
    /\ users' = [users EXCEPT ![u] = row]

CreateInvitation(i, row) ==
    /\ GetInvitationByToken(row.token) = {}
    /\ IsNextKey(invitations, i)
    /\ invitations' = [invitations EXCEPT ![i] = row]

(* Updates.  GORM's Save writes every column of the row the caller holds,  *)
(* whatever has become of the stored row since the caller read it.         *)

UpdateOrganization(o, row) == organizations' = [organizations EXCEPT ![o] = row]

UpdateUser(u, row) == users' = [users EXCEPT ![u] = row]

UpdateInvitation(i, row) == invitations' = [invitations EXCEPT ![i] = row]
=============================================================================
