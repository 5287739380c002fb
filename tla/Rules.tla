------------------------------- MODULE Rules -------------------------------
(***************************************************************************)
(* What the methods of Manager (manager.go) and their default handlers     *)
(* decide and write, whatever the storage: permissions, expiry, the rows   *)
(* inserted and the changes made to rows.                                  *)
(***************************************************************************)
EXTENDS Rows

CONSTANT ExpiryDuration  \* Config.InvitationExpiryDuration

VARIABLES now,       \* time.Now(), in units as coarse as the expiry
          issuedTo   \* history: the invitation each token was drawn for

\* DefaultRoleChecker: a manager may do everything, a user may only read.
HasPermission(role, action) == role = "manager" \/ (role = "user" /\ action = "read")

\* Mistake: a link that expires one instant early.
IsExpiredAtOnce(expiresAt) == now >= expiresAt

IsExpired(expiresAt) == now > expiresAt

CalculateExpiry == now + ExpiryDuration

\* Mistake: a token that may have been used before.
GenerateAnyToken(t) == t \in Token

\* 256 random bits: a token nobody was given before.
GenerateToken(t) == IsNextKey(issuedTo, t)

\* Mistakes: the role is left at its zero value, or is not the one passed.
NewUserWithoutRole(o, e, role) ==
    [org |-> o, email |-> e, role |-> "", password |-> "random", deletedAt |-> "null"]
NewUserManager(o, e, role) ==
    [org |-> o, email |-> e, role |-> "manager", password |-> "random", deletedAt |-> "null"]
NewUserUser(o, e, role) ==
    [org |-> o, email |-> e, role |-> "user", password |-> "random", deletedAt |-> "null"]

\* The rows createOrganization, createUserWithPassword and createInvitation insert.
NewOrganization == [deletedAt |-> "null"]

NewUser(o, e, role) ==
    [org |-> o, email |-> e, role |-> role, password |-> "random", deletedAt |-> "null"]

NewInvitation(o, e, t) ==
    [org |-> o, email |-> e, token |-> t, expiresAt |-> CalculateExpiry, status |-> "pending"]

\* Mistakes: a handler that masks the address, or marks a copy of the row.
MaskedUser(row) == [row EXCEPT !.deletedAt = "set", !.email = Nil]
DeletedCopy(row) == row

\* DefaultDeletionHandler sets DeletedAt on the row it was handed.
DeletedUser(row) == [row EXCEPT !.deletedAt = "set"]

DeletedOrganization(row) == [row EXCEPT !.deletedAt = "set"]

\* Mistake: the row is built anew instead of changed.
RebuiltWithPassword(row) == [NewUser(row.org, row.email, row.role) EXCEPT !.password = "chosen"]

\* The row UpdatePassword saves.
WithPassword(row) == [row EXCEPT !.password = "chosen"]

\* The row ResendInvitation saves.
Renewed(row, t) == [row EXCEPT !.token = t, !.expiresAt = CalculateExpiry, !.status = "pending"]

\* AcceptInvitation lets in the holder of a link to this invitation.
IsAcceptable(row) == /\ ~IsExpired(row.expiresAt)
                     /\ row.status \notin {"accepted", "rejected"}
=============================================================================
