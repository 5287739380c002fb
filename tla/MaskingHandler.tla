--------------------------- MODULE MaskingHandler ---------------------------
(***************************************************************************)
(* Manager with the DeletionHandler an application writes itself, as the   *)
(* README's CustomDeletionHandler is written: a user who leaves keeps the  *)
(* row and gets another address, the same one for everybody, and an        *)
(* organization is deleted for good, with PostgresStorage's                *)
(* DeleteOrganization.                                                     *)
(*                                                                         *)
(* So the unique index frees addresses and refuses saves, and a Save may   *)
(* find its row gone.  GORM's Save then inserts the row it was given:      *)
(* PostgresStorage's ErrOrganizationNotFound after an update that matched  *)
(* nothing is never returned.                                              *)
(*                                                                         *)
(* A row deleted for good stays in organizations, and is in erased; its id *)
(* is not handed out again.                                                *)
(***************************************************************************)
EXTENDS Manager

CONSTANT Mask  \* "deleted@example.com"

ASSUME MaskAssumption == Mask \in Email

VARIABLES erased,   \* the organizations whose row is gone
          joinedAs  \* history: the row each user was inserted with

maskingVars == <<vars, erased, joinedAs>>

MaskingInit == /\ Init
               /\ erased = {}
               /\ joinedAs = [u \in UserId |-> Nil]

-----------------------------------------------------------------------------
Deletes(r) == r.op \in {"DeleteUser", "DeleteOrganization"}

\* Mistake: an anonymized row that no longer says who it was.
AnonymizedUser(row) == [row EXCEPT !.email = Mask, !.role = "user", !.deletedAt = "null"]

\* CustomDeletionHandler.DeleteUser sets no DeletedAt.
Masked(row) == [row EXCEPT !.email = Mask, !.deletedAt = "null"]

\* The row a request saves for user u.
RowToSave(r, u) == IF Deletes(r) THEN Masked(r.urows[u]) ELSE r.urows[u]

\* The unique index: another user has the address of the row.
TakenByAnother(u, row) == \E v \in Stored(users) \ {u} : users[v].email = row.email

\* UpdateUser by Manager: the row goes back as it was read.
SaveUserIfUnique(p) ==
    /\ ~Deletes(req[p])
    /\ SaveUser(p)
    /\ \A u \in UserId : users'[u] # users[u] => ~TakenByAnother(u, users'[u])
    /\ UNCHANGED <<erased, joinedAs>>

\* CustomDeletionHandler.DeleteUser, for the members of an organization in any
\* order, or for the one user who leaves.
MaskUser(p) ==
    /\ At(p, "saveUsers") /\ Deletes(req[p])
    /\ \E u \in Stored(req[p].urows) :
          LET rest == Saved(req[p].urows, u)
          IN  /\ ~TakenByAnother(u, RowToSave(req[p], u))
              /\ UpdateUser(u, RowToSave(req[p], u))
              /\ Become(p, IF Stored(rest) # {} THEN [req[p] EXCEPT !.urows = rest]
                           ELSE IF req[p].orow # Nil
                           THEN [req[p] EXCEPT !.urows = rest, !.pc = "saveOrganization"]
                           ELSE Blank)
    /\ UNCHANGED <<organizations, invitations, now, issuedTo, lastMailed, erased, joinedAs>>

\* The unique index refuses a row, and the error ends the request: members and
\* organization that were to follow are left as they are.
SaveRefused(p) ==
    /\ At(p, "saveUsers")
    /\ \E u \in Stored(req[p].urows) : TakenByAnother(u, RowToSave(req[p], u))
    /\ Return(p)
    /\ UNCHANGED <<tables, now, issuedTo, lastMailed, erased, joinedAs>>

\* CustomDeletionHandler.DeleteOrganization; a row that is gone already is an
\* error, and changes nothing.
EraseOrganization(p) ==
    /\ At(p, "saveOrganization") /\ Deletes(req[p])
    /\ erased' = erased \cup {req[p].org}
    /\ Return(p)
    /\ UNCHANGED <<tables, now, issuedTo, lastMailed, joinedAs>>

\* Save: updates the row, or inserts it again.
SaveOrInsertOrganization(p) ==
    /\ ~Deletes(req[p])
    /\ SaveOrganization(p)
    /\ erased' = erased \ {req[p].org}
    /\ UNCHANGED joinedAs

\* A request that goes on with an organization has found its row.
FindsOrganization(p) == req'[p].orow # Nil => req'[p].org \notin erased

\* Nobody founds, or is invited, at the address kept for the mask.
AvoidsMask(p) == /\ req'[p].newUser # Nil => req'[p].newUser.email # Mask
                 /\ req'[p].irow # Nil => req'[p].irow.email # Mask
                 /\ \A k \in DOMAIN req'[p].todo : req'[p].todo[k] # Mask

MaskingNext ==
    \/ \E p \in Procs :
          \/ /\ Start(p) /\ FindsOrganization(p) /\ AvoidsMask(p)
             /\ UNCHANGED <<erased, joinedAs>>
          \/ /\ CreateUserWithPassword(p)
             /\ joinedAs' = [u \in UserId |-> IF users[u] = Nil THEN users'[u] ELSE joinedAs[u]]
             /\ UNCHANGED erased
          \/ /\ \/ InviteNext(p)     \/ InviteNextFails(p) \/ SendMail(p)
                \/ SaveInvitation(p) \/ ReadPending(p)     \/ ReadMembers(p) \/ Abort(p)
             /\ UNCHANGED <<erased, joinedAs>>
          \/ SaveUserIfUnique(p)  \/ MaskUser(p) \/ SaveRefused(p)
          \/ EraseOrganization(p) \/ SaveOrInsertOrganization(p)
    \/ Tick /\ UNCHANGED <<erased, joinedAs>>

MaskingSpec == MaskingInit /\ [][MaskingNext]_maskingVars

-----------------------------------------------------------------------------
\* Whatever was masked, freed, taken again and saved late: an account stays in
\* the organization and the role it was made for, and is at its own address or
\* at the mask's.
AccountKeepsIdentity ==
    \A u \in Stored(users) :
       /\ users[u].org = joinedAs[u].org /\ users[u].role = joinedAs[u].role
       /\ users[u].email \in {joinedAs[u].email, Mask}
=============================================================================
