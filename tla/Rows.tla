-------------------------------- MODULE Rows --------------------------------
(***************************************************************************)
(* The rows of orgboss (types/models.go), which both storages keep.        *)
(*                                                                         *)
(* A table is a function from ids to rows, or to Nil where no row has been *)
(* inserted yet.  Rows keep the columns that decide something: names,      *)
(* signatures and the creation and update times are left out.              *)
(***************************************************************************)
EXTENDS Integers

CONSTANTS OrgId, UserId, InvId,  \* primary keys, handed out in order
          Token,                 \* invitation tokens, drawn in order
          Email,                 \* e-mail addresses, already validated
          Nil                    \* no row

Role     == {"manager", "user"}
Status   == {"pending", "accepted", "rejected", "expired"}
Password == {"random", "chosen"}   \* generated by Manager, or chosen by the user
Time     == {"null", "set"}        \* a nullable timestamp, read only for null-ness

OrgRow  == [deletedAt : Time]
UserRow == [org : OrgId, email : Email, role : Role, password : Password, deletedAt : Time]
InvRow  == [org : OrgId, email : Email, token : Token, expiresAt : Int, status : Status]

ASSUME KeysAreNaturals == OrgId \cup UserId \cup InvId \cup Token \subseteq Nat

ASSUME NilIsNoRow == /\ Nil \notin OrgRow
                     /\ Nil \notin UserRow
                     /\ Nil \notin InvRow
                     /\ Nil \notin OrgId \cup InvId \cup Token \cup Email

-----------------------------------------------------------------------------
\* Two rows, of users or invitations, are of one address at one organization.
SameMember(row, new) == /\ new # Nil
                        /\ new.org = row.org /\ new.email = row.email

Stored(table) == {k \in DOMAIN table : table[k] # Nil}

\* Keys are handed out in order.
IsNextKey(table, k) == /\ table[k] = Nil
                       /\ \A j \in DOMAIN table : j < k => table[j] # Nil
=============================================================================
