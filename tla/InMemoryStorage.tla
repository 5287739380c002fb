--------------------------- MODULE InMemoryStorage ---------------------------
(***************************************************************************)
(* The maps of InMemoryStorage (internal/storage/storage.go, and its copy  *)
(* storage.go that an application can construct).                          *)
(*                                                                         *)
(* Invitations are in two maps, by token and by id, which hold pointers:   *)
(* invitations[t] and invitationsByID[i] are addresses in heap.  A caller  *)
(* gets the pointer itself, so what it writes to the row is stored before  *)
(* it calls UpdateInvitation, and even if that call fails; the call only   *)
(* enters the pointer in the maps, under the token and the id the row has  *)
(* by then.  Nothing ever removes the entry of a replaced token.           *)
(*                                                                         *)
(* Organizations and users are found by id only, each in one map: whether  *)
(* a row is shared or copied makes no difference to whoever reads it       *)
(* later, so their tables hold the rows themselves.                        *)
(*                                                                         *)
(* The maps have no lock and Go does not define what concurrent calls do   *)
(* to them: the calls of one storage are one after the other.              *)
(***************************************************************************)
EXTENDS Rows

CONSTANT Addr  \* addresses of invitations, in the order they are allocated

VARIABLES organizations, users,
          heap,               \* the invitation at each address, Nil if unallocated
          invitations,        \* token -> address
          invitationsByID,    \* id -> address
          nextOrgID, nextUserID, nextInvID

maps == <<organizations, users, heap, invitations, invitationsByID,
          nextOrgID, nextUserID, nextInvID>>

\* An invitation knows its id: the maps are updated from the row alone.
Object == [id : InvId, row : InvRow]

ASSUME AddressesAreNaturals == Addr \subseteq Nat

ASSUME NilIsNoPointer == Nil \notin Addr /\ Nil \notin Object

StorageTypeOK ==
    /\ organizations \in [OrgId -> OrgRow \cup {Nil}]
    /\ users \in [UserId -> UserRow \cup {Nil}]
    /\ heap \in [Addr -> Object \cup {Nil}]
    /\ invitations \in [Token -> Addr \cup {Nil}]
    /\ invitationsByID \in [InvId -> Addr \cup {Nil}]
    /\ nextOrgID \in Nat /\ nextUserID \in Nat /\ nextInvID \in Nat

StorageInit ==
    /\ organizations = [o \in OrgId |-> Nil]
    /\ users = [u \in UserId |-> Nil]
    /\ heap = [a \in Addr |-> Nil]
    /\ invitations = [t \in Token |-> Nil]
    /\ invitationsByID = [i \in InvId |-> Nil]
    /\ nextOrgID = 1 /\ nextUserID = 1 /\ nextInvID = 1

-----------------------------------------------------------------------------
(* Reads *)

GetUsersByOrganizationID(o) == {u \in Stored(users) : users[u].org = o}

\* The list is made from the map by token: a replaced token shows the same
\* pointer once more, and a deleted invitation shows as long as one of its
\* replaced tokens does.
GetInvitationsByOrganizationID(o) ==
    {a \in {invitations[t] : t \in Stored(invitations)} : heap[a].row.org = o}

(* Inserts.  Neither an address nor a token is compared with those stored. *)

CreateOrganization(o, row) ==
    /\ o = nextOrgID
    /\ nextOrgID' = o + 1
    /\ organizations' = [organizations EXCEPT ![o] = row]

CreateUser(u, row) ==
    /\ u = nextUserID
    /\ nextUserID' = u + 1
    /\ users' = [users EXCEPT ![u] = row]

CreateInvitation(i, row) ==
    /\ i = nextInvID
    /\ nextInvID' = i + 1
    /\ \E a \in Addr :
          /\ IsNextKey(heap, a)
          /\ heap' = [heap EXCEPT ![a] = [id |-> i, row |-> row]]
          /\ invitations' = [invitations EXCEPT ![row.token] = a]
          /\ invitationsByID' = [invitationsByID EXCEPT ![i] = a]

(* Updates *)

UpdateUser(u, row) == users' = [users EXCEPT ![u] = row]

\* Mistake: the maps get a copy of the row the caller changed.
UpdateInvitationCopied(a, row) ==
    LET i == heap[a].id
    IN  \E b \in Addr :
           /\ IsNextKey(heap, b)
           /\ heap' = [heap EXCEPT ![b] = [id |-> i, row |-> row]]
           /\ invitations' = [invitations EXCEPT ![row.token] = b]
           /\ invitationsByID' = [invitationsByID EXCEPT ![i] = b]

\* Mistake: the entry of the new token is forgotten.
UpdateInvitationByID(a, row) ==
    /\ heap' = [heap EXCEPT ![a].row = row]
    /\ UNCHANGED <<invitations, invitationsByID>>

\* The caller has made the row behind its pointer this one and calls
\* UpdateInvitation, which fails if the id is not stored (any more).
UpdateInvitation(a, row) ==
    LET i == heap[a].id
    IN  /\ heap' = [heap EXCEPT ![a].row = row]
        /\ \/ /\ invitationsByID[i] # Nil
              /\ invitations' = [invitations EXCEPT ![row.token] = a]
              /\ invitationsByID' = [invitationsByID EXCEPT ![i] = a]
           \/ /\ invitationsByID[i] = Nil
              /\ UNCHANGED <<invitations, invitationsByID>>

(* Deletes *)

\* The entry of the token the invitation has now goes, and no other.
DeleteInvitation(i) ==
    LET a == invitationsByID[i]
    IN  /\ a # Nil
        /\ invitations' = [invitations EXCEPT ![heap[a].row.token] = Nil]
        /\ invitationsByID' = [invitationsByID EXCEPT ![i] = Nil]
        /\ UNCHANGED <<organizations, users, heap, nextOrgID, nextUserID, nextInvID>>
=============================================================================
