------------------------------ MODULE Tenancy ------------------------------
(***************************************************************************)
(* What orgboss promises about who belongs to which organization, whatever *)
(* interleaves and whatever fails: organizations are founded, one manager  *)
(* at most is appointed to each when it is founded, everybody else joins   *)
(* on an invitation of that organization to that address, an address       *)
(* belongs to one organization at most, and membership is never taken back *)
(* or moved (accounts are deleted logically, their rows stay).             *)
(*                                                                         *)
(* Storages differ in one thing: whether an address has one account at     *)
(* most (EmailsAreUnique).  A service may found an organization and        *)
(* appoint its manager in one step or in two.                              *)
(***************************************************************************)
CONSTANTS OrgId, Email, EmailsAreUnique

VARIABLES founded,  \* organizations that exist
          invited,  \* pairs of an organization and an address it invited
          members   \* who belongs where, and as what

Member == [org : OrgId, email : Email, role : {"manager", "user"}]

Init == founded = {} /\ invited = {} /\ members = {}

Taken(e) == EmailsAreUnique /\ \E m \in members : m.email = e

Found(o) == /\ o \notin founded
            /\ founded' = founded \cup {o}
            /\ UNCHANGED <<invited, members>>

Appoint(o, e) == /\ o \in founded
                 /\ ~\E m \in members : m.org = o /\ m.role = "manager"
                 /\ ~Taken(e)
                 /\ members' = members \cup {[org |-> o, email |-> e, role |-> "manager"]}
                 /\ UNCHANGED <<founded, invited>>

FoundWithManager(o, e) == /\ o \notin founded
                          /\ ~Taken(e)
                          /\ founded' = founded \cup {o}
                          /\ members' = members \cup {[org |-> o, email |-> e, role |-> "manager"]}
                          /\ UNCHANGED invited

\* The organization need not exist: InviteUser does not look.
Invite(o, e) == /\ invited' = invited \cup {<<o, e>>}
                /\ UNCHANGED <<founded, members>>

Join(o, e) == /\ <<o, e>> \in invited
              /\ ~Taken(e)
              /\ members' = members \cup {[org |-> o, email |-> e, role |-> "user"]}
              /\ UNCHANGED <<founded, invited>>

Next == \/ \E o \in OrgId : Found(o)
        \/ \E o \in OrgId, e \in Email :
              FoundWithManager(o, e) \/ Appoint(o, e) \/ Invite(o, e) \/ Join(o, e)

Spec == Init /\ [][Next]_<<founded, invited, members>>
=============================================================================
