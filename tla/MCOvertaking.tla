---------------------------- MODULE MCOvertaking ----------------------------
(***************************************************************************)
(* An instance of Overtaking for TLC.                                      *)
(***************************************************************************)
EXTENDS Overtaking, TLC

\* Every method that saves a row it has read, and what it takes to have rows.
SavingOps == {"CreateOrganizationWithUser", "InviteUser", "AcceptInvitation",
              "RejectInvitation", "ResendInvitation", "UpdatePassword", "UpdateProfile",
              "DeleteUser", "DeleteOrganization", "UpdateOrganization"}

\* lastMailed is a history no action reads.
WithoutMail == <<tables, now, issuedTo, req, stale>>

Symmetry == Permutations(Procs) \cup Permutations(Email)
=============================================================================
