----------------------------- MODULE MCManager -----------------------------
(***************************************************************************)
(* Instances of Manager for TLC.  The methods the clients of an instance   *)
(* call are grouped by the question the instance asks.                     *)
(***************************************************************************)
EXTENDS Manager, TLC

JoiningOps == {"CreateOrganizationWithUser", "InviteUser", "AcceptInvitation",
               "RejectInvitation", "ResendInvitation", "UpdatePassword"}

LeavingOps == {"CreateOrganizationWithUser", "InviteUser", "AcceptInvitation",
               "DeleteUser", "DeleteOrganization", "UpdateProfile", "UpdateOrganization"}

AllOps == JoiningOps \cup LeavingOps

EndingOps == {"CreateOrganizationWithUser", "InviteUsers", "AcceptInvitation", "DeleteUser",
              "DeleteOrganization", "UpdateProfile", "UpdateOrganization"}

FoundingOps == {"CreateOrganizationWithUser"}

\* lastMailed is a history no action reads: instances whose properties do not
\* mention it leave it out of the fingerprint.
WithoutMail == <<tables, now, issuedTo, req>>

Symmetry == Permutations(Procs) \cup Permutations(Email)
=============================================================================
