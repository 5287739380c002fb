-------------------------- MODULE MCMaskingHandler --------------------------
(* Instances of MaskingHandler for TLC. *)
EXTENDS MaskingHandler, TLC

MaskingOps == {"CreateOrganizationWithUser", "InviteUsers", "AcceptInvitation", "UpdatePassword",
               "UpdateProfile", "DeleteUser", "UpdateOrganization"}

WithoutMail == <<tables, now, issuedTo, req, erased, joinedAs>>

Symmetry == Permutations(Procs) \cup Permutations(Email \ {Mask})
=============================================================================
