------------------------------ MODULE MCSetup ------------------------------
(* An instance of Setup for TLC. *)
EXTENDS Setup

DrawnSignatures == {"s1", "s2", "s3", "s4"}
SeedSignatures  == <<"seed1", "seed2">>
Signatures      == DrawnSignatures \cup {"seed1", "seed2"}
=============================================================================
