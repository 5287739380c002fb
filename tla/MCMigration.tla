---------------------------- MODULE MCMigration ----------------------------
(* An instance of Migration for TLC. *)
EXTENDS Migration

Signatures == {"s1", "s2", "s3", "s4"}
=============================================================================
