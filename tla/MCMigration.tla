---------------------------- MODULE MCMigration ----------------------------
(* Small instances of Migration for TLC.                                   *)
EXTENDS Migration, TLC
=============================================================================
