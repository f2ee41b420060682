---------------------------- MODULE MigrationsMC ----------------------------
(* Instances of Migrations.                                                *)
EXTENDS Migrations, TLC

=============================================================================
