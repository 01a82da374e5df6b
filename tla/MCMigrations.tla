---------------------------- MODULE MCMigrations ----------------------------
(* Two releases of the migrations of the repository, two processes that     *)
(* may apply them at the same time, and one failure.                          *)
EXTENDS Migrations

CONSTANTS deploy_jump, migrate

MCRunners == {deploy_jump, migrate}
MCReleases == {4, 7}
MCMaxFailures == 1
=============================================================================
