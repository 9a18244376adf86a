----------------------------- MODULE MCMigrations -----------------------------
\* Instances of Migrations for TLC.
EXTENDS Migrations

CONSTANTS r1, r2

===============================================================================
