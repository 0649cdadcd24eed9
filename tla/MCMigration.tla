----------------------------- MODULE MCMigration -----------------------------
(***************************************************************************)
(* A small instance of Migration: statuses of old tables in the spellings  *)
(* that _normalize_status_expr tells apart.                                *)
(***************************************************************************)
EXTENDS Migration

CONSTANTS r1, r2

MCStatuses == {"NULL", "CREATED", " executing", "PLANNED", "queued"}
MCCanonical(s) == CASE s = " executing" -> "EXECUTING"
                    [] s = "queued"     -> "QUEUED"
                    [] OTHER            -> s
=============================================================================
