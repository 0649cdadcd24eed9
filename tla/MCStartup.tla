------------------------------ MODULE MCStartup ------------------------------
(***************************************************************************)
(* Small instances of Startup.                                             *)
(***************************************************************************)
EXTENDS Startup, TLC

CONSTANTS r1, p1, s1, s2

MCStatuses == {" executing"}
MCCanonical(s) == IF s = " executing" THEN "EXECUTING" ELSE s
MCSetOf == p1 :> s1
=============================================================================
