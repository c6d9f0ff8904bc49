------------------------------- MODULE MCServer -------------------------------
(* Values for the constants of Server that a cfg cannot write. *)
EXTENDS Server

CONSTANTS c1, c2
=============================================================================
