----------------------------- MODULE MCStartup ------------------------------
(* Two processes running any commands on one database and one key file, with   *)
(* two keys and two component ids to disagree about: four identities, one of   *)
(* which may already be recorded, or hold unrecorded custody.                  *)
EXTENDS Startup
=============================================================================
