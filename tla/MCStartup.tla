------------------------------ MODULE MCStartup ------------------------------
(* Commands and modes are strings and stand in the .cfg. *)
EXTENDS Startup
=============================================================================
