----------------------------- MODULE MCStartup -----------------------------
(* The second of three messages is blank. *)
EXTENDS Startup

MCBlank == {2}
=============================================================================
