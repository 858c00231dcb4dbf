--------------------------- MODULE MCLoginRequest ---------------------------
(* LoginRequest with two clients and two requests in each of two lives.      *)
EXTENDS LoginRequest
=============================================================================
