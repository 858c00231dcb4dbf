--------------------------- MODULE MCConnections ---------------------------
(* Connections with small bounds.  The last connection the bound allows      *)
(* never leaves its pending accept, so MaxConns - 1 connections are served.  *)
EXTENDS Connections

\* One client logs in and asks once, so that the answer to the login and the
\* answer to the request may be written at the same time, and goes on sending;
\* another connects, and waits until it leaves or is closed.
Talking    == {1}
OneRequest == <<1, 0, 0>>
=============================================================================
