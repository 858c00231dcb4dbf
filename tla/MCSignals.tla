----------------------------- MODULE MCSignals -----------------------------
(* The process with two messages from Redis.                                 *)
EXTENDS Signals

CONSTANTS sub, m1, m2, farewell

MCTask     == {m1, m2}
MCProducer == {sub}
=============================================================================
