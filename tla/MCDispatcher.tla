---------------------------- MODULE MCDispatcher ----------------------------
(* Dispatcher with two producers and three tasks, one of which can expire.   *)
EXTENDS Dispatcher

CONSTANTS p1, p2, t1, t2, t3, farewell

MCTask      == {t1, t2, t3}
MCExpirable == {t3}
MCProducer  == {p1, p2}
=============================================================================
