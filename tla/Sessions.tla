------------------------------ MODULE Sessions ------------------------------
(***************************************************************************)
(* What the login server promises about one client connection, without     *)
(* sockets, timers or buffers.  A session is opened once, is authenticated  *)
(* at most once, may ask the central server for something only while it is *)
(* authenticated, and once it has ended stays so.  An answer is given for   *)
(* an outstanding request only, whether or not the session is still there.  *)
(* Nothing here makes a session end: a client that goes on sending stays.   *)
(***************************************************************************)
EXTENDS Naturals

CONSTANT Session    \* the connections the server ever creates

VARIABLES phase,    \* phase[s]: where the session is in its life
          requests  \* requests[s]: requests of s without an answer

vars == <<phase, requests>>

Phases == {"idle", "anonymous", "authenticated", "ended"}

Init == /\ phase    = [s \in Session |-> "idle"]
        /\ requests = [s \in Session |-> 0]

\* A client connects.
Open(s) == /\ phase[s] = "idle"
           /\ phase' = [phase EXCEPT ![s] = "anonymous"]
           /\ UNCHANGED requests

\* A client connects and is refused at once.
Refuse(s) == /\ phase[s] = "idle"
             /\ phase' = [phase EXCEPT ![s] = "ended"]
             /\ UNCHANGED requests

\* The client proves who it is.
Authenticate(s) == /\ phase[s] = "anonymous"
                   /\ phase' = [phase EXCEPT ![s] = "authenticated"]
                   /\ UNCHANGED requests

\* An authenticated client asks for something; the same packet may be its last.
Request(s) == /\ phase[s] = "authenticated"
              /\ \E after \in {"authenticated", "ended"} :
                    phase' = [phase EXCEPT ![s] = after]
              /\ requests' = [requests EXCEPT ![s] = @ + 1]

\* The central server's answer to a request is consumed.
Answer(s) == /\ requests[s] > 0
             /\ requests' = [requests EXCEPT ![s] = @ - 1]
             /\ UNCHANGED phase

\* The session ends: the client left, was refused, or was silent for too long.
End(s) == /\ phase[s] \in {"anonymous", "authenticated"}
          /\ phase' = [phase EXCEPT ![s] = "ended"]
          /\ UNCHANGED requests

Next == \E s \in Session : \/ Open(s)    \/ Refuse(s) \/ Authenticate(s)
                           \/ Request(s) \/ Answer(s) \/ End(s)

Spec == Init /\ [][Next]_vars
=============================================================================
