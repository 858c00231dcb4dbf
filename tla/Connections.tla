---------------------------- MODULE Connections ----------------------------
(***************************************************************************)
(* The network side of the login server: Server accepts, ConnectionManager  *)
(* keeps the set of connections, and each Connection reads its client's     *)
(* packets, hands them to its Protocol, writes replies and watches itself   *)
(* with a read and a write timer.                                           *)
(*                                                                          *)
(* The handlers run on the one thread inside io_context::run().  The        *)
(* dispatcher's thread answers requests: it looks a connection up without a *)
(* lock and then sends.  A method of Connection holds m_connectionLock from *)
(* end to end, so a handler is one step.  What a method does to its object  *)
(* is an operator on the connection's record; where the code may take more  *)
(* than one path the operator is the set of records it can leave.           *)
(***************************************************************************)
EXTENDS Naturals

(* A definition whose comment begins with "Mutant" is not part of the model:  *)
(* it is the definition after it with a slip that is easy to make in the     *)
(* code, and is there to see a property fail.                                 *)

CONSTANTS MaxConns,     \* bound: connections the server creates
          Talkers,      \* bound: connections whose client sends packets
          MaxRequests,  \* bound: requests made for each connection
          MaxTimeouts   \* bound: expired waits of a connection not yet handled

Conn == 1 .. MaxConns     \* a connection is named by its m_id
None == 0

ASSUME ConnectionsAssumption == /\ MaxConns \in Nat \ {0}
                                /\ MaxRequests \in [Conn -> Nat]
                                /\ MaxTimeouts \in Nat

VARIABLES
  conn,         \* the Connection objects
  connectionId, \* ConnectionManager::CONNECTION_ID_GENERATOR
  accepting,    \* the connection the pending async_accept fills, or None
  requests,     \* callbacks waiting for an answer to that client's requests
  answering,    \* the connection whose Protocol the dispatcher's callback holds
  asked         \* requests made for the connection so far (bound)

vars == <<conn, connectionId, accepting, requests, answering, asked>>

-----------------------------------------------------------------------------
(* The Connection object.  A read is pending or completed (its handler      *)
(* queued); writes are counted because two of them may be outstanding.  A   *)
(* timer that is cancelled in time only runs a handler that returns at      *)
(* once, so only waits that expired are counted, in "timeouts".             *)

Socket   == {"unopened", "open", "closed"}
Reading  == {"none", "header", "body"}
ReadDone == {"no", "ok", "error"}

Connection ==
  [registered : BOOLEAN,   \* in ConnectionManager::m_connections
   socket     : Socket,    \* m_socket
   closed     : BOOLEAN,   \* m_closed
   first      : BOOLEAN,   \* m_receivedFirst
   account    : BOOLEAN,   \* m_protocol->m_account was found
   reading    : Reading,   \* the outstanding async_read
   readDone   : ReadDone,  \* whether it completed, and how
   readTimer  : BOOLEAN,   \* m_readTimer has a wait
   writing    : Nat,       \* async_writes in progress
   written    : Nat,       \* async_writes done, handler queued
   unwritten  : Nat,       \* async_writes failed, handler queued
   writeTimer : BOOLEAN,   \* m_writeTimer has a wait
   timeouts   : Nat]       \* handleTimeout calls queued by expired waits

Unborn == [registered |-> FALSE, socket |-> "unopened", closed |-> FALSE,
           first |-> FALSE, account |-> FALSE, reading |-> "none",
           readDone |-> "no", readTimer |-> FALSE, writing |-> 0,
           written |-> 0, unwritten |-> 0, writeTimer |-> FALSE,
           timeouts |-> 0]

\* ConnectionManager::createConnection
Created == [Unborn EXCEPT !.registered = TRUE]

Outstanding(r) == r.writing + r.written + r.unwritten

\* The object exists: the manager's set or the handler of an outstanding
\* operation holds a shared_ptr to it.
Alive(r) == r.registered \/ r.reading # "none" \/ Outstanding(r) > 0

\* Closing aborts both timers and fails every operation still in progress.
CloseSocket(r) ==
  IF r.socket = "open"
  THEN [r EXCEPT !.socket     = "closed",
                 !.readTimer  = FALSE,
                 !.writeTimer = FALSE,
                 !.readDone   = IF r.reading # "none" /\ @ = "no" THEN "error" ELSE @,
                 !.unwritten  = @ + r.writing,
                 !.writing    = 0]
  ELSE r

\* Mutant: close() marks the connection and leaves the socket as it is.
CloseLeavesSocket(r) == [r EXCEPT !.registered = FALSE, !.closed = TRUE]

Close(r) ==
  LET released == [r EXCEPT !.registered = FALSE]
  IN IF r.closed THEN released ELSE CloseSocket([released EXCEPT !.closed = TRUE])

\* async_read on a socket that is not open fails, through the handler.
AsyncRead(r, what) ==
  [r EXCEPT !.reading  = what,
            !.readDone = IF r.socket = "open" THEN "no" ELSE "error"]

\* Mutant: the next read starts without a deadline.
ReadNextUnarmed(r, what) == {AsyncRead(r, what), Close(r)}

\* Arm the read timer and start the next read; expires_from_now may throw,
\* and then the connection is closed instead.
ReadNext(r, what) == {AsyncRead([r EXCEPT !.readTimer = TRUE], what), Close(r)}

\* Mutant: the handler of a read does not cancel the read timer.
ReadCompletedUncancelled(r) == [r EXCEPT !.reading = "none", !.readDone = "no"]

\* The handler of a read starts by cancelling the read timer.
ReadCompleted(r) == [r EXCEPT !.reading = "none", !.readDone = "no", !.readTimer = FALSE]

\* async_write: it is over at once when the socket takes it all and no other is
\* in the way, is left in progress otherwise, and fails on a closed socket.
AsyncWrite(r) ==
  IF r.socket # "open" THEN {[r EXCEPT !.unwritten = @ + 1]}
  ELSE {[r EXCEPT !.writing = @ + 1]} \cup
       {s \in {[r EXCEPT !.written = @ + 1]} : r.writing = 0}

\* Mutant: the write starts without a deadline.
SendUnarmed(r) == {Close(r)} \cup AsyncWrite(r)

\* Connection::internalSend arms the write timer and writes; expires_from_now
\* may throw, and then the connection is closed instead.
Send(r) == {Close(r)} \cup AsyncWrite([r EXCEPT !.writeTimer = TRUE])

\* Protocol::disconnectClient: say why, then close.
DisconnectClient(r) == {Close(s) : s \in Send(r)}

\* Protocol::authenticate: a block RSA cannot decrypt closes without a word, a
\* refused client is told, an account that is found gets its characters.
Authenticate(r) ==
  {Close(r)} \cup DisconnectClient(r) \cup Send([r EXCEPT !.account = TRUE])

-----------------------------------------------------------------------------
Init == /\ conn = [c \in Conn |-> IF c = 1 THEN Created ELSE Unborn]
        /\ connectionId = 1     \* Server::open has called accept()
        /\ accepting = 1
        /\ requests  = [c \in Conn |-> 0]
        /\ answering = None
        /\ asked     = [c \in Conn |-> 0]

SetConn(c, r) == conn' = [conn EXCEPT ![c] = r]

(* Server::onAccept.  After an error nobody accepts again. *)
AcceptFails ==
  /\ accepting # None
  /\ accepting' = None
  /\ UNCHANGED <<conn, connectionId, requests, answering, asked>>

\* ConnectionManager::createConnection, for Server::accept, next to the new
\* record r of the connection just accepted.
CreateConnection(c, r) ==
  /\ connectionId' = connectionId + 1
  /\ accepting' = connectionId'
  /\ conn' = [conn EXCEPT ![c] = r, ![connectionId'] = Created]

\* A peer that is gone already has no address and is closed; any other one is
\* read from.  Then the server accepts the next one.
OnAccept(c) ==
  /\ accepting = c
  /\ connectionId < MaxConns
  /\ LET opened == [conn[c] EXCEPT !.socket = "open"]
     IN \E r \in {Close(opened)} \cup ReadNext(opened, "header") : CreateConnection(c, r)
  /\ UNCHANGED <<requests, answering, asked>>

(* Connection::parseHeader *)
ParseHeader(c) ==
  /\ conn[c].reading = "header"
  /\ conn[c].readDone # "no"
  /\ LET r == ReadCompleted(conn[c])
     IN \/ /\ conn[c].readDone = "error"
           /\ SetConn(c, Close(r))
        \/ /\ conn[c].readDone = "ok"
           /\ \E s \in {Close(r)} \cup ReadNext(r, "body") : SetConn(c, s)
  /\ UNCHANGED <<connectionId, accepting, requests, answering, asked>>

\* Mutant: parsePacket does not look at m_closed.
ServesAlways(r) == TRUE

\* parsePacket returns early when the connection was closed meanwhile.
Serves(r) == ~r.closed

\* The modules make n requests for what a packet asks.
Request(c, n) == /\ asked[c] + n <= MaxRequests[c]
                 /\ requests' = [requests EXCEPT ![c] = @ + n]
                 /\ asked' = [asked EXCEPT ![c] = @ + n]

(* Connection::parsePacket.  Protocol::parsePacket drops what XTEA cannot    *)
(* decrypt, notes a ping, and gives the rest to the modules: the request     *)
(* module registers a callback unless the publish fails.                     *)
ParsePacket(c) ==
  /\ conn[c].reading = "body"
  /\ conn[c].readDone # "no"
  /\ LET r == ReadCompleted(conn[c])
     IN \/ /\ conn[c].readDone = "error"
           /\ SetConn(c, Close(r))
           /\ UNCHANGED <<requests, asked>>
        \/ /\ conn[c].readDone = "ok"
           /\ ~Serves(r)
           /\ SetConn(c, r)
           /\ UNCHANGED <<requests, asked>>
        \/ /\ conn[c].readDone = "ok"
           /\ Serves(r) /\ ~r.first
           /\ \E s \in Authenticate([r EXCEPT !.first = TRUE]) :
                \E t \in ReadNext(s, "header") : SetConn(c, t)
           /\ UNCHANGED <<requests, asked>>
        \/ /\ conn[c].readDone = "ok"
           /\ Serves(r) /\ r.first
           /\ \E s \in ReadNext(r, "header") : SetConn(c, s)
           /\ \E n \in {0, 1} : Request(c, n)
  /\ UNCHANGED <<connectionId, accepting, answering>>

(* Connection::onWriteOperation *)
OnWriteOperation(c) ==
  /\ LET r == [conn[c] EXCEPT !.writeTimer = FALSE]
     IN \/ /\ r.written > 0
           /\ SetConn(c, [r EXCEPT !.written = @ - 1])
        \/ /\ r.unwritten > 0
           /\ SetConn(c, Close([r EXCEPT !.unwritten = @ - 1]))
  /\ UNCHANGED <<connectionId, accepting, requests, answering, asked>>

(* Connection::handleTimeout of a wait that expired; the weak pointer may   *)
(* no longer lock.                                                          *)
HandleTimeout(c) ==
  /\ conn[c].timeouts > 0
  /\ LET r == [conn[c] EXCEPT !.timeouts = @ - 1]
     IN SetConn(c, IF Alive(r) THEN Close(r) ELSE r)
  /\ UNCHANGED <<connectionId, accepting, requests, answering, asked>>

-----------------------------------------------------------------------------
(* The dispatcher's thread runs the callback of an answer in two steps.      *)
(* getProtocolById walks the set without its lock while the io thread edits  *)
(* it, so it may miss a connection or still see one just released.           *)
Answer(c) ==
  /\ answering = None
  /\ requests[c] > 0
  /\ requests' = [requests EXCEPT ![c] = @ - 1]
  /\ answering' \in {None} \cup {d \in {c} : Alive(conn[c])}
  /\ UNCHANGED <<conn, connectionId, accepting, asked>>

\* g_login.sendGameServerHost, Protocol::send
DispatcherSend(c) ==
  /\ answering = c
  /\ answering' = None
  /\ IF Alive(conn[c]) THEN \E r \in Send(conn[c]) : SetConn(c, r)
                       ELSE UNCHANGED conn
  /\ UNCHANGED <<connectionId, accepting, requests, asked>>

-----------------------------------------------------------------------------
(* What the io_context and the client do to the operations in progress.  A  *)
(* client may send packet after packet for ever.                            *)

ReadTimerFires(c) ==
  /\ conn[c].readTimer
  /\ conn[c].timeouts < MaxTimeouts
  /\ SetConn(c, [conn[c] EXCEPT !.readTimer = FALSE, !.timeouts = @ + 1])
  /\ UNCHANGED <<connectionId, accepting, requests, answering, asked>>

WriteTimerFires(c) ==
  /\ conn[c].writeTimer
  /\ conn[c].timeouts < MaxTimeouts
  /\ SetConn(c, [conn[c] EXCEPT !.writeTimer = FALSE, !.timeouts = @ + 1])
  /\ UNCHANGED <<connectionId, accepting, requests, answering, asked>>

ReadPending(r) == r.reading # "none" /\ r.readDone = "no"

ClientSends(c) ==
  /\ c \in Talkers
  /\ ReadPending(conn[c])
  /\ SetConn(c, [conn[c] EXCEPT !.readDone = "ok"])
  /\ UNCHANGED <<connectionId, accepting, requests, answering, asked>>

ClientLeaves(c) ==
  /\ ReadPending(conn[c])
  /\ SetConn(c, [conn[c] EXCEPT !.readDone = "error"])
  /\ UNCHANGED <<connectionId, accepting, requests, answering, asked>>

ClientReads(c) ==
  /\ conn[c].writing > 0
  /\ SetConn(c, [conn[c] EXCEPT !.writing = @ - 1, !.written = @ + 1])
  /\ UNCHANGED <<connectionId, accepting, requests, answering, asked>>

ClientResets(c) ==
  /\ conn[c].writing > 0
  /\ SetConn(c, [conn[c] EXCEPT !.writing = @ - 1, !.unwritten = @ + 1])
  /\ UNCHANGED <<connectionId, accepting, requests, answering, asked>>

-----------------------------------------------------------------------------
Next == \/ AcceptFails
        \/ \E c \in Conn :
             \/ OnAccept(c)       \/ ParseHeader(c)     \/ ParsePacket(c)
             \/ OnWriteOperation(c) \/ HandleTimeout(c)
             \/ Answer(c)         \/ DispatcherSend(c)
             \/ ReadTimerFires(c) \/ WriteTimerFires(c)
             \/ ClientSends(c)    \/ ClientLeaves(c)
             \/ ClientReads(c)    \/ ClientResets(c)

SafeSpec == Init /\ [][Next]_vars

\* The io thread runs every queued handler, and a timer expires unless it is
\* cancelled or armed again for ever: the read timer by the handlers of reads,
\* the write timer by those of writes and the dispatcher's sends (authenticate
\* sends once).  Clients, new connections and answers owe us nothing.
Fairness ==
  \A c \in Conn :
     /\ WF_vars(ParseHeader(c))
     /\ WF_vars(ParsePacket(c))
     /\ WF_vars(OnWriteOperation(c))
     /\ WF_vars(HandleTimeout(c))
     /\ WF_vars(ReadTimerFires(c) \/ ParseHeader(c) \/ ParsePacket(c))
     /\ WF_vars(WriteTimerFires(c) \/ OnWriteOperation(c) \/ DispatcherSend(c))

Spec == SafeSpec /\ Fairness

-----------------------------------------------------------------------------
(* Properties *)

\* Every variable has its type; a connection beyond the last one created is
\* untouched.
TypeOK == /\ conn \in [Conn -> Connection]
          /\ connectionId \in Conn
          /\ accepting \in {None, connectionId}
          /\ requests  \in [Conn -> Nat]
          /\ answering \in Conn \cup {None}
          /\ asked     \in [Conn -> Nat]
          /\ \A c \in Conn : /\ asked[c] <= MaxRequests[c]
                             /\ c > connectionId => conn[c] = Unborn

\* An open socket belongs to a connection that getProtocolById and closeAll
\* can still find and that nobody has closed, whichever thread or timer closed
\* first (Connection::close).
NoOrphanSocket ==
  \A c \in Conn : conn[c].socket = "open" => conn[c].registered /\ ~conn[c].closed

\* No client can keep a socket by being silent: an open connection is being
\* read, and a read in progress is watched by the read timer or a timeout is
\* already on its way (parseHeader and parsePacket cancel and arm again).
ReadGuarded ==
  \A c \in Conn :
     conn[c].socket = "open" =>
        /\ conn[c].reading # "none"
        /\ conn[c].readDone = "no" => conn[c].readTimer \/ conn[c].timeouts > 0

\* An armed timer always has an operation to watch: no handler ends the last
\* read or write of a connection and leaves its deadline running to close a
\* connection that is not late with anything.
TimersOwned ==
  \A c \in Conn : /\ conn[c].readTimer => conn[c].reading # "none"
                  /\ conn[c].writeTimer => Outstanding(conn[c]) > 0

\* Nothing is asked of the central server for a client that was not logged in,
\* although parsePacket goes on to read after authenticate has refused it.
LoginPrecedesRequest ==
  \A c \in Conn : requests[c] > 0 => conn[c].account

\* A connection once closed no longer acts on its client's bytes, even when a
\* read completed before the close and its handler runs after it.
ClosedIsInert ==
  [][\A c \in Conn :
       conn[c].closed => /\ conn'[c].account = conn[c].account
                         /\ conn'[c].first = conn[c].first
                         /\ requests'[c] <= requests[c]
                         /\ ~conn'[c].registered]_vars

\* A connection is a session of the abstract specification.
Phase(r) == CASE r.closed                                -> "ended"
              [] ~r.closed /\ r.socket = "unopened"      -> "idle"
              [] ~r.closed /\ r.socket # "unopened" /\ r.account  -> "authenticated"
              [] ~r.closed /\ r.socket # "unopened" /\ ~r.account -> "anonymous"

S == INSTANCE Sessions WITH Session <- Conn,
                            phase   <- [c \in Conn |-> Phase(conn[c])]

\* The connections implement Sessions: each is opened once, authenticated at
\* most once, makes requests only while it is and ends at most once, whatever
\* the timers, the writes and the dispatcher do meanwhile.
ImplementsSessions == S!Spec

Sending(c) == []<><<ClientSends(c)>>_vars

\* An accepted connection whose client does not go on sending for ever is in
\* the end destroyed, with its socket closed and nothing holding it (the
\* timeouts, and every handler that releases it).
SilentConnectionsEnd ==
  \A c \in Conn :
     \/ Sending(c)
     \/ conn[c].socket = "open" ~> conn[c].socket = "closed" /\ ~Alive(conn[c])

\* A write that its client never reads ends all the same, on the write timer,
\* even when the client sends for ever and so keeps the read timer from ending
\* the connection; unless writes overlap (onWriteOperation of one of them
\* cancels the timer that was armed for the other).
WritesEnd ==
  \A c \in Conn :
     [](Outstanding(conn[c]) <= 1) => (conn[c].writing > 0 ~> conn[c].writing = 0)
=============================================================================
