------------------------- MODULE ConnectionsProofs -------------------------
(***************************************************************************)
(* Theorems about Connections for every number of connections and of       *)
(* requests, and about the message that each connection reads into.         *)
(***************************************************************************)
EXTENDS Connections, IncomingMessage, TLAPS

-----------------------------------------------------------------------------
(* One connection.                                                          *)

Opened(r) == r.socket # "unopened"

\* What holds between any two statements of a handler.
Base(r) ==
  /\ r \in Connection
  /\ r.socket = "open" => r.registered /\ ~r.closed
  /\ r.socket = "closed" <=> r.closed
  /\ r.closed => ~r.registered
  /\ ~Opened(r) => /\ r.reading = "none" /\ r.timeouts = 0 /\ ~r.readTimer
                   /\ Outstanding(r) = 0 /\ ~r.account /\ ~r.first
  /\ r.readTimer => r.reading # "none"
  /\ r.writeTimer => Outstanding(r) > 0

\* Once the first packet was handled, a connection still open is logged in.
LoggedIn(r) == ~r.closed /\ r.first => r.account

\* What ReadGuarded says of one connection.
Guarded(r) == r.socket = "open" => /\ r.reading # "none"
                                   /\ r.readDone = "no" => r.readTimer \/ r.timeouts > 0

\* What holds between handlers.
Good(r) == Base(r) /\ LoggedIn(r) /\ Guarded(r)

\* What a handler may make of an opened connection.
Step(r, s) == /\ Good(s) /\ Opened(s)
              /\ r.account => s.account
              /\ r.closed => s.closed /\ s.first = r.first /\ s.account = r.account

-----------------------------------------------------------------------------
(* The methods of Connection.                                               *)

\* Close repairs whatever a handler left unfinished, and changes nothing of
\* what the client has achieved.
LEMMA CloseGood ==
  ASSUME NEW r, Base(r), Opened(r)
  PROVE  /\ Good(Close(r)) /\ Close(r).closed /\ Opened(Close(r))
         /\ Close(r).first = r.first /\ Close(r).account = r.account
<1>1. CASE r.closed
  <2> DEFINE q == [r EXCEPT !.registered = FALSE]
  <2>1. Close(r) = q
    BY <1>1 DEF Close
  <2>2. q \in Connection
    BY DEF Base, Connection
  <2>3. /\ q.socket = "closed" /\ q.closed /\ ~q.registered
        /\ q.first = r.first /\ q.account = r.account
    BY <1>1 DEF Base, Connection
  <2>4. Outstanding(q) = Outstanding(r)
    BY DEF Base, Connection, Outstanding
  <2>5. q.readTimer = r.readTimer /\ q.reading = r.reading /\ q.writeTimer = r.writeTimer
    BY DEF Base, Connection
  <2> QED
    BY <2>1, <2>2, <2>3, <2>4, <2>5 DEF Base, Opened, Good, LoggedIn, Guarded
<1>2. CASE ~r.closed
  <2> DEFINE p == [[r EXCEPT !.registered = FALSE] EXCEPT !.closed = TRUE]
             failed == IF p.reading # "none" /\ p.readDone = "no"
                       THEN "error" ELSE p.readDone
             q == [p EXCEPT !.socket = "closed", !.readTimer = FALSE,
                            !.writeTimer = FALSE, !.readDone = failed,
                            !.unwritten = p.unwritten + p.writing, !.writing = 0]
  <2>1. /\ p \in Connection /\ p.socket = "open" /\ p.closed /\ ~p.registered
        /\ p.first = r.first /\ p.account = r.account
    BY <1>2 DEF Base, Connection, Opened, Socket
  <2>2. Close(r) = q
    BY <1>2, <2>1 DEF Close, CloseSocket
  <2> HIDE DEF p
  <2>3. p.unwritten + p.writing \in Nat /\ failed \in ReadDone
    BY <2>1 DEF Connection, ReadDone
  <2>4. q \in Connection
    BY <2>1, <2>3, 0 \in Nat, Zenon DEF Connection, Socket
  <2>5. /\ q.socket = "closed" /\ ~q.readTimer /\ ~q.writeTimer /\ q.closed
        /\ ~q.registered /\ q.first = r.first /\ q.account = r.account
    BY <2>1 DEF Connection
  <2> QED
    BY <2>2, <2>4, <2>5 DEF Base, Opened, Good, LoggedIn, Guarded
<1> QED BY <1>1, <1>2

\* A send leaves the connection in order and may close it.
LEMMA SendBase ==
  ASSUME NEW r, Base(r), Opened(r), NEW s \in Send(r)
  PROVE  /\ Base(s) /\ Opened(s) /\ (r.closed => s.closed)
         /\ s.first = r.first /\ s.account = r.account
         /\ Guarded(r) => Guarded(s)
<1> DEFINE armed == [r EXCEPT !.writeTimer = TRUE]
<1>1. /\ armed \in Connection
      /\ armed.unwritten + 1 \in Nat /\ armed.writing + 1 \in Nat /\ armed.written + 1 \in Nat
  <2>1. armed \in Connection
    BY Zenon DEF Base, Connection
  <2> QED BY <2>1 DEF Connection
<1>2. CASE s = Close(r)
  BY <1>2, CloseGood DEF Good
<1>3. CASE s = [armed EXCEPT !.unwritten = @ + 1]
  <2>1. s \in Connection
    BY <1>1, <1>3, Zenon DEF Connection
  <2>2. /\ s.socket = r.socket /\ s.closed = r.closed /\ s.registered = r.registered
        /\ s.first = r.first /\ s.account = r.account
        /\ s.reading = r.reading /\ s.readTimer = r.readTimer
        /\ s.timeouts = r.timeouts /\ s.readDone = r.readDone
    BY <1>3 DEF Base, Connection
  <2>3. Outstanding(s) > 0
    BY <1>3 DEF Base, Connection, Outstanding
  <2> QED BY <2>1, <2>2, <2>3 DEF Base, Opened, Guarded
<1>4. CASE s = [armed EXCEPT !.writing = @ + 1]
  <2>1. s \in Connection
    BY <1>1, <1>4, Zenon DEF Connection
  <2>2. /\ s.socket = r.socket /\ s.closed = r.closed /\ s.registered = r.registered
        /\ s.first = r.first /\ s.account = r.account
        /\ s.reading = r.reading /\ s.readTimer = r.readTimer
        /\ s.timeouts = r.timeouts /\ s.readDone = r.readDone
    BY <1>4 DEF Base, Connection
  <2>3. Outstanding(s) > 0
    BY <1>4 DEF Base, Connection, Outstanding
  <2> QED BY <2>1, <2>2, <2>3 DEF Base, Opened, Guarded
<1>5. CASE s = [armed EXCEPT !.written = @ + 1]
  <2>1. s \in Connection
    BY <1>1, <1>5, Zenon DEF Connection
  <2>2. /\ s.socket = r.socket /\ s.closed = r.closed /\ s.registered = r.registered
        /\ s.first = r.first /\ s.account = r.account
        /\ s.reading = r.reading /\ s.readTimer = r.readTimer
        /\ s.timeouts = r.timeouts /\ s.readDone = r.readDone
    BY <1>5 DEF Base, Connection
  <2>3. Outstanding(s) > 0
    BY <1>5 DEF Base, Connection, Outstanding
  <2> QED BY <2>1, <2>2, <2>3 DEF Base, Opened, Guarded
<1> QED BY <1>2, <1>3, <1>4, <1>5 DEF Send, AsyncWrite

\* The first statement of a read's handler.
LEMMA ReadCompletedBase ==
  ASSUME NEW r, Base(r), Opened(r)
  PROVE  LET s == ReadCompleted(r)
         IN /\ Base(s) /\ Opened(s) /\ s.closed = r.closed
            /\ s.first = r.first /\ s.account = r.account
<1> DEFINE s == ReadCompleted(r)
<1>1. s \in Connection
  BY Zenon DEF Base, Connection, ReadCompleted, Reading, ReadDone
<1>2. /\ s.socket = r.socket /\ s.closed = r.closed /\ s.registered = r.registered
      /\ s.first = r.first /\ s.account = r.account /\ ~s.readTimer
      /\ s.writeTimer = r.writeTimer
  BY DEF Base, Connection, ReadCompleted
<1>3. Outstanding(s) = Outstanding(r)
  BY DEF Base, Connection, Outstanding, ReadCompleted
<1> QED BY <1>1, <1>2, <1>3 DEF Base, Opened

\* The last statements of a read's handler guard the connection again.
LEMMA ReadNextGood ==
  ASSUME NEW r, Base(r), LoggedIn(r), Opened(r),
         NEW what \in {"header", "body"}, NEW s \in ReadNext(r, what)
  PROVE  /\ Good(s) /\ Opened(s) /\ (r.closed => s.closed)
         /\ s.first = r.first /\ s.account = r.account
<1>1. CASE s = Close(r)
  BY <1>1, CloseGood
<1>2. CASE s = AsyncRead([r EXCEPT !.readTimer = TRUE], what)
  <2> DEFINE done == IF r.socket = "open" THEN "no" ELSE "error"
  <2>1. s = [[r EXCEPT !.readTimer = TRUE] EXCEPT !.reading = what, !.readDone = done]
    BY <1>2 DEF AsyncRead, Base, Connection
  <2>2. what \in Reading /\ done \in ReadDone
    BY DEF Reading, ReadDone
  <2> HIDE DEF done
  <2>3. s \in Connection
    BY <2>1, <2>2, Zenon DEF Base, Connection
  <2>4. /\ s.socket = r.socket /\ s.closed = r.closed /\ s.registered = r.registered
        /\ s.first = r.first /\ s.account = r.account
        /\ s.reading = what /\ s.readTimer /\ s.writeTimer = r.writeTimer
    BY <2>1 DEF Base, Connection
  <2>5. Outstanding(s) = Outstanding(r)
    BY <2>1 DEF Base, Connection, Outstanding
  <2> QED BY <2>3, <2>4, <2>5 DEF Good, Base, LoggedIn, Guarded, Opened
<1> QED BY <1>1, <1>2 DEF ReadNext

\* Authentication ends with a client that is logged in or a closed connection.
LEMMA AuthenticateBase ==
  ASSUME NEW r, Base(r), Opened(r), NEW s \in Authenticate(r)
  PROVE  /\ Base(s) /\ LoggedIn(s) /\ Opened(s) /\ s.first = r.first
         /\ r.account => s.account
<1>1. CASE s = Close(r)
  BY <1>1, CloseGood DEF Good
<1>2. CASE s \in DisconnectClient(r)
  BY <1>2, SendBase, CloseGood DEF DisconnectClient, Good
<1>3. CASE s \in Send([r EXCEPT !.account = TRUE])
  <2> DEFINE q == [r EXCEPT !.account = TRUE]
  <2>1. q \in Connection
    BY Zenon DEF Base, Connection
  <2>2. /\ q.socket = r.socket /\ q.closed = r.closed /\ q.registered = r.registered
        /\ q.first = r.first /\ q.account
        /\ q.reading = r.reading /\ q.readTimer = r.readTimer
        /\ q.writeTimer = r.writeTimer
    BY DEF Base, Connection
  <2>3. Outstanding(q) = Outstanding(r)
    BY DEF Base, Connection, Outstanding
  <2>4. Base(q) /\ Opened(q)
    BY <2>1, <2>2, <2>3 DEF Base, Opened
  <2> QED BY <1>3, <2>2, <2>4, SendBase DEF LoggedIn
<1> QED BY <1>1, <1>2, <1>3 DEF Authenticate

-----------------------------------------------------------------------------
(* The handlers, on the record of the connection they run for.              *)

\* A header was read.
LEMMA ParseHeaderStep ==
  ASSUME NEW r, Good(r), r.reading = "header",
         NEW s \in {Close(ReadCompleted(r))} \cup ReadNext(ReadCompleted(r), "body")
  PROVE  Step(r, s)
<1>1. Opened(r)
  BY DEF Good, Base
<1>2. /\ Base(ReadCompleted(r)) /\ Opened(ReadCompleted(r)) /\ LoggedIn(ReadCompleted(r))
      /\ ReadCompleted(r).closed = r.closed /\ ReadCompleted(r).first = r.first
      /\ ReadCompleted(r).account = r.account
  BY <1>1, ReadCompletedBase DEF Good, LoggedIn
<1>3. CASE s = Close(ReadCompleted(r))
  BY <1>2, <1>3, CloseGood DEF Step
<1>4. CASE s \in ReadNext(ReadCompleted(r), "body")
  BY <1>2, <1>4, ReadNextGood DEF Step
<1> QED BY <1>3, <1>4

\* A packet of a connection that is closed, or closed by it, changes nothing
\* else; one that asks something leaves the client logged in.
LEMMA ParsePacketStep ==
  ASSUME NEW r, Good(r), r.reading = "body"
  PROVE  LET q == ReadCompleted(r)
         IN /\ Step(r, Close(q))
            /\ r.closed => Step(r, q)
            /\ ~r.closed /\ ~r.first =>
                 \A s \in Authenticate([q EXCEPT !.first = TRUE]) :
                   \A t \in ReadNext(s, "header") : Step(r, t)
            /\ ~r.closed /\ r.first =>
                 /\ r.account
                 /\ \A s \in ReadNext(q, "header") : Step(r, s) /\ s.account
<1> DEFINE q == ReadCompleted(r)
<1>1. Opened(r)
  BY DEF Good, Base
<1>2. /\ Base(q) /\ Opened(q) /\ q.closed = r.closed
      /\ q.first = r.first /\ q.account = r.account
  BY <1>1, ReadCompletedBase DEF Good
<1> HIDE DEF q
<1>3. Step(r, Close(q))
  BY <1>2, CloseGood DEF Step
<1>4. ASSUME r.closed PROVE Step(r, q)
  BY <1>2, <1>4 DEF Step, Good, LoggedIn, Guarded, Base
<1>5. ASSUME ~r.closed, ~r.first,
             NEW s \in Authenticate([q EXCEPT !.first = TRUE]),
             NEW t \in ReadNext(s, "header")
      PROVE  Step(r, t)
  <2> DEFINE p == [q EXCEPT !.first = TRUE]
  <2>1. p \in Connection
    BY <1>2, Zenon DEF Base, Connection
  <2>2. /\ p.socket = q.socket /\ p.closed = q.closed /\ p.registered = q.registered
        /\ p.account = q.account /\ p.reading = q.reading
        /\ p.readTimer = q.readTimer /\ p.writeTimer = q.writeTimer
    BY <1>2 DEF Base, Connection
  <2>3. Outstanding(p) = Outstanding(q)
    BY <1>2 DEF Base, Connection, Outstanding
  <2>4. Base(p) /\ Opened(p)
    BY <1>2, <2>1, <2>2, <2>3 DEF Base, Opened
  <2>5. Base(s) /\ LoggedIn(s) /\ Opened(s) /\ (r.account => s.account)
    BY <1>2, <1>5, <2>2, <2>4, AuthenticateBase
  <2> QED BY <1>5, <2>5, ReadNextGood DEF Step
<1>6. ASSUME ~r.closed, r.first
      PROVE  r.account /\ \A s \in ReadNext(q, "header") : Step(r, s) /\ s.account
  <2>1. r.account /\ LoggedIn(q)
    BY <1>2, <1>6 DEF Good, LoggedIn
  <2> QED BY <1>2, <1>6, <2>1, ReadNextGood DEF Step
<1> QED BY <1>3, <1>4, <1>5, <1>6 DEF q

\* A write is over.
LEMMA OnWriteOperationStep ==
  ASSUME NEW r, Good(r)
  PROVE  LET q == [r EXCEPT !.writeTimer = FALSE]
         IN /\ r.written > 0 => Step(r, [q EXCEPT !.written = @ - 1])
            /\ r.unwritten > 0 => Step(r, Close([q EXCEPT !.unwritten = @ - 1]))
<1> DEFINE q == [r EXCEPT !.writeTimer = FALSE]
<1>1. /\ q \in Connection
      /\ r.written > 0 => q.written - 1 \in Nat
      /\ r.unwritten > 0 => q.unwritten - 1 \in Nat
      /\ r.written > 0 \/ r.unwritten > 0 => Opened(r)
  <2>1. q \in Connection
    BY Zenon DEF Good, Base, Connection
  <2> QED BY <2>1 DEF Good, Base, Connection, Outstanding
<1>2. ASSUME r.written > 0 PROVE Step(r, [q EXCEPT !.written = @ - 1])
  <2> DEFINE s == [q EXCEPT !.written = @ - 1]
  <2>1. s \in Connection
    BY <1>1, <1>2, Zenon DEF Connection
  <2>2. /\ s.socket = r.socket /\ s.closed = r.closed /\ s.registered = r.registered
        /\ s.first = r.first /\ s.account = r.account /\ ~s.writeTimer
        /\ s.reading = r.reading /\ s.readTimer = r.readTimer
        /\ s.timeouts = r.timeouts /\ s.readDone = r.readDone
    BY DEF Good, Base, Connection
  <2> QED BY <1>1, <1>2, <2>1, <2>2 DEF Step, Good, Base, LoggedIn, Guarded, Opened
<1>3. ASSUME r.unwritten > 0 PROVE Step(r, Close([q EXCEPT !.unwritten = @ - 1]))
  <2> DEFINE s == [q EXCEPT !.unwritten = @ - 1]
  <2>1. s \in Connection
    BY <1>1, <1>3, Zenon DEF Connection
  <2>2. /\ s.socket = r.socket /\ s.closed = r.closed /\ s.registered = r.registered
        /\ s.first = r.first /\ s.account = r.account /\ ~s.writeTimer
        /\ s.reading = r.reading /\ s.readTimer = r.readTimer
    BY DEF Good, Base, Connection
  <2>3. Base(s) /\ Opened(s)
    BY <1>1, <1>3, <2>1, <2>2 DEF Good, Base, Opened
  <2> HIDE DEF s
  <2>4. Step(r, Close(s))
    BY <2>2, <2>3, CloseGood DEF Step
  <2> QED BY <2>4 DEF s
<1> QED BY <1>2, <1>3

\* A deadline has passed.
LEMMA HandleTimeoutStep ==
  ASSUME NEW r, Good(r), r.timeouts > 0
  PROVE  LET s == [r EXCEPT !.timeouts = @ - 1]
         IN Step(r, IF Alive(s) THEN Close(s) ELSE s)
<1> DEFINE s == [r EXCEPT !.timeouts = @ - 1]
<1>1. r.timeouts - 1 \in Nat /\ Opened(r)
  BY DEF Good, Base, Connection
<1>2. s \in Connection
  BY <1>1, Zenon DEF Good, Base, Connection
<1>3. /\ s.socket = r.socket /\ s.closed = r.closed /\ s.registered = r.registered
      /\ s.first = r.first /\ s.account = r.account
      /\ s.reading = r.reading /\ s.readTimer = r.readTimer
      /\ s.writeTimer = r.writeTimer
  BY DEF Good, Base, Connection
<1>4. Outstanding(s) = Outstanding(r)
  BY DEF Good, Base, Connection, Outstanding
<1>5. Base(s) /\ Opened(s) /\ LoggedIn(s)
  BY <1>1, <1>2, <1>3, <1>4 DEF Good, Base, Opened, LoggedIn
<1> HIDE DEF s
<1>6. ASSUME Alive(s) PROVE Step(r, Close(s))
  BY <1>3, <1>5, <1>6, CloseGood DEF Step
<1>7. ASSUME ~Alive(s) PROVE Step(r, s)
  BY <1>3, <1>5, <1>7 DEF Step, Alive, Good, Base, Guarded
<1> QED BY <1>6, <1>7 DEF s

\* The dispatcher's thread sends.
LEMMA SendStep ==
  ASSUME NEW r, Good(r), Opened(r), NEW s \in Send(r)
  PROVE  Step(r, s)
BY SendBase DEF Good, LoggedIn, Step
\* An expired wait becomes a queued timeout.
LEMMA TimerStep ==
  ASSUME NEW r, Good(r)
  PROVE  /\ r.readTimer => Step(r, [r EXCEPT !.readTimer = FALSE, !.timeouts = @ + 1])
         /\ r.writeTimer => Step(r, [r EXCEPT !.writeTimer = FALSE, !.timeouts = @ + 1])
<1>1. r.timeouts + 1 \in Nat /\ (r.readTimer \/ r.writeTimer => Opened(r))
  BY DEF Good, Base, Connection
<1>2. ASSUME r.readTimer
      PROVE  Step(r, [r EXCEPT !.readTimer = FALSE, !.timeouts = @ + 1])
  <2> DEFINE s == [r EXCEPT !.readTimer = FALSE, !.timeouts = @ + 1]
  <2>1. s \in Connection
    BY <1>1, Zenon DEF Good, Base, Connection
  <2>2. /\ s.socket = r.socket /\ s.closed = r.closed /\ s.registered = r.registered
        /\ s.first = r.first /\ s.account = r.account /\ s.reading = r.reading
        /\ ~s.readTimer /\ s.writeTimer = r.writeTimer /\ s.timeouts > 0
    BY DEF Good, Base, Connection
  <2>3. Outstanding(s) = Outstanding(r)
    BY DEF Good, Base, Connection, Outstanding
  <2> QED BY <1>1, <1>2, <2>1, <2>2, <2>3 DEF Step, Good, Base, LoggedIn, Guarded, Opened
<1>3. ASSUME r.writeTimer
      PROVE  Step(r, [r EXCEPT !.writeTimer = FALSE, !.timeouts = @ + 1])
  <2> DEFINE s == [r EXCEPT !.writeTimer = FALSE, !.timeouts = @ + 1]
  <2>1. s \in Connection
    BY <1>1, Zenon DEF Good, Base, Connection
  <2>2. /\ s.socket = r.socket /\ s.closed = r.closed /\ s.registered = r.registered
        /\ s.first = r.first /\ s.account = r.account /\ s.reading = r.reading
        /\ s.readTimer = r.readTimer /\ ~s.writeTimer /\ s.timeouts > 0
    BY DEF Good, Base, Connection
  <2> QED BY <1>1, <1>3, <2>1, <2>2 DEF Step, Good, Base, LoggedIn, Guarded, Opened
<1> QED BY <1>2, <1>3

\* The client's end of a read.
LEMMA ReadEndsStep ==
  ASSUME NEW r, Good(r), r.reading # "none", NEW how \in {"ok", "error"}
  PROVE  Step(r, [r EXCEPT !.readDone = how])
<1> DEFINE s == [r EXCEPT !.readDone = how]
<1>1. s \in Connection
  <2>1. how \in ReadDone
    BY DEF ReadDone
  <2> QED BY <2>1, Zenon DEF Good, Base, Connection
<1>2. /\ s.socket = r.socket /\ s.closed = r.closed /\ s.registered = r.registered
      /\ s.first = r.first /\ s.account = r.account /\ s.reading = r.reading
      /\ s.readTimer = r.readTimer /\ s.writeTimer = r.writeTimer /\ s.readDone = how
  BY DEF Good, Base, Connection
<1>3. Outstanding(s) = Outstanding(r)
  BY DEF Good, Base, Connection, Outstanding
<1> QED BY <1>1, <1>2, <1>3 DEF Step, Good, Base, LoggedIn, Guarded, Opened

\* The client's end of a write.
LEMMA WriteEndsStep ==
  ASSUME NEW r, Good(r), r.writing > 0
  PROVE  /\ Step(r, [r EXCEPT !.writing = @ - 1, !.written = @ + 1])
         /\ Step(r, [r EXCEPT !.writing = @ - 1, !.unwritten = @ + 1])
<1>1. /\ r.writing - 1 \in Nat /\ r.written + 1 \in Nat /\ r.unwritten + 1 \in Nat
      /\ Opened(r)
  BY DEF Good, Base, Connection, Outstanding
<1>2. Step(r, [r EXCEPT !.writing = @ - 1, !.written = @ + 1])
  <2> DEFINE s == [r EXCEPT !.writing = @ - 1, !.written = @ + 1]
  <2>1. s \in Connection
    BY <1>1, Zenon DEF Good, Base, Connection
  <2>2. /\ s.socket = r.socket /\ s.closed = r.closed /\ s.registered = r.registered
        /\ s.first = r.first /\ s.account = r.account /\ s.reading = r.reading
        /\ s.readTimer = r.readTimer /\ s.writeTimer = r.writeTimer
        /\ s.readDone = r.readDone /\ s.timeouts = r.timeouts
    BY DEF Good, Base, Connection
  <2>3. Outstanding(s) = Outstanding(r)
    BY <1>1 DEF Good, Base, Connection, Outstanding
  <2> QED BY <1>1, <2>1, <2>2, <2>3 DEF Step, Good, Base, LoggedIn, Guarded, Opened
<1>3. Step(r, [r EXCEPT !.writing = @ - 1, !.unwritten = @ + 1])
  <2> DEFINE s == [r EXCEPT !.writing = @ - 1, !.unwritten = @ + 1]
  <2>1. s \in Connection
    BY <1>1, Zenon DEF Good, Base, Connection
  <2>2. /\ s.socket = r.socket /\ s.closed = r.closed /\ s.registered = r.registered
        /\ s.first = r.first /\ s.account = r.account /\ s.reading = r.reading
        /\ s.readTimer = r.readTimer /\ s.writeTimer = r.writeTimer
        /\ s.readDone = r.readDone /\ s.timeouts = r.timeouts
    BY DEF Good, Base, Connection
  <2>3. Outstanding(s) = Outstanding(r)
    BY <1>1 DEF Good, Base, Connection, Outstanding
  <2> QED BY <1>1, <2>1, <2>2, <2>3 DEF Step, Good, Base, LoggedIn, Guarded, Opened
<1> QED BY <1>2, <1>3

\* A connection that is not accepted yet is in order; once its socket is open
\* it is closed or read from.
LEMMA CreatedGood ==
  /\ Good(Unborn) /\ Good(Created) /\ ~Opened(Unborn) /\ ~Opened(Created)
  /\ LET opened == [Created EXCEPT !.socket = "open"]
     IN \A s \in {Close(opened)} \cup ReadNext(opened, "header") :
          Step(Created, s) /\ ~s.account
<1>1. /\ Unborn \in Connection /\ Created \in Connection
      /\ [Created EXCEPT !.socket = "open"] \in Connection
  BY DEF Unborn, Created, Connection, Socket, Reading, ReadDone
<1>2. Good(Unborn) /\ Good(Created) /\ ~Opened(Unborn) /\ ~Opened(Created)
  BY <1>1 DEF Good, Base, LoggedIn, Guarded, Opened, Unborn, Created, Outstanding
<1>3. ~Created.closed /\ ~Created.first /\ ~Created.account
  BY DEF Unborn, Created
<1> DEFINE opened == [Created EXCEPT !.socket = "open"]
<1>4. Base(opened) /\ LoggedIn(opened) /\ Opened(opened) /\ ~opened.account
  BY <1>1 DEF Base, LoggedIn, Opened, Unborn, Created, Outstanding
<1> HIDE DEF opened
<1>5. \A s \in {Close(opened)} \cup ReadNext(opened, "header") :
          Step(Created, s) /\ ~s.account
  BY <1>3, <1>4, CloseGood, ReadNextGood DEF Step
<1> QED BY <1>2, <1>5 DEF opened

-----------------------------------------------------------------------------
(* The inductive invariant.                                                 *)

IInv ==
  /\ TypeOK
  /\ \A c \in Conn : Good(conn[c])
  /\ accepting # None => conn[accepting] = Created
  /\ \A c \in Conn : requests[c] > 0 => conn[c].account
  /\ answering # None => conn[answering].account

\* There is no connection to begin with.
LEMMA IInvInit == ConnectionsAssumption /\ Init => IInv
<1> SUFFICES ASSUME MaxConns \in Nat \ {0}, MaxRequests \in [Conn -> Nat], Init
             PROVE  IInv
  BY DEF ConnectionsAssumption
<1>1. Unborn \in Connection /\ Created \in Connection
  BY CreatedGood DEF Good, Base
<1>2. TypeOK
  BY <1>1 DEF TypeOK, Init, Conn, None
<1>3. \A c \in Conn : Good(conn[c])
  BY CreatedGood DEF Init
<1>4. accepting # None => conn[accepting] = Created
  BY DEF Init, Conn, None
<1> QED BY <1>2, <1>3, <1>4 DEF IInv, Init
\* One connection takes a step and the rest follows it.
LEMMA OneStep ==
  ASSUME IInv, NEW c \in Conn, NEW r, Step(conn[c], r), SetConn(c, r),
         Opened(conn[c]),
         UNCHANGED <<connectionId, accepting>>,
         requests' \in [Conn -> Nat],
         \A d \in Conn : requests'[d] > 0 => conn[d].account,
         answering' \in {answering, None},
         asked' \in [Conn -> Nat],
         \A d \in Conn : asked'[d] <= MaxRequests[d]
  PROVE  IInv'
<1>1. conn' \in [Conn -> Connection]
  BY DEF IInv, TypeOK, SetConn, Step, Good, Base
<1>2. \A d \in Conn : d # c => conn'[d] = conn[d]
  BY DEF IInv, TypeOK, SetConn
<1>3. conn'[c] = r
  BY DEF IInv, TypeOK, SetConn
<1>4. ~(c > connectionId) /\ c # accepting
  BY CreatedGood DEF IInv, TypeOK, Conn, None
<1>5. TypeOK'
  BY <1>1, <1>2, <1>4 DEF IInv, TypeOK
<1>6. \A d \in Conn : Good(conn'[d])
  BY <1>2, <1>3 DEF IInv, Step
<1>7. accepting' # None => conn'[accepting'] = Created
  BY <1>2, <1>4 DEF IInv, TypeOK
<1>8. \A d \in Conn : conn[d].account => conn'[d].account
  BY <1>2, <1>3 DEF Step
<1>9. answering' # None => conn'[answering'].account
  BY <1>8 DEF IInv, TypeOK
<1>10. \A d \in Conn : requests'[d] > 0 => conn'[d].account
  BY <1>8
<1> QED BY <1>5, <1>6, <1>7, <1>9, <1>10 DEF IInv

\* What OneStep asks of a handler that leaves the requests alone.
LEMMA QuietStep ==
  ASSUME IInv, NEW c \in Conn, NEW r, Step(conn[c], r), SetConn(c, r),
         Opened(conn[c]), UNCHANGED <<connectionId, accepting, requests, answering, asked>>
  PROVE  IInv'
BY OneStep DEF IInv, TypeOK

\* No operation is outstanding on a connection that is not accepted.
LEMMA OutstandingOpened ==
  ASSUME NEW r, Good(r)
  PROVE  /\ r.reading # "none" \/ r.readTimer \/ r.writeTimer \/ r.timeouts > 0 => Opened(r)
         /\ r.writing > 0 \/ r.written > 0 \/ r.unwritten > 0 => Opened(r)
         /\ r.account => Opened(r)
BY DEF Good, Base, Connection, Outstanding

\* Server::onAccept opens the connection it was given and creates the next.
LEMMA AcceptStep ==
  ASSUME ConnectionsAssumption, IInv, NEW c \in Conn, OnAccept(c)
  PROVE  LET e == connectionId + 1
         IN /\ conn[c] = Created /\ conn[e] = Unborn
            /\ c = connectionId /\ e \in Conn /\ c # e
            /\ connectionId' = e /\ accepting' = e
            /\ \E r : /\ Step(Created, r) /\ ~r.account
                      /\ conn' = [conn EXCEPT ![c] = r, ![e] = Created]
            /\ UNCHANGED <<requests, answering, asked>>
<1> DEFINE e == connectionId + 1
<1>1. /\ conn[c] = Created /\ c = connectionId /\ e \in Conn /\ c # e /\ conn[e] = Unborn
      /\ connectionId' = e /\ accepting' = e
  BY DEF ConnectionsAssumption, OnAccept, CreateConnection, IInv, TypeOK, Conn, None
<1>2. PICK r : /\ Step(Created, r) /\ ~r.account
               /\ conn' = [conn EXCEPT ![c] = r, ![e] = Created]
  BY <1>1, CreatedGood DEF OnAccept, CreateConnection
<1> QED BY <1>1, <1>2 DEF OnAccept

\* Every step taken for one connection except its acceptance and its answers.
Handler(c) == \/ ParseHeader(c)      \/ ParsePacket(c)   \/ OnWriteOperation(c)
              \/ HandleTimeout(c)    \/ DispatcherSend(c)
              \/ ReadTimerFires(c)   \/ WriteTimerFires(c)
              \/ ClientSends(c)      \/ ClientLeaves(c)
              \/ ClientReads(c)      \/ ClientResets(c)

\* A handler takes its own connection a step, and a request is made only for a
\* client that is logged in and not closed.
LEMMA HandlerStep ==
  ASSUME IInv, NEW c \in Conn, Handler(c)
  PROVE  /\ Opened(conn[c])
         /\ \E r : Step(conn[c], r) /\ SetConn(c, r)
         /\ \/ UNCHANGED requests
            \/ /\ ~conn[c].closed /\ conn[c].account
               /\ \E n \in {0, 1} : requests' = [requests EXCEPT ![c] = @ + n]
<1>0. Good(conn[c])
  BY DEF IInv
<1> DEFINE Effect == /\ Opened(conn[c])
                     /\ \E r : Step(conn[c], r) /\ SetConn(c, r)
                     /\ \/ UNCHANGED requests
                        \/ /\ ~conn[c].closed /\ conn[c].account
                           /\ \E n \in {0, 1} :
                                requests' = [requests EXCEPT ![c] = @ + n]
<1>1. CASE ParseHeader(c)
  BY <1>0, <1>1, OutstandingOpened, ParseHeaderStep DEF ParseHeader
<1>2. CASE ParsePacket(c)
  <2> DEFINE q == ReadCompleted(conn[c])
  <2>1. Opened(conn[c])
    BY <1>0, <1>2, OutstandingOpened DEF ParsePacket
  <2>2. /\ Step(conn[c], Close(q))
        /\ conn[c].closed => Step(conn[c], q)
        /\ ~conn[c].closed /\ ~conn[c].first =>
             \A s \in Authenticate([q EXCEPT !.first = TRUE]) :
               \A t \in ReadNext(s, "header") : Step(conn[c], t)
        /\ ~conn[c].closed /\ conn[c].first =>
             /\ conn[c].account
             /\ \A s \in ReadNext(q, "header") : Step(conn[c], s)
    BY <1>0, <1>2, ParsePacketStep DEF ParsePacket
  <2>3. q.closed = conn[c].closed /\ q.first = conn[c].first
    BY <1>0, <2>1, ReadCompletedBase DEF Good
  <2>4. \/ SetConn(c, Close(q)) /\ UNCHANGED requests
        \/ q.closed /\ SetConn(c, q) /\ UNCHANGED requests
        \/ /\ ~q.closed /\ ~q.first /\ UNCHANGED requests
           /\ \E s \in Authenticate([q EXCEPT !.first = TRUE]) :
                \E t \in ReadNext(s, "header") : SetConn(c, t)
        \/ /\ ~q.closed /\ q.first
           /\ \E s \in ReadNext(q, "header") : SetConn(c, s)
           /\ \E n \in {0, 1} : requests' = [requests EXCEPT ![c] = @ + n]
    BY <1>2, Zenon DEF ParsePacket, Serves, Request
  <2> HIDE DEF q
  <2> QED BY <2>1, <2>2, <2>3, <2>4
<1>3. CASE OnWriteOperation(c)
  <2>1. conn[c].written > 0 \/ conn[c].unwritten > 0
    BY <1>0, <1>3 DEF OnWriteOperation, Good, Base, Connection
  <2>2. \E r : Step(conn[c], r) /\ SetConn(c, r)
    BY <1>0, <1>3, <2>1, OnWriteOperationStep DEF OnWriteOperation, Good, Base, Connection
  <2> QED BY <1>0, <1>3, <2>1, <2>2, OutstandingOpened DEF OnWriteOperation
<1>4. CASE HandleTimeout(c)
  BY <1>0, <1>4, OutstandingOpened, HandleTimeoutStep DEF HandleTimeout
<1>5. CASE DispatcherSend(c)
  <2>1. answering = c /\ c # None /\ UNCHANGED requests
    BY <1>5 DEF DispatcherSend, Conn, None
  <2>2. Opened(conn[c])
    BY <1>0, <2>1, OutstandingOpened DEF IInv
  <2>3. CASE Alive(conn[c])
    BY <1>0, <1>5, <2>1, <2>2, <2>3, SendStep DEF DispatcherSend
  <2>4. CASE ~Alive(conn[c])
    <3>1. Step(conn[c], conn[c]) /\ SetConn(c, conn[c])
      BY <1>0, <1>5, <2>2, <2>4 DEF DispatcherSend, Step, SetConn, IInv, TypeOK
    <3> QED BY <2>1, <2>2, <3>1
  <2> QED BY <2>3, <2>4
<1>6. CASE ReadTimerFires(c) \/ WriteTimerFires(c)
  BY <1>0, <1>6, OutstandingOpened, TimerStep DEF ReadTimerFires, WriteTimerFires
<1>7. CASE ClientSends(c) \/ ClientLeaves(c)
  BY <1>0, <1>7, OutstandingOpened, ReadEndsStep DEF ClientSends, ClientLeaves, ReadPending
<1>8. CASE ClientReads(c) \/ ClientResets(c)
  BY <1>0, <1>8, OutstandingOpened, WriteEndsStep DEF ClientReads, ClientResets
<1> QED BY <1>1, <1>2, <1>3, <1>4, <1>5, <1>6, <1>7, <1>8 DEF Handler

\* What a handler leaves of the variables that are not its connection's.
LEMMA HandlerFrame ==
  ASSUME IInv, NEW c \in Conn, Handler(c)
  PROVE  /\ UNCHANGED <<connectionId, accepting>>
         /\ answering' \in {answering, None}
         /\ asked' \in [Conn -> Nat]
         /\ \A d \in Conn : asked'[d] <= MaxRequests[d]
<1>0. asked \in [Conn -> Nat] /\ \A d \in Conn : asked[d] <= MaxRequests[d]
  BY DEF IInv, TypeOK
<1>1. CASE ParsePacket(c)
  <2>1. UNCHANGED <<connectionId, accepting, answering>>
    BY <1>1 DEF ParsePacket
  <2>2. UNCHANGED asked \/ \E n \in {0, 1} : Request(c, n)
    BY <1>1 DEF ParsePacket
  <2>3. ASSUME NEW n \in {0, 1}, Request(c, n)
        PROVE  asked' \in [Conn -> Nat] /\ \A d \in Conn : asked'[d] <= MaxRequests[d]
    BY <1>0, <2>3 DEF Request
  <2> QED BY <1>0, <2>1, <2>2, <2>3
<1>2. CASE DispatcherSend(c)
  BY <1>2 DEF DispatcherSend, IInv, TypeOK
<1>3. CASE ~ParsePacket(c) /\ ~DispatcherSend(c)
  <2>1. UNCHANGED <<connectionId, accepting, answering, asked>>
    BY <1>3 DEF Handler, ParseHeader, OnWriteOperation, HandleTimeout, ReadTimerFires,
                WriteTimerFires, ClientSends, ClientLeaves, ClientReads, ClientResets
  <2> QED BY <2>1 DEF IInv, TypeOK
<1> QED BY <1>1, <1>2, <1>3

\* Every step keeps the invariant.
LEMMA IInvNext == ConnectionsAssumption /\ IInv /\ [Next]_vars => IInv'
<1> SUFFICES ASSUME ConnectionsAssumption, IInv, [Next]_vars PROVE IInv'
  OBVIOUS
<1>0. \A c \in Conn : Good(conn[c])
  BY DEF IInv
<1>1. CASE AcceptFails
  BY <1>1 DEF AcceptFails, IInv, TypeOK, None
<1>2. ASSUME NEW c \in Conn, OnAccept(c) PROVE IInv'
  <2> DEFINE e == connectionId + 1
  <2>1. /\ conn[c] = Created /\ conn[e] = Unborn
        /\ c = connectionId /\ e \in Conn /\ c # e
        /\ connectionId' = e /\ accepting' = e
        /\ UNCHANGED <<requests, answering, asked>>
    BY <1>2, AcceptStep
  <2>2. PICK r : Step(Created, r) /\ conn' = [conn EXCEPT ![c] = r, ![e] = Created]
    BY <1>2, AcceptStep
  <2>3. /\ conn'[c] = r /\ conn'[e] = Created
        /\ \A d \in Conn \ {c, e} : conn'[d] = conn[d]
        /\ conn' \in [Conn -> Connection]
    BY <2>1, <2>2, CreatedGood DEF IInv, TypeOK, Step, Good, Base
  <2>4. \A d \in Conn : Good(conn'[d])
    BY <1>0, <2>2, <2>3, CreatedGood DEF Step
  <2>5. \A d \in Conn : d > e => conn'[d] = Unborn
    BY <2>1, <2>3 DEF IInv, TypeOK, Conn
  <2>6. ~conn[c].account /\ ~conn[e].account
    BY <2>1, CreatedGood DEF Good, Base
  <2>7. \A d \in Conn : conn[d].account => conn'[d].account
    BY <2>3, <2>6
  <2>8. TypeOK'
    BY <2>1, <2>3, <2>5 DEF IInv, TypeOK
  <2> QED BY <2>1, <2>3, <2>4, <2>7, <2>8 DEF IInv, TypeOK
<1>3. ASSUME NEW c \in Conn, Answer(c) PROVE IInv'
  <2>1. requests' \in [Conn -> Nat] /\ \A d \in Conn : requests'[d] > 0 => conn[d].account
    BY <1>3 DEF Answer, IInv, TypeOK
  <2>2. conn[c].account /\ answering' \in {None, c}
    BY <1>3 DEF Answer, IInv
  <2> QED BY <1>3, <2>1, <2>2 DEF Answer, IInv, TypeOK
<1>4. ASSUME NEW c \in Conn, Handler(c) PROVE IInv'
  <2>1. PICK r : Step(conn[c], r) /\ SetConn(c, r)
    BY <1>4, HandlerStep
  <2>2. requests' \in [Conn -> Nat] /\ \A d \in Conn : requests'[d] > 0 => conn[d].account
    BY <1>4, HandlerStep DEF IInv, TypeOK
  <2>3. Opened(conn[c])
    BY <1>4, HandlerStep
  <2> QED BY <1>4, <2>1, <2>2, <2>3, HandlerFrame, OneStep
<1>5. CASE UNCHANGED vars
  BY <1>5 DEF vars, IInv, TypeOK
<1> QED BY <1>1, <1>2, <1>3, <1>4, <1>5 DEF Next, Handler

-----------------------------------------------------------------------------
(* The theorems.                                                            *)

\* The invariant holds of every run.
THEOREM Invariance == SafeSpec => []IInv
<1>1. Init => IInv
  BY IInvInit, ConnectionsAssumption
<1>2. IInv /\ [Next]_vars => IInv'
  BY IInvNext, ConnectionsAssumption
<1> QED BY <1>1, <1>2, PTL DEF SafeSpec

\* Type correctness, for every number of connections.
THEOREM TypeCorrect == SafeSpec => []TypeOK
<1>1. IInv => TypeOK
  BY DEF IInv
<1> QED BY <1>1, Invariance, PTL

\* An open socket is always the manager's and never one that was closed.
THEOREM NoOrphans == SafeSpec => []NoOrphanSocket
<1>1. IInv => NoOrphanSocket
  BY DEF IInv, NoOrphanSocket, Good, Base
<1> QED BY <1>1, Invariance, PTL

\* Every open connection is being read, under a deadline.
THEOREM AlwaysGuarded == SafeSpec => []ReadGuarded
<1>1. IInv => ReadGuarded
  BY DEF IInv, ReadGuarded, Good, Guarded
<1> QED BY <1>1, Invariance, PTL

\* Every armed timer has an operation to watch.
THEOREM TimersAreOwned == SafeSpec => []TimersOwned
<1>1. IInv => TimersOwned
  BY DEF IInv, TimersOwned, Good, Base
<1> QED BY <1>1, Invariance, PTL

\* No request is ever outstanding for a client that has not logged in.
THEOREM LoginFirst == SafeSpec => []LoginPrecedesRequest
<1>1. IInv => LoginPrecedesRequest
  BY DEF IInv, LoginPrecedesRequest
<1> QED BY <1>1, Invariance, PTL

\* A closed connection never acts on its client's bytes again.
THEOREM ClosedStaysInert == SafeSpec => ClosedIsInert
<1> DEFINE Inert == \A c \in Conn :
                      conn[c].closed => /\ conn'[c].account = conn[c].account
                                        /\ conn'[c].first = conn[c].first
                                        /\ requests'[c] <= requests[c]
                                        /\ ~conn'[c].registered
<1>1. ASSUME IInv, IInv', [Next]_vars PROVE [Inert]_vars
  <2>0. /\ conn \in [Conn -> Connection] /\ requests \in [Conn -> Nat]
        /\ \A c \in Conn : Good(conn[c])
    BY <1>1 DEF IInv, TypeOK
  <2>1. \A c \in Conn : conn[c].closed => ~conn[c].registered
    BY <2>0 DEF Good, Base
  <2>2. CASE UNCHANGED <<conn, requests>>
    BY <2>0, <2>1, <2>2
  <2>3. ASSUME NEW c \in Conn, OnAccept(c) PROVE Inert
    <3> DEFINE e == connectionId + 1
    <3>1. /\ conn[c] = Created /\ conn[e] = Unborn /\ c \in Conn /\ e \in Conn
          /\ \A d \in Conn \ {c, e} : conn'[d] = conn[d]
          /\ UNCHANGED requests
      BY <1>1, <2>0, <2>3, AcceptStep, ConnectionsAssumption
    <3>2. ~conn[c].closed /\ ~conn[e].closed
      BY <3>1 DEF Created, Unborn
    <3> QED BY <2>0, <2>1, <3>1, <3>2
  <2>4. ASSUME NEW c \in Conn, Answer(c) PROVE Inert
    BY <2>0, <2>1, <2>4 DEF Answer
  <2>5. ASSUME NEW c \in Conn, Handler(c) PROVE Inert
    <3>1. PICK r : Step(conn[c], r) /\ SetConn(c, r)
      BY <1>1, <2>5, HandlerStep
    <3>2. conn'[c] = r /\ \A d \in Conn \ {c} : conn'[d] = conn[d]
      BY <2>0, <3>1 DEF SetConn
    <3>3. conn[c].closed => /\ r.account = conn[c].account /\ r.first = conn[c].first
                            /\ ~r.registered
      BY <3>1 DEF Step, Good, Base
    <3>4. \A d \in Conn : conn[d].closed => requests'[d] <= requests[d]
      BY <1>1, <2>0, <2>5, HandlerStep
    <3> QED BY <2>1, <3>2, <3>3, <3>4
  <2>6. CASE AcceptFails \/ UNCHANGED vars
    <3>1. UNCHANGED <<conn, requests>>
      BY <2>6 DEF AcceptFails, vars
    <3> QED BY <2>2, <3>1
  <2>7. CASE Next
    BY <2>3, <2>4, <2>5, <2>6, <2>7 DEF Next, Handler
  <2> QED BY <1>1, <2>6, <2>7
<1>2. IInv /\ IInv' /\ [Next]_vars => [Inert]_vars
  BY <1>1
<1> QED BY <1>2, Invariance, PTL DEF SafeSpec, ClosedIsInert
-----------------------------------------------------------------------------
(* The refinement of Sessions.                                              *)

\* The phase of an opened connection only moves forward.
LEMMA PhaseStep ==
  ASSUME NEW r, Good(r), NEW s, Step(r, s)
  PROVE  /\ Opened(r) =>
              /\ Phase(r) = "anonymous" =>
                   Phase(s) \in {"anonymous", "authenticated", "ended"}
              /\ Phase(r) = "authenticated" => Phase(s) \in {"authenticated", "ended"}
              /\ Phase(r) = "ended" => Phase(s) = "ended"
              /\ Phase(r) \in {"anonymous", "authenticated", "ended"}
         /\ Opened(r) /\ ~r.closed /\ r.account => Phase(r) = "authenticated"
BY DEF Good, Base, Step, Opened, Phase

\* What a Session is before a client connects.
LEMMA PhaseCreated ==
  /\ Phase(Unborn) = "idle" /\ Phase(Created) = "idle"
  /\ \A s : Step(Created, s) /\ ~s.account => Phase(s) \in {"anonymous", "ended"}
BY DEF Unborn, Created, Phase, Step, Good, Base, Opened

\* The connections implement Sessions: their first state is a first state of
\* the sessions and every step is a step of one session or of none.
THEOREM Refinement == SafeSpec => ImplementsSessions
<1> DEFINE ph == [c \in Conn |-> Phase(conn[c])]
<1>1. Init => S!Init
  <2> SUFFICES ASSUME Init PROVE S!Init
    OBVIOUS
  <2>1. \A c \in Conn : Phase(conn[c]) = "idle"
    BY PhaseCreated DEF Init
  <2> QED BY <2>1 DEF S!Init, Init
<1>2. ASSUME IInv, IInv', [Next]_vars PROVE [S!Next]_(S!vars)
  <2>0. /\ conn \in [Conn -> Connection] /\ conn' \in [Conn -> Connection]
        /\ requests \in [Conn -> Nat] /\ \A c \in Conn : Good(conn[c])
    BY <1>2 DEF IInv, TypeOK
  <2>1. CASE UNCHANGED <<conn, requests>>
    BY <2>1 DEF S!vars
  <2>2. CASE AcceptFails \/ UNCHANGED vars
    BY <2>1, <2>2 DEF AcceptFails, vars
  <2>3. ASSUME NEW c \in Conn, OnAccept(c) PROVE S!Next
    <3> DEFINE e == connectionId + 1
    <3>1. /\ conn[c] = Created /\ conn[e] = Unborn /\ e \in Conn /\ c # e
          /\ UNCHANGED requests
      BY <1>2, <2>3, AcceptStep, ConnectionsAssumption
    <3>2. PICK r : /\ Step(Created, r) /\ ~r.account
                   /\ conn' = [conn EXCEPT ![c] = r, ![e] = Created]
      BY <1>2, <2>3, AcceptStep, ConnectionsAssumption
    <3>3. /\ ph[c] = "idle" /\ Phase(r) \in {"anonymous", "ended"}
          /\ Phase(conn[e]) = Phase(Created)
      BY <3>1, <3>2, PhaseCreated
    <3>4. ph' = [ph EXCEPT ![c] = Phase(r)]
      <4>1. \A d \in Conn : Phase(conn'[d]) = IF d = c THEN Phase(r) ELSE Phase(conn[d])
        BY <2>0, <3>1, <3>2, <3>3
      <4> QED BY <4>1
    <3>5. S!Open(c) \/ S!Refuse(c)
      BY <3>1, <3>3, <3>4 DEF S!Open, S!Refuse
    <3> QED BY <3>5 DEF S!Next
  <2>4. ASSUME NEW c \in Conn, Answer(c) PROVE S!Next
    <3>1. S!Answer(c)
      BY <2>4 DEF Answer, S!Answer
    <3> QED BY <3>1 DEF S!Next
  <2>5. ASSUME NEW c \in Conn, Handler(c) PROVE [S!Next]_(S!vars)
    <3>1. PICK r : Step(conn[c], r) /\ SetConn(c, r)
      BY <1>2, <2>5, HandlerStep
    <3>2. ph' = [ph EXCEPT ![c] = Phase(r)]
      <4>1. \A d \in Conn : Phase(conn'[d]) = IF d = c THEN Phase(r) ELSE Phase(conn[d])
        BY <2>0, <3>1 DEF SetConn
      <4> QED BY <4>1
    <3>3. /\ Opened(conn[c])
          /\ \/ UNCHANGED requests
             \/ /\ ~conn[c].closed /\ conn[c].account
                /\ \E n \in {0, 1} : requests' = [requests EXCEPT ![c] = @ + n]
      BY <1>2, <2>5, HandlerStep
    <3>4. /\ ph[c] = "anonymous" => Phase(r) \in {"anonymous", "authenticated", "ended"}
          /\ ph[c] = "authenticated" => Phase(r) \in {"authenticated", "ended"}
          /\ ph[c] = "ended" => Phase(r) = "ended"
          /\ ph[c] \in {"anonymous", "authenticated", "ended"}
          /\ ~conn[c].closed /\ conn[c].account => ph[c] = "authenticated"
      BY <2>0, <3>1, <3>3, PhaseStep
    <3>5. CASE UNCHANGED requests
      <4>1. CASE Phase(r) = ph[c]
        <5>1. ph' = ph
          BY <3>2, <4>1
        <5> QED BY <3>5, <5>1 DEF S!vars
      <4>2. CASE Phase(r) # ph[c]
        <5>1. S!Authenticate(c) \/ S!End(c)
          BY <3>2, <3>4, <3>5, <4>2 DEF S!Authenticate, S!End
        <5> QED BY <5>1 DEF S!Next
      <4> QED BY <4>1, <4>2
    <3>6. CASE requests' = [requests EXCEPT ![c] = @ + 0]
      BY <2>0, <3>5, <3>6
    <3>7. CASE /\ ~conn[c].closed /\ conn[c].account
               /\ requests' = [requests EXCEPT ![c] = @ + 1]
      <4>1. S!Request(c)
        BY <3>2, <3>4, <3>7 DEF S!Request
      <4> QED BY <4>1 DEF S!Next
    <3> QED BY <3>3, <3>5, <3>6, <3>7
  <2>6. CASE Next
    BY <2>2, <2>3, <2>4, <2>5, <2>6 DEF Next, Handler
  <2> QED BY <1>2, <2>2, <2>6
<1>3. IInv /\ IInv' /\ [Next]_vars => [S!Next]_(S!vars)
  BY <1>2
<1> QED BY <1>1, <1>3, Invariance, PTL DEF SafeSpec, ImplementsSessions, S!Spec

-----------------------------------------------------------------------------
(* The message of a connection.  The cursor stays where it should, for every *)
(* size of buffer, of packet and of what is read.                           *)

\* What each stage knows of the message: until XTEA has deciphered a body the
\* length counts everything received, from then on it leaves out the headers.
StageInv ==
  /\ stage = "checksum" => position = 2
  /\ stage = "packet" => position \in {2, 6}
  /\ stage \in {"checksum", "packet"} =>
        length = received /\ 3 <= length /\ length <= MaxSize - 15
  /\ stage = "body" => length + 8 <= received

MessageInv == MessageTypeOK /\ StageInv /\ DecipheredWasReceived /\ BodyWasReceived

\* A read moves the cursor forward or not at all, inside the buffer and not
\* beyond what canRead allows (NetworkMessage::get).
LEMMA AfterMoves ==
  ASSUME NEW p \in 0 .. MaxSize, NEW size \in Nat, length \in Nat
  PROVE  /\ After(p, size) \in 0 .. MaxSize
         /\ After(p, size) \in p .. (p + size)
         /\ After(p, size) = p \/ After(p, size) <= length + 8
BY IncomingMessageAssumption DEF After, CanReadAt, IncomingMessageAssumption

\* The same of reading a string (NetworkMessage::getString).
LEMMA AfterStringMoves ==
  ASSUME NEW p \in 0 .. MaxSize, NEW q \in AfterString(p), length \in Nat
  PROVE  /\ q \in 0 .. MaxSize
         /\ q = p \/ q <= length + 8
<1> DEFINE two == After(p, 2)
<1>1. two \in 0 .. MaxSize /\ (two = p \/ two <= length + 8)
  BY AfterMoves
<1>2. CASE two = p
  BY <1>1, <1>2 DEF AfterString
<1>3. CASE two # p
  <2>1. PICK n \in Lengths : q = After(two, n)
    BY <1>3 DEF AfterString
  <2>2. n \in Nat
    BY IncomingMessageAssumption DEF IncomingMessageAssumption
  <2> HIDE DEF two
  <2>3. q \in 0 .. MaxSize /\ (q = two \/ q <= length + 8)
    BY <1>1, <2>1, <2>2, AfterMoves
  <2> QED BY <1>1, <1>3, <2>3
<1> QED BY <1>2, <1>3

\* The initial message satisfies the invariant.
LEMMA MessageInvInit == MessageInit => MessageInv
<1> SUFFICES ASSUME MessageInit PROVE MessageInv
  OBVIOUS
<1> USE IncomingMessageAssumption DEF MessageInit, IncomingMessageAssumption
<1>1. MessageTypeOK
  <2>1. stage \in Stage /\ expects \in {"login", "request"}
    BY DEF Stage
  <2>2. 0 \in 0 .. MaxSize /\ 8 \in 0 .. MaxSize
    OBVIOUS
  <2> QED BY <2>1, <2>2 DEF MessageTypeOK
<1>2. StageInv /\ BodyWasReceived
  BY DEF StageInv, BodyWasReceived
<1>3. DecipheredWasReceived
  BY DEF DecipheredWasReceived
<1> QED BY <1>1, <1>2, <1>3 DEF MessageInv

\* Every step preserves it.
LEMMA MessageInvNext == MessageInv /\ [MessageNext]_messageVars => MessageInv'
<1> SUFFICES ASSUME MessageInv, [MessageNext]_messageVars PROVE MessageInv'
  OBVIOUS
<1> USE IncomingMessageAssumption
<1> USE DEF IncomingMessageAssumption, MessageInv, MessageTypeOK, StageInv,
            DecipheredWasReceived, BodyWasReceived
<1>1. ASSUME NEW size \in Sizes, ParseMessageHeader(size) PROVE MessageInv'
  BY <1>1 DEF ParseMessageHeader, AcceptsSize, CloseReading, Stage
<1>2. CASE ParseChecksum
  <2>1. After(position, 4) = 6
    BY <1>2 DEF ParseChecksum, After, CanReadAt
  <2> QED BY <1>2, <2>1 DEF ParseChecksum, Stage
<1>3. CASE AuthenticateMessage
  <2> DEFINE p == After(position + 1 + 2, 2) + 17
             q == After(p, 1)
             r == After(After(After(After(q, 4), 4), 4), 4)
  <2>1. position + 1 + 2 \in 0 .. MaxSize /\ position + 1 + 2 <= 9
    BY <1>3 DEF AuthenticateMessage
  <2>2. After(position + 1 + 2, 2) \in 0 .. 11
    <3>1. After(position + 1 + 2, 2) \in (position + 1 + 2) .. (position + 1 + 2 + 2)
      BY <2>1, AfterMoves
    <3> QED BY <2>1, <3>1
  <2>3. p \in 0 .. MaxSize
    BY <2>2
  <2> HIDE DEF p
  <2>4. q \in 0 .. MaxSize
    BY <2>3, AfterMoves
  <2> HIDE DEF q
  <2>5. r \in 0 .. MaxSize
    <3>1. After(q, 4) \in 0 .. MaxSize
      BY <2>4, AfterMoves
    <3>2. After(After(q, 4), 4) \in 0 .. MaxSize
      BY <3>1, AfterMoves
    <3>3. After(After(After(q, 4), 4), 4) \in 0 .. MaxSize
      BY <3>2, AfterMoves
    <3> QED BY <3>3, AfterMoves
  <2> HIDE DEF r
  <2>6. /\ stage = "packet"
        /\ expects' = "request"
        /\ \/ stage' = "closed" /\ position' = p /\ deciphered' = deciphered
           \/ /\ length - p >= 128
              /\ deciphered' = p + 128
              /\ stage' \in {"email", "closed"}
              /\ position' \in {q, r}
        /\ length' = length /\ received' = received
    BY <1>3 DEF AuthenticateMessage, HoldsBlock, p, q, r
  <2> QED BY <2>3, <2>4, <2>5, <2>6 DEF Stage
<1>4. ASSUME NEW now \in {"email", "password"}, NEW nexts \in SUBSET {"password", "account"},
             ReadCredential(now, nexts)
      PROVE  MessageInv'
  <2>1. position' \in 0 .. MaxSize
    BY <1>4, AfterStringMoves DEF ReadCredential
  <2> QED BY <1>4, <2>1 DEF ReadCredential, Stage
<1>5. CASE Decrypt
  <2>1. /\ After(position, 2) \in 0 .. MaxSize
        /\ After(position, 2) <= 8
        /\ stage = "packet"
    <3>1. stage = "packet"
      BY <1>5 DEF Decrypt
    <3> QED BY <3>1, AfterMoves
  <2>2. CASE stage' = "header" /\ UNCHANGED <<expects, received, length, position, deciphered>>
    BY <2>2 DEF Stage
  <2>3. CASE /\ (length - 6) % 8 = 0
             /\ deciphered' = position + length - 6
             /\ position' = After(position, 2)
             /\ \E inner \in Lengths :
                   \/ stage' = "header" /\ UNCHANGED <<expects, received, length>>
                   \/ /\ inner <= length - 8
                      /\ length' = inner
                      /\ stage' = "body"
                      /\ UNCHANGED <<expects, received>>
    <3>1. length \in Int /\ 3 <= length /\ (length - 6) % 8 = 0
      BY <2>1, <2>3
    <3>2. length >= 6
      BY <3>1
    <3>3. position + length - 6 \in 0 .. received
      BY <2>1, <3>2
    <3> QED BY <2>1, <2>3, <3>3 DEF Stage
  <2>4. CASE (length - 6) % 8 # 0
    <3>1. stage' = "header" /\ UNCHANGED <<expects, received, length, position, deciphered>>
      BY <1>5, <2>4 DEF Decrypt, Drop
    <3> QED BY <2>2, <3>1
  <2>5. CASE (length - 6) % 8 = 0
    <3>1. /\ deciphered' = position + length - 6
          /\ position' = After(position, 2)
      BY <1>5, <2>5 DEF Decrypt
    <3>2. \E inner \in Lengths :
             \/ stage' = "header" /\ UNCHANGED <<expects, received, length>>
             \/ /\ inner <= length - 8
                /\ length' = inner
                /\ stage' = "body"
                /\ UNCHANGED <<expects, received>>
      BY <1>5, <2>5 DEF Decrypt, Drop, InnerFits
    <3> QED BY <2>3, <2>5, <3>1, <3>2
  <2> QED BY <2>4, <2>5
<1>6. CASE ReadBody
  <2>1. position' \in 0 .. MaxSize /\ (position' = position \/ position' <= length + 8)
    <3>1. CASE position' \in AfterString(position)
      BY <3>1, AfterStringMoves
    <3>2. CASE \E size \in Scalars : position' = After(position, size)
      <4>1. PICK size \in Scalars : position' = After(position, size)
        BY <3>2
      <4>2. size \in Nat
        OBVIOUS
      <4> QED BY <4>1, <4>2, AfterMoves
    <3> QED BY <1>6, <3>1, <3>2 DEF ReadBody
  <2> QED BY <1>6, <2>1 DEF ReadBody, Stage
<1>7. CASE BodyDone
  BY <1>7 DEF BodyDone, Drop, Stage
<1>8. CASE NextConnection
  BY <1>8 DEF NextConnection, Stage
<1>9. CASE ReadFails
  BY <1>9 DEF ReadFails, CloseReading, Stage
<1>10. CASE UNCHANGED messageVars
  BY <1>10 DEF messageVars
<1>11. ASSUME NEW next \in {"header", "closed"}, EndLogin(next) PROVE MessageInv'
  BY <1>11 DEF EndLogin, Stage
<1>12. CASE ReadMessage
  BY <1>1, <1>2, <1>3, <1>4, <1>5, <1>6, <1>7, <1>8, <1>9, <1>12 DEF ReadMessage
<1>13. CASE ReadPassword
  BY <1>4, <1>13 DEF ReadPassword
<1> QED BY <1>10, <1>11, <1>12, <1>13 DEF MessageNext

\* The invariant holds in every reachable state.
THEOREM MessageInvariance == MessageSpec => []MessageInv
<1> QED BY MessageInvInit, MessageInvNext, PTL DEF MessageSpec

\* Type correctness: no sequence of skips, steps back and reads moves the
\* cursor out of the buffer (NetworkMessage's read functions).
THEOREM MessageTypeCorrect == MessageSpec => []MessageTypeOK
BY MessageInvariance, PTL DEF MessageInv

\* RSA::decrypt and XTEA::decrypt change bytes of the current packet only.
THEOREM DeciphersReceived == MessageSpec => []DecipheredWasReceived
BY MessageInvariance, PTL DEF MessageInv

\* A deciphered body yields bytes of the current packet only, whatever is read.
THEOREM BodyIsReceived == MessageSpec => []BodyWasReceived
BY MessageInvariance, PTL DEF MessageInv
=============================================================================
