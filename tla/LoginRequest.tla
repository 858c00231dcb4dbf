---------------------------- MODULE LoginRequest ----------------------------
(***************************************************************************)
(* A client asks for the host of a game server.  The io thread runs          *)
(* login_main.lua, which keeps a callback under a new answer id, publishes   *)
(* the question through Redis; the central server answers through Redis, in  *)
(* its own order and time; the subscriber hands the answer to the            *)
(* dispatcher's thread, which runs request.lua: it finds the callback by  *)
(* the answer's id, calls it and forgets it.  Both threads use the one Lua   *)
(* state with no lock, so they are interleaved statement by statement.  The  *)
(* process may be restarted; the ids then start again from the beginning,    *)
(* and what is on its way through Redis stays there.                         *)
(***************************************************************************)
EXTENDS Integers, Sequences, FiniteSets

(* A definition whose comment begins with "Mutant" is not part of the model:  *)
(* it is the definition after it with a slip that is easy to make in the     *)
(* code, and is there to see a property fail.                                 *)

CONSTANTS MaxClients,   \* bound: connections of one life of the process
          MaxRequests,  \* bound: requests of one life
          MaxLives,     \* bound: starts of the process
          MaxSent       \* bound: hosts that are sent

ASSUME LoginRequestAssumption ==
  MaxClients \in Nat /\ MaxRequests \in Nat /\ MaxLives \in Nat \ {0} /\ MaxSent \in Nat

VARIABLES
  life,       \* which start of the process this is
  lastClient, \* CONNECTION_ID_GENERATOR
  clients,    \* ids of the clients that are connected
  generator,  \* g_login.answerIdGenerator
  callbacks,  \* g_login.answerCallbacks: the client a callback keeps, by answer id
  asking,     \* what the io thread does of requestCentralAnswer next
  asker,      \* the client whose packet it handles
  handling,   \* the answer the dispatcher's thread handles, or NoRequest
  callback,   \* the client kept by the callback that it has yet to call, or None
  central,    \* requests the central server has received
  answers,    \* answers on their way through Redis
  sent,       \* hosts that have been sent, in order
  done        \* ids of this life's requests that need no callback any more

vars == <<life, lastClient, clients, generator, callbacks, asking, asker,
          handling, callback, central, answers, sent, done>>

None == 0    \* nil, and no client's id
Client == 1 .. MaxClients
Id     == 1 .. MaxRequests
Life   == 1 .. MaxLives

\* A question and its answer carry the id; the life and the client that asked
\* are known to the reader of this specification only.
Request   == [life : Life, id : Id, client : Client]
NoRequest == [life |-> 0, id |-> 0, client |-> 0]

\* A host that was sent: to whom, when, from which callback and for which answer.
Sent == [life : Life, id : Id, to : Client, answer : Request]

NoCallbacks == [i \in Id |-> None]

Init == /\ life = 1
        /\ lastClient = 0 /\ clients = {}
        /\ generator = 0 /\ callbacks = NoCallbacks
        /\ asking = "idle" /\ asker = None
        /\ handling = NoRequest /\ callback = None
        /\ central = {} /\ answers = {} /\ sent = <<>> /\ done = {}

-----------------------------------------------------------------------------
(* Clients; their ids are those of their connections *)

NewClientId == lastClient + 1

ClientConnects ==
  /\ lastClient < MaxClients
  /\ lastClient' = lastClient + 1
  /\ clients' = clients \cup {NewClientId}
  /\ UNCHANGED <<life, generator, callbacks, asking, asker, handling, callback,
                 central, answers, sent, done>>

ClientLeaves ==
  /\ \E c \in clients : clients' = clients \ {c}
  /\ UNCHANGED <<life, lastClient, generator, callbacks, asking, asker, handling,
                 callback, central, answers, sent, done>>

-----------------------------------------------------------------------------
(* The io thread: g_login.requestCentralAnswer *)

\* Mutant: the next id is the number of callbacks and one.
NextAnswerIdByLength == Cardinality({i \in Id : callbacks[i] # None}) + 1

NextAnswerId == generator + 1

\* The callback is kept before the question is asked.
Register(c) ==
  /\ asking = "idle"
  /\ NextAnswerId \in Id
  /\ generator' = NextAnswerId
  /\ callbacks' = [callbacks EXCEPT ![NextAnswerId] = c]
  /\ asking' = "publish"
  /\ asker' = c
  /\ UNCHANGED <<life, lastClient, clients, handling, callback, central, answers, sent, done>>

\* Mutant: the callback of a question that was published is forgotten.
WithdrawsPublished(ok) == ok

Withdraws(ok) == ~ok

\* RedisPublisher::publish knows whether Redis replied, which does not say
\* whether the question was delivered.
Publish(ok) ==
  /\ asking = "publish"
  /\ central' \in {central, central \cup {[life |-> life, id |-> generator, client |-> asker]}}
  /\ asking' = IF Withdraws(ok) THEN "withdraw" ELSE "idle"
  /\ asker' = None
  /\ done' = IF ok THEN done ELSE done \cup {generator}
  /\ UNCHANGED <<life, lastClient, clients, generator, callbacks, handling,
                 callback, answers, sent>>

Withdraw ==
  /\ asking = "withdraw"
  /\ callbacks' = [callbacks EXCEPT ![generator] = None]
  /\ asking' = "idle"
  /\ UNCHANGED <<life, lastClient, clients, generator, asker, handling, callback,
                 central, answers, sent, done>>

-----------------------------------------------------------------------------
(* The central server and Redis *)

\* The central server may answer late, out of order, more than once or never.
CentralAnswers ==
  /\ \E r \in central : answers' = answers \cup {r}
  /\ UNCHANGED <<life, lastClient, clients, generator, callbacks, asking, asker,
                 handling, callback, central, sent, done>>

\* Nobody subscribes, or the message cannot be decoded.
AnswerLost ==
  /\ \E r \in answers : answers' = answers \ {r}
  /\ UNCHANGED <<life, lastClient, clients, generator, callbacks, asking, asker,
                 handling, callback, central, sent, done>>

-----------------------------------------------------------------------------
(* The dispatcher's thread: _onRedisMessage of request.lua *)

\* An answer whose callback is not there is dropped.
OnRedisMessage ==
  /\ handling = NoRequest
  /\ \E r \in answers :
        /\ answers' = answers \ {r}
        /\ callback' = callbacks[r.id]
        /\ handling' = IF callbacks[r.id] = None THEN NoRequest ELSE r
  /\ UNCHANGED <<life, lastClient, clients, generator, callbacks, asking, asker,
                 central, sent, done>>

\* The callback of login_main.lua: the client may be gone, the answer may say no.
CallBack ==
  /\ callback # None
  /\ callback' = None
  /\ \/ UNCHANGED sent
     \/ /\ callback \in clients
        /\ Len(sent) < MaxSent
        /\ sent' = Append(sent, [life |-> life, id |-> handling.id,
                                 to |-> callback, answer |-> handling])
  /\ UNCHANGED <<life, lastClient, clients, generator, callbacks, asking, asker,
                 handling, central, answers, done>>

\* Mutant: a callback that was called stays.
CalledKept == callbacks

Called == [callbacks EXCEPT ![handling.id] = None]

Forget ==
  /\ handling # NoRequest /\ callback = None
  /\ callbacks' = Called
  /\ handling' = NoRequest
  /\ done' = done \cup {handling.id}
  /\ UNCHANGED <<life, lastClient, clients, generator, asking, asker, callback,
                 central, answers, sent>>

-----------------------------------------------------------------------------
Restart == /\ life < MaxLives
           /\ life' = life + 1
           /\ lastClient' = 0 /\ clients' = {}
           /\ generator' = 0 /\ callbacks' = NoCallbacks
           /\ asking' = "idle" /\ asker' = None
           /\ handling' = NoRequest /\ callback' = None /\ done' = {}
           /\ UNCHANGED <<central, answers, sent>>

Next == \/ ClientConnects
        \/ ClientLeaves
        \/ \E c \in clients : Register(c)
        \/ \E ok \in BOOLEAN : Publish(ok)
        \/ Withdraw
        \/ CentralAnswers
        \/ AnswerLost
        \/ OnRedisMessage
        \/ CallBack
        \/ Forget
        \/ Restart

Spec == Init /\ [][Next]_vars

-----------------------------------------------------------------------------
(* Properties *)

TypeOK == /\ life \in Life
          /\ lastClient \in 0 .. MaxClients
          /\ clients \subseteq 1 .. lastClient
          /\ generator \in 0 .. MaxRequests
          /\ callbacks \in [Id -> 0 .. lastClient]
          /\ asking \in {"idle", "publish", "withdraw"}
          /\ asker \in 0 .. lastClient
          /\ handling \in Request \cup {NoRequest}
          /\ callback \in 0 .. lastClient
          /\ central \subseteq Request /\ answers \subseteq Request
          /\ sent \in Seq(Sent)
          /\ done \subseteq Id

\* A host goes to the client that asked for it, however late and in whatever
\* order the answers come, unless the process that asked is not the one that
\* is answered: after a restart the same ids are other requests and clients.
AnswerReachesAsker ==
  \A n \in 1 .. Len(sent) :
     sent[n].answer.life = sent[n].life => sent[n].to = sent[n].answer.client

\* A request is answered to its client once, however many answers arrive.
AnsweredOnce ==
  \A m, n \in 1 .. Len(sent) :
     sent[m].life = sent[n].life /\ sent[m].id = sent[n].id => m = n

\* An answer cannot be faster than its callback: as soon as a question of this
\* life may be answered its callback is there, until it has been called or
\* publish has reported a failure.
AnswerFindsCallback ==
  \A r \in central \cup answers :
     r.life = life => callbacks[r.id] = r.client \/ r.id \in done

\* A request is open while its callback is in answerCallbacks, unless that is
\* about to be forgotten.
Open(i) == IF handling.id = i THEN None ELSE callbacks[i]

Nothing == [to |-> None, answer |-> NoRequest]

R == INSTANCE Requests
       WITH given <- 1 .. generator,
            asker <- [i \in Id |-> Open(i)],
            taken <- IF callback = None THEN Nothing ELSE [to |-> callback, answer |-> handling]

\* The two Lua files, run by two threads, implement Requests: numbers are new,
\* a request is closed by one answer or withdrawn, and an answer that has found
\* its callback is told to the client that asked, or to nobody, once.
ImplementsRequests == R!Spec
=============================================================================
