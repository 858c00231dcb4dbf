------------------------------ MODULE Startup ------------------------------
(***************************************************************************)
(* From main() to the first handled message.  mainLoader connects to Redis  *)
(* and starts the subscriber's thread and the dispatcher; then the login     *)
(* module's init subscribes to its channel, which talks on the connection   *)
(* the subscriber's thread reads from: select and redisBufferRead in one    *)
(* thread, redisCommand, which reads until a reply is there, in the other.  *)
(* The dispatcher is the abstract one of TaskQueue.                         *)
(*                                                                          *)
(* Calls into hiredis that touch its reader do not overlap, and a read       *)
(* returns whole replies.  When main() returns the process is over.         *)
(***************************************************************************)
EXTENDS Naturals, Sequences, FiniteSets, Functions

(* A definition whose comment begins with "Mutant" is not part of the model:  *)
(* it is the definition after it with a slip that is easy to make in the     *)
(* code, and is there to see a property fail.                                 *)

CONSTANTS MaxMessages,  \* bound: messages published to the channel
          Blank         \* those without a text, which make no task

ASSUME StartupAssumption == MaxMessages \in Nat /\ Blank \subseteq 1 .. MaxMessages

Message   == 1 .. MaxMessages   \* in the order in which they are published
Confirmed == 0                  \* Redis' reply to SUBSCRIBE
Farewell  == MaxMessages + 1    \* shutdown(), which nothing calls

VARIABLES
  main,       \* the stage of mainLoader, subscribe() or main() that comes next
  subscriber, \* where RedisSubscriber::threadMain is
  up,         \* the subscriber's connection is up
  requested,  \* SUBSCRIBE was sent
  subscribed, \* Redis has confirmed it
  socket,     \* replies received and not read
  held,       \* held[t]: what thread t has read and not yet fed to the reader
  reader,     \* replies fed to m_context's reader
  answer,     \* the reply subscribe() took, or None
  published,  \* how many messages were published
  delivered,  \* those Redis sent to this server
  ignored,    \* those the thread dropped for want of a text
  online,     \* those published while the server served
  connected,  \* the login module's callback is connected
  fate, pending, worker   \* TaskQueue

queueVars == <<fate, pending, worker>>
redisVars == <<up, subscribed, published, delivered, online>>
wire      == <<socket, held, reader>>
vars == <<main, subscriber, requested, answer, ignored, connected, redisVars, wire, queueVars>>

Q == INSTANCE TaskQueue WITH Task <- Message

None == MaxMessages + 2

Ended  == {"exited", "aborted"}
Thread == {"io", "subscriber"}

Init == /\ main = "key" /\ subscriber = "unstarted"
        /\ up = TRUE /\ requested = FALSE /\ subscribed = FALSE
        /\ socket = <<>> /\ held = [t \in Thread |-> <<>>] /\ reader = <<>>
        /\ answer = None
        /\ published = 0 /\ delivered = {} /\ ignored = {} /\ online = {}
        /\ connected = FALSE
        /\ Q!Init

-----------------------------------------------------------------------------
(* mainLoader and main(): stage by stage, from "key" to "serving"; "subscribe" *)
(* to "take" are the steps of subscribe(), if the login module is loaded.       *)

Running == main \notin Ended

GoOn(from, to) == main = from /\ main' = to

\* The stage after each one that does no more than succeed.
NextStage == [key |-> "lua", lua |-> "database", database |-> "subscriber",
              subscriber |-> "publisher", publisher |-> "startSubscriber"]

\* The key, Lua, the database and the two connections to Redis.
Succeed == /\ main \in DOMAIN NextStage
           /\ main' = NextStage[main]
           /\ UNCHANGED <<subscriber, requested, answer, ignored, connected, redisVars, wire, queueVars>>

\* main() returns: when a stage fails, when the list of modules cannot be read,
\* or when the port cannot be bound.  A thread that was started and not joined
\* makes its std::thread's destructor abort the process.
Return == /\ main \in DOMAIN NextStage \cup {"modules", "open"}
          /\ main' = IF subscriber = "unstarted" THEN "exited" ELSE "aborted"
          /\ UNCHANGED <<subscriber, requested, answer, ignored, connected, redisVars, wire, queueVars>>

StartSubscriber == /\ GoOn("startSubscriber", "startDispatcher")
                   /\ subscriber' = "select"
                   /\ UNCHANGED <<requested, answer, ignored, connected, redisVars, wire, queueVars>>

\* Mutant: the dispatcher is not started with the subscriber (but by somebody
\* later on).
StartDispatcherLate == /\ GoOn("startDispatcher", "modules")
                       /\ UNCHANGED <<subscriber, requested, answer, ignored, connected, redisVars, wire, queueVars>>

StartDispatcher == /\ GoOn("startDispatcher", "modules")
                   /\ Q!Arrive
                   /\ UNCHANGED <<subscriber, requested, answer, ignored, connected, redisVars, wire>>

\* loadModules: the login module loads, and its init subscribes; or it does not.
LoadModules == /\ GoOn("modules", "subscribe") \/ GoOn("modules", "open")
               /\ UNCHANGED <<subscriber, requested, answer, ignored, connected, redisVars, wire, queueVars>>

\* module:connect, after subscribe() whatever it returned.
ConnectCallback == /\ GoOn("connect", "open")
                   /\ connected' = TRUE
                   /\ UNCHANGED <<subscriber, requested, answer, ignored, redisVars, wire, queueVars>>

Serve == /\ GoOn("open", "serving")
         /\ UNCHANGED <<subscriber, requested, answer, ignored, connected, redisVars, wire, queueVars>>

-----------------------------------------------------------------------------
(* Redis *)

Confirm == /\ Running /\ up /\ requested /\ ~subscribed
           /\ subscribed' = TRUE
           /\ socket' = Append(socket, Confirmed)
           /\ UNCHANGED <<main, subscriber, requested, answer, ignored, connected, up, published,
                          delivered, online, held, reader, queueVars>>

Publish == /\ Running /\ published < MaxMessages
           /\ published' = published + 1
           /\ IF subscribed /\ up
              THEN /\ socket' = Append(socket, published')
                   /\ delivered' = delivered \cup {published'}
                   /\ online' = IF main = "serving" THEN online \cup {published'} ELSE online
              ELSE UNCHANGED <<socket, delivered, online>>
           /\ UNCHANGED <<main, subscriber, requested, answer, ignored, connected, up, subscribed,
                          held, reader, queueVars>>

\* The connection breaks; what was received can still be read.
Break == /\ Running /\ up /\ subscriber # "unstarted"
         /\ up' = FALSE
         /\ UNCHANGED <<main, subscriber, requested, answer, ignored, connected, subscribed,
                        published, delivered, online, wire, queueVars>>

-----------------------------------------------------------------------------
(* Reading, in either thread *)

\* redisBufferRead: recv waits until there is something, and takes it all.
Recv(t) == /\ socket # <<>>
           /\ held' = [held EXCEPT ![t] = socket]
           /\ socket' = <<>>
           /\ UNCHANGED reader

Feed(t) == /\ reader' = reader \o held[t]
           /\ held' = [held EXCEPT ![t] = <<>>]
           /\ UNCHANGED socket

BreakSeen == ~up /\ socket = <<>>

-----------------------------------------------------------------------------
(* RedisSubscriber::subscribe, on the io thread *)

\* Mutant: the command is appended to the output and not written.
AppendSubscribe == /\ GoOn("subscribe", "recv")
                   /\ UNCHANGED <<subscriber, requested, answer, ignored, connected, redisVars, wire, queueVars>>

SendSubscribe == /\ GoOn("subscribe", "recv")
                 /\ requested' = TRUE
                 /\ UNCHANGED <<subscriber, answer, ignored, connected, redisVars, wire, queueVars>>

\* redisCommand returns nullptr, and so subscribe() false.
SubscribeFails == /\ GoOn("recv", "connect")
                  /\ BreakSeen
                  /\ UNCHANGED <<subscriber, requested, answer, ignored, connected, redisVars, wire, queueVars>>

IoRecv == /\ GoOn("recv", "feed") /\ Recv("io")
          /\ UNCHANGED <<subscriber, requested, answer, ignored, connected, redisVars, queueVars>>

IoFeed == /\ GoOn("feed", "take") /\ Feed("io")
          /\ UNCHANGED <<subscriber, requested, answer, ignored, connected, redisVars, queueVars>>

\* Mutant: all the replies there are are freed.
IoTakeAll ==
  /\ main = "take"
  /\ IF reader = <<>> THEN main' = "recv" /\ UNCHANGED <<reader, answer>>
     ELSE main' = "connect" /\ answer' = Head(reader) /\ reader' = <<>>
  /\ UNCHANGED <<subscriber, requested, ignored, connected, redisVars, socket, held, queueVars>>

\* Mutant: a second reply is waited for, as if there were two channels.
IoTakeTwo ==
  /\ main = "take"
  /\ IF reader = <<>> THEN main' = "recv" /\ UNCHANGED <<reader, answer>>
     ELSE /\ main' = IF Head(reader) = Confirmed THEN "take" ELSE "connect"
          /\ answer' = Head(reader) /\ reader' = Tail(reader)
  /\ UNCHANGED <<subscriber, requested, ignored, connected, redisVars, socket, held, queueVars>>

\* The first reply there is, whatever it answers, is freed.
IoTake == /\ main = "take"
          /\ IF reader = <<>> THEN main' = "recv" /\ UNCHANGED <<reader, answer>>
             ELSE main' = "connect" /\ answer' = Head(reader) /\ reader' = Tail(reader)
          /\ UNCHANGED <<subscriber, requested, ignored, connected, redisVars, socket, held, queueVars>>

Io == SendSubscribe \/ SubscribeFails \/ IoRecv \/ IoFeed \/ IoTake

-----------------------------------------------------------------------------
(* RedisSubscriber::threadMain *)

Step(from, to) == Running /\ subscriber = from /\ subscriber' = to

\* select: readable, or at its end; a timeout changes nothing.
Select == /\ Step("select", "recv")
          /\ socket # <<>> \/ ~up
          /\ UNCHANGED <<main, requested, answer, ignored, connected, redisVars, wire, queueVars>>

SelectFails == /\ Step("select", "returned")
               /\ UNCHANGED <<main, requested, answer, ignored, connected, redisVars, wire, queueVars>>

ReadFails == /\ Step("recv", "returned")
             /\ BreakSeen
             /\ UNCHANGED <<main, requested, answer, ignored, connected, redisVars, wire, queueVars>>

\* The other thread may have read what select saw: then recv waits.
ThreadRecv == /\ Step("recv", "feed") /\ Recv("subscriber")
              /\ UNCHANGED <<main, requested, answer, ignored, connected, redisVars, queueVars>>

ThreadFeed == /\ Step("feed", "take") /\ Feed("subscriber")
              /\ UNCHANGED <<main, requested, answer, ignored, connected, redisVars, queueVars>>

NoMoreReplies == /\ Step("take", "select")
                 /\ reader = <<>>
                 /\ UNCHANGED <<main, requested, answer, ignored, connected, redisVars, wire, queueVars>>

\* Mutant: the task is put in front of the list.
AddTaskInFront(m) == /\ worker = "present"
                     /\ fate' = [fate EXCEPT ![m] = "pending"]
                     /\ pending' = <<m>> \o pending
                     /\ UNCHANGED worker

\* g_dispatcher.addTask, as TaskQueue promises it.
AddTask(m) == IF worker = "present" THEN Q!TakeOn(m) ELSE Q!Refuse(m)

\* Mutant: one reply is handled for each read.
HandleOneReply ==
  /\ Step("take", "select")
  /\ reader # <<>>
  /\ reader' = Tail(reader)
  /\ LET r == Head(reader)
     IN IF r \in Message \ Blank
        THEN AddTask(r) /\ UNCHANGED ignored
        ELSE ignored' = ignored \cup {r} /\ UNCHANGED queueVars
  /\ UNCHANGED <<main, requested, answer, connected, redisVars, socket, held>>

\* The next reply of the reader: a message becomes a task, a blank one and the
\* confirmation do not.
HandleReply ==
  /\ Step("take", "take")
  /\ reader # <<>>
  /\ reader' = Tail(reader)
  /\ LET r == Head(reader)
     IN IF r \in Message \ Blank
        THEN AddTask(r) /\ UNCHANGED ignored
        ELSE ignored' = ignored \cup {r} /\ UNCHANGED queueVars
  /\ UNCHANGED <<main, requested, answer, connected, redisVars, socket, held>>

ThreadMain == \/ Select \/ ReadFails \/ ThreadRecv \/ ThreadFeed
              \/ NoMoreReplies \/ HandleReply

-----------------------------------------------------------------------------
\* The dispatcher's thread runs the oldest task, which emits onRedisMessage: no
\* task of the subscriber expires.
Dispatch == /\ Running
            /\ Q!Finish
            /\ fate'[Head(pending)] = "run"
            /\ UNCHANGED <<main, subscriber, requested, answer, ignored, connected, redisVars, wire>>

Next == \/ Succeed \/ Return \/ StartSubscriber \/ StartDispatcher \/ LoadModules
        \/ ConnectCallback \/ Serve
        \/ Confirm \/ Publish \/ Break
        \/ Io
        \/ ThreadMain \/ SelectFails
        \/ Dispatch

\* Each thread goes on while it can, and Redis confirms while it is connected.
\* No stage has to fail, nor anybody to publish.
Fairness == /\ WF_vars(Succeed) /\ WF_vars(StartSubscriber) /\ WF_vars(StartDispatcher)
            /\ WF_vars(LoadModules) /\ WF_vars(ConnectCallback) /\ WF_vars(Serve)
            /\ WF_vars(Io) /\ WF_vars(Confirm) /\ WF_vars(ThreadMain) /\ WF_vars(Dispatch)

Spec == Init /\ [][Next]_vars /\ Fairness

-----------------------------------------------------------------------------
(* Properties *)

Reply == Message \cup {Confirmed}

\* The subscriber's thread runs before the dispatcher does (Redis::connect),
\* and addTask deletes what meets a thread that is not running; yet no message
\* meets it: there are none before a module subscribes.
NothingRefused == \A m \in Message : fate[m] # "refused"

Copies(s, r) == Cardinality({i \in DOMAIN s : s[i] = r})

\* Whoever reads what: a reply Redis sent is in one place, on its way, taken by
\* subscribe(), ignored by the thread, or a task.  None is lost between the two
\* readers, and none becomes a task and is taken besides.
InOnePlace ==
  \A r \in Reply :
    Copies(socket \o held["io"] \o held["subscriber"] \o reader, r)
      + (IF answer = r THEN 1 ELSE 0)
      + (IF r \in ignored THEN 1 ELSE 0)
      + (IF r \in Message /\ fate[r] # "new" THEN 1 ELSE 0)
    = (IF r \in delivered \/ (r = Confirmed /\ subscribed) THEN 1 ELSE 0)

\* The race for the confirmation: the subscriber's thread has read it from the
\* socket, or has taken it from the reader.
Raced == Confirmed \in ignored \cup Range(held["subscriber"])

\* subscribe() takes a message for its confirmation only when the thread has
\* taken, or is about to feed or take, the confirmation: without that race no
\* message is lost.
TakenOnlyWhenRaced == answer \in Message => Raced \/ Confirmed \in Range(reader)

\* Messages published while the server serves are run in the order in which
\* they were published, whatever the race at startup left in the reader.
OnlineInOrder ==
  \A i, j \in online \ Blank : i < j /\ fate[j] = "run" => fate[i] = "run"

\* A message published while the server serves is run, or blank, unless the
\* subscriber's thread ends (RedisSubscriber::threadMain).
OnlineIsHandled ==
  \A m \in Message \ Blank :
    m \in online ~> (fate[m] = "run" \/ subscriber = "returned")

\* main() gets to serve, or returns, unless the subscriber's thread gets hold of
\* the confirmation that subscribe() waits for.
StartsUnlessRaced == <>(main \in {"serving"} \cup Ended \/ Raced)
=============================================================================
