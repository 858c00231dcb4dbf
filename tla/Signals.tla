------------------------------ MODULE Signals ------------------------------
(***************************************************************************)
(* The life of the process around its three threads: main() starts the      *)
(* Redis subscriber and the dispatcher, serves on the io_context until a    *)
(* SIGINT, and sigintHandler stops the server and joins the two threads.    *)
(* The dispatcher is the one of Dispatcher, driven by what the program does *)
(* with it: the subscriber adds a task for each message, and no code calls  *)
(* stop() or shutdown() on either thread.                                   *)
(***************************************************************************)
EXTENDS Dispatcher

VARIABLES
  main,        \* where the main thread is
  subscriber,  \* where RedisSubscriber::threadMain is
  serverOpen,  \* the acceptor is open and the io_context not stopped
  sigint       \* a SIGINT was delivered

processVars == <<main, subscriber, serverOpen, sigint>>
allVars == <<vars, processVars>>

Main == {"startSubscriber", "startDispatcher", "serving", "closeServer",
         "joinDispatcher", "joinRedis", "closeAll", "exited"}

ProcessInit == /\ Init
               /\ main = "startSubscriber"
               /\ subscriber = "unstarted"
               /\ serverOpen = FALSE
               /\ sigint = FALSE

GoTo(from, to) == main = from /\ main' = to

\* Redis::connect starts the two threads, the subscriber first.
StartSubscriber == /\ GoTo("startSubscriber", "startDispatcher")
                   /\ subscriber' = "looping"
                   /\ UNCHANGED <<vars, serverOpen, sigint>>

StartDispatcher == /\ GoTo("startDispatcher", "serving")
                   /\ Start
                   /\ serverOpen' = TRUE
                   /\ UNCHANGED <<subscriber, sigint>>

\* The signal is delivered once the program serves.
Sigint == /\ main = "serving"
          /\ ~sigint
          /\ sigint' = TRUE
          /\ UNCHANGED <<vars, main, subscriber, serverOpen>>

\* RedisSubscriber::threadMain: each message becomes a task; a failing select
\* or read ends the thread.
Message(p, t) == /\ subscriber = "looping"
                 /\ AddTask(p, t)
                 /\ UNCHANGED processVars

RedisFails == /\ subscriber = "looping"
              /\ notifying = {}
              /\ subscriber' = "returned"
              /\ UNCHANGED <<vars, main, serverOpen, sigint>>

-----------------------------------------------------------------------------
(* Signals::sigintHandler, on the io thread, one call at a time. *)

HandleSigint == /\ sigint
                /\ GoTo("serving", "closeServer")
                /\ UNCHANGED <<vars, subscriber, serverOpen, sigint>>

CloseServer == /\ GoTo("closeServer", "joinDispatcher")
               /\ serverOpen' = FALSE
               /\ UNCHANGED <<vars, subscriber, sigint>>

JoinDispatcher == /\ GoTo("joinDispatcher", "joinRedis")
                  /\ pc = "returned"
                  /\ UNCHANGED <<vars, subscriber, serverOpen, sigint>>

JoinRedis == /\ GoTo("joinRedis", "closeAll")
             /\ subscriber = "returned"
             /\ UNCHANGED <<vars, subscriber, serverOpen, sigint>>

\* closeAll; io_context::run() then returns, and so does main().
CloseAll == /\ GoTo("closeAll", "exited")
            /\ UNCHANGED <<vars, subscriber, serverOpen, sigint>>

SigintHandler == HandleSigint \/ CloseServer \/ JoinDispatcher \/ JoinRedis \/ CloseAll

-----------------------------------------------------------------------------
DispatcherSteps == /\ ThreadMain \/ SpuriousWakeup \/ \E p \in Producer : Notify(p)
                   /\ UNCHANGED processVars

ProcessNext == \/ StartSubscriber \/ StartDispatcher \/ Sigint
               \/ SigintHandler \/ RedisFails \/ DispatcherSteps
               \/ \E p \in Producer, t \in Task : Message(p, t)

\* Each thread goes on while it can; the Redis connection may stay up for ever.
ProcessSpec == /\ ProcessInit
               /\ [][ProcessNext]_allVars
               /\ WF_allVars(StartSubscriber) /\ WF_allVars(StartDispatcher)
               /\ WF_allVars(SigintHandler)
               /\ WF_allVars(ThreadMain /\ UNCHANGED processVars)
               /\ \A p \in Producer : WF_allVars(Notify(p) /\ UNCHANGED processVars)

\* A SIGINT shuts the server down: the process it was delivered to exits
\* (Signals::dispatchSignalHandler).
SigintShutsDown == sigint ~> main = "exited"
=============================================================================
