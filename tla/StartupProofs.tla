--------------------------- MODULE StartupProofs ---------------------------
(***************************************************************************)
(* Theorems about Startup, for any number of messages of which any may be    *)
(* blank: no reply is lost or taken twice between the two readers, none      *)
(* meets a dispatcher that does not run, and messages are handled in order.  *)
(***************************************************************************)
EXTENDS Startup, SequenceTheorems, FiniteSetTheorems, TLAPS

Loading == {"modules", "subscribe", "recv", "feed", "take", "connect", "open", "serving"}
Early   == {"key", "lua", "database", "subscriber", "publisher", "startSubscriber"}
Unasked == Early \cup {"startDispatcher", "modules", "subscribe", "recv", "feed", "take"}
Stages  == Unasked \cup Loading \cup Ended

TypeOK ==
  /\ main \in Stages
  /\ subscriber \in {"unstarted", "select", "recv", "feed", "take", "returned"}
  /\ up \in BOOLEAN /\ requested \in BOOLEAN /\ subscribed \in BOOLEAN
  /\ socket \in Seq(Reply) /\ held \in [Thread -> Seq(Reply)] /\ reader \in Seq(Reply)
  /\ answer \in Reply \cup {None}
  /\ published \in 0 .. MaxMessages
  /\ delivered \subseteq 1 .. published
  /\ online \subseteq delivered
  /\ ignored \subseteq Blank \cup {Confirmed}
  /\ fate \in [Message \cup {Farewell} -> {"new", "pending", "run"}]
  /\ pending \in Seq(Message)
  /\ worker \in {"away", "present"}

\* How far main() has come when something can happen: the subscription, and
\* so every message, comes after the dispatcher's start.
StageInv ==
  /\ main \in Early => subscriber = "unstarted"
  /\ main \in Loading => worker = "present"
  /\ requested => worker = "present"
  /\ subscribed => requested
  /\ delivered # {} => subscribed
  /\ main \in Unasked => answer = None
  /\ online # {} => main = "serving"
  /\ answer \notin online

\* A thread holds replies only between its recv and its feed.
HeldInv == /\ held["io"] # <<>> => main = "feed"
           /\ held["subscriber"] # <<>> => subscriber = "feed"

\* What is pending waits in the queue.
PendingInv == /\ \A i \in DOMAIN pending : fate[pending[i]] # "new"
              /\ \A m \in Message : fate[m] = "pending" => m \in Range(pending)

\* Nothing is in front of the confirmation: it is Redis' first reply.
FirstInv == Confirmed \in Range(socket) => /\ reader = <<>>
                                           /\ held["io"] = <<>> /\ held["subscriber"] = <<>>

\* The way of a message to its task, its end first.
Path == pending \o (reader \o (held["subscriber"] \o socket))

\* On the way, messages published while the server serves keep their order,
\* and all that were run are before them.
OrderInv ==
  /\ \A i, j \in DOMAIN Path :
       i < j /\ Path[i] \in online /\ Path[j] \in online => Path[i] < Path[j]
  /\ \A i \in DOMAIN Path : \A m \in online :
       fate[m] = "run" /\ Path[i] \in online => m < Path[i]

IInv == /\ TypeOK /\ StageInv /\ HeldInv /\ PendingInv /\ FirstInv /\ OrderInv
        /\ InOnePlace /\ TakenOnlyWhenRaced

-----------------------------------------------------------------------------
(* Counting in a sequence *)

\* A reply occurs in a sequence a number of times, none if it is not in it.
LEMMA CopiesType ==
  ASSUME NEW S, NEW s \in Seq(S), NEW r
  PROVE  /\ IsFiniteSet({i \in DOMAIN s : s[i] = r})
         /\ Copies(s, r) \in Nat
         /\ Copies(s, r) = 0 <=> r \notin Range(s)
<1> DEFINE P == {i \in DOMAIN s : s[i] = r}
<1>1. P \in SUBSET (1 .. Len(s)) /\ Len(s) \in Nat
  BY LenProperties
<1>2. IsFiniteSet(P) /\ Cardinality(P) \in Nat
  <2> HIDE DEF P
  <2>1. IsFiniteSet(1 .. Len(s))
    BY <1>1, FS_Interval
  <2>2. IsFiniteSet(P)
    BY <1>1, <2>1, FS_Subset
  <2> QED BY <2>2, FS_CardinalityType
<1>3. Cardinality(P) = 0 <=> P = {}
  BY <1>2, FS_EmptySet
<1>4. P = {} <=> r \notin Range(s)
  BY DEF Range
<1> QED BY <1>2, <1>3, <1>4 DEF Copies

\* Nothing occurs in an empty sequence.
LEMMA CopiesEmpty ==
  ASSUME NEW r PROVE Copies(<<>>, r) = 0
<1>1. {i \in DOMAIN <<>> : <<>>[i] = r} = {}
  OBVIOUS
<1> QED BY <1>1, FS_EmptySet DEF Copies

\* What occurs in a sequence of one is that one, once.
LEMMA CopiesSingle ==
  ASSUME NEW e, NEW r PROVE Copies(<<e>>, r) = IF e = r THEN 1 ELSE 0
<1>1. {i \in DOMAIN <<e>> : <<e>>[i] = r} = IF e = r THEN {1} ELSE {}
  OBVIOUS
<1> QED BY <1>1, FS_EmptySet, FS_Singleton DEF Copies

\* The copies in two sequences are those in the one and those in the other.
LEMMA CopiesConcat ==
  ASSUME NEW S, NEW s \in Seq(S), NEW t \in Seq(S), NEW r
  PROVE  Copies(s \o t, r) = Copies(s, r) + Copies(t, r)
<1> DEFINE A == {i \in DOMAIN s : s[i] = r}
           B == {i \in DOMAIN t : t[i] = r}
           C == {i \in DOMAIN (s \o t) : (s \o t)[i] = r}
           M == {i \in C : i > Len(s)}
           f == [i \in B |-> i + Len(s)]
<1>1. /\ Len(s) \in Nat /\ DOMAIN s = 1 .. Len(s)
      /\ Len(t) \in Nat /\ DOMAIN t = 1 .. Len(t)
      /\ DOMAIN (s \o t) = 1 .. Len(s) + Len(t)
      /\ \A i \in 1 .. Len(s) + Len(t) : (s \o t)[i] = IF i <= Len(s) THEN s[i] ELSE t[i - Len(s)]
  BY ConcatProperties, LenProperties
<1>2. C = A \cup M /\ A \cap M = {}
  BY <1>1
<1>3. f \in Bijection(B, M)
  <2>1. ASSUME NEW i \in B PROVE f[i] \in M
    BY <1>1
  <2>2. \A i, j \in B : f[i] = f[j] => i = j
    <3>1. \A i, j \in B : i \in Nat /\ j \in Nat /\ f[i] = i + Len(s) /\ f[j] = j + Len(s)
      BY <1>1
    <3> QED BY <1>1, <3>1
  <2>3. ASSUME NEW m \in M PROVE \E i \in B : f[i] = m
    <3>1. m - Len(s) \in B
      BY <1>1
    <3>2. f[m - Len(s)] = m
      BY <1>1, <3>1
    <3> QED BY <3>1, <3>2
  <2> HIDE DEF f, B, M
  <2>4. f \in [B -> M]
    BY <2>1 DEF f
  <2> QED BY <2>2, <2>3, <2>4 DEF Bijection, Injection, Surjection, IsInjective
<1>4. IsFiniteSet(A) /\ IsFiniteSet(B)
  BY CopiesType
<1>5. IsFiniteSet(M) /\ Cardinality(M) = Cardinality(B)
  <2> HIDE DEF f, B, M
  <2>1. ExistsBijection(B, M)
    BY <1>3 DEF ExistsBijection
  <2> QED BY <2>1, <1>4, FS_Bijection
<1>6. Cardinality(C) = Cardinality(A) + Cardinality(B)
  <2> HIDE DEF A, B, M, C, f
  <2>1. Cardinality(A \cup M) = Cardinality(A) + Cardinality(M) - Cardinality(A \cap M)
    BY <1>4, <1>5, FS_Union
  <2>2. Cardinality(A) \in Nat /\ Cardinality(B) \in Nat /\ Cardinality({}) = 0
    BY <1>4, FS_CardinalityType, FS_EmptySet
  <2>3. C = A \cup M
    BY <1>2
  <2>4. Cardinality(C) = Cardinality(A \cup M)
    BY <2>3, Zenon
  <2>5. Cardinality(A \cap M) = Cardinality({})
    BY <1>2, Zenon
  <2> QED BY <1>5, <2>1, <2>2, <2>4, <2>5
<1> QED BY <1>6 DEF Copies

\* The copies in a sequence are its head and those in its tail.
LEMMA CopiesHeadTail ==
  ASSUME NEW S, NEW s \in Seq(S), s # <<>>, NEW r
  PROVE  Copies(s, r) = (IF Head(s) = r THEN 1 ELSE 0) + Copies(Tail(s), r)
<1>1. Head(s) \in S /\ Tail(s) \in Seq(S) /\ <<Head(s)>> \in Seq(S)
  BY HeadTailProperties
<1>2. s = <<Head(s)>> \o Tail(s)
  OBVIOUS
<1>3. Copies(<<Head(s)>> \o Tail(s), r) = Copies(<<Head(s)>>, r) + Copies(Tail(s), r)
  BY <1>1, CopiesConcat
<1>4. Copies(<<Head(s)>>, r) = IF Head(s) = r THEN 1 ELSE 0
  BY CopiesSingle
<1> QED BY <1>2, <1>3, <1>4

-----------------------------------------------------------------------------
(* Where a reply is *)

\* What the assumption on the constants says of the replies.
LEMMA Constants ==
  /\ MaxMessages \in Nat
  /\ Blank \subseteq Message
  /\ Confirmed \notin Message /\ None \notin Reply /\ Farewell \notin Message
  /\ Message \subseteq Nat \ {0} /\ Message \subseteq Reply /\ Confirmed \in Reply
BY StartupAssumption DEF StartupAssumption, Message, Confirmed, None, Farewell, Reply

\* The four places on the way are counted one by one.
Counted(s, a, b, c) ==
  \A r \in Reply :
    /\ Copies(s \o a \o b \o c, r) = Copies(s, r) + Copies(a, r) + Copies(b, r) + Copies(c, r)
    /\ Copies(s, r) \in Nat /\ Copies(a, r) \in Nat
    /\ Copies(b, r) \in Nat /\ Copies(c, r) \in Nat

\* The places a reply is in are counted one by one.
LEMMA CopiesOnTheWay == \A s, a, b, c \in Seq(Reply) : Counted(s, a, b, c)
<1> SUFFICES ASSUME NEW s \in Seq(Reply), NEW a \in Seq(Reply), NEW b \in Seq(Reply),
                    NEW c \in Seq(Reply), NEW r \in Reply
             PROVE  /\ Copies(s \o a \o b \o c, r)
                         = Copies(s, r) + Copies(a, r) + Copies(b, r) + Copies(c, r)
                    /\ Copies(s, r) \in Nat /\ Copies(a, r) \in Nat
                    /\ Copies(b, r) \in Nat /\ Copies(c, r) \in Nat
  BY DEF Counted
<1>1. s \o a \in Seq(Reply) /\ s \o a \o b \in Seq(Reply)
  BY ConcatProperties
<1>2. Copies(s \o a \o b \o c, r) = Copies(s \o a \o b, r) + Copies(c, r)
  BY <1>1, CopiesConcat
<1>3. Copies(s \o a \o b, r) = Copies(s \o a, r) + Copies(b, r)
  BY <1>1, CopiesConcat
<1>4. Copies(s \o a, r) = Copies(s, r) + Copies(a, r)
  BY CopiesConcat
<1>5. /\ Copies(s, r) \in Nat /\ Copies(a, r) \in Nat
      /\ Copies(b, r) \in Nat /\ Copies(c, r) \in Nat
  BY CopiesType
<1> QED BY <1>2, <1>3, <1>4, <1>5

OnWay(r) == Copies(socket, r) + Copies(held["io"], r) + Copies(held["subscriber"], r)
              + Copies(reader, r)
Taken(r) == (IF answer = r THEN 1 ELSE 0) + (IF r \in ignored THEN 1 ELSE 0)
              + (IF r \in Message /\ fate[r] # "new" THEN 1 ELSE 0)
Sent(r)  == IF r \in delivered \/ (r = Confirmed /\ subscribed) THEN 1 ELSE 0

\* InOnePlace as a sum.
Placed == \A r \in Reply : /\ OnWay(r) + Taken(r) = Sent(r)
                           /\ Copies(socket, r) \in Nat /\ Copies(held["io"], r) \in Nat
                           /\ Copies(held["subscriber"], r) \in Nat /\ Copies(reader, r) \in Nat

\* The sum over the four places is the count in their concatenation.
LEMMA InOnePlaceIsPlaced ==
  /\ TypeOK => (InOnePlace <=> Placed)
  /\ TypeOK' /\ Placed' => InOnePlace'
<1>1. TypeOK => Counted(socket, held["io"], held["subscriber"], reader)
  <2>1. TypeOK => /\ socket \in Seq(Reply) /\ held["io"] \in Seq(Reply)
                  /\ held["subscriber"] \in Seq(Reply) /\ reader \in Seq(Reply)
    BY DEF TypeOK, Thread
  <2> QED BY <2>1, CopiesOnTheWay
<1>2. TypeOK' => Counted(socket', held'["io"], held'["subscriber"], reader')
  <2>1. TypeOK' => /\ socket' \in Seq(Reply) /\ held'["io"] \in Seq(Reply)
                   /\ held'["subscriber"] \in Seq(Reply) /\ reader' \in Seq(Reply)
    BY DEF TypeOK, Thread
  <2> QED BY <2>1, CopiesOnTheWay
<1>3. ASSUME TypeOK, NEW r \in Reply
      PROVE  /\ (Copies(socket \o held["io"] \o held["subscriber"] \o reader, r)
                   + (IF answer = r THEN 1 ELSE 0)
                   + (IF r \in ignored THEN 1 ELSE 0)
                   + (IF r \in Message /\ fate[r] # "new" THEN 1 ELSE 0)
                 = (IF r \in delivered \/ (r = Confirmed /\ subscribed) THEN 1 ELSE 0))
               <=> (OnWay(r) + Taken(r) = Sent(r))
             /\ Copies(socket, r) \in Nat /\ Copies(held["io"], r) \in Nat
             /\ Copies(held["subscriber"], r) \in Nat /\ Copies(reader, r) \in Nat
  <2>1. Copies(socket \o held["io"] \o held["subscriber"] \o reader, r) = OnWay(r)
    BY <1>1, <1>3 DEF Counted, OnWay
  <2>2. /\ Copies(socket, r) \in Nat /\ Copies(held["io"], r) \in Nat
        /\ Copies(held["subscriber"], r) \in Nat /\ Copies(reader, r) \in Nat
    BY <1>1, <1>3 DEF Counted
  <2>3. OnWay(r) \in Nat
    BY <2>2 DEF OnWay
  <2> QED BY <2>1, <2>2, <2>3 DEF Taken, Sent
<1>4. ASSUME TypeOK', Placed', NEW r \in Reply
      PROVE  Copies(socket' \o held'["io"] \o held'["subscriber"] \o reader', r)
               + (IF answer' = r THEN 1 ELSE 0)
               + (IF r \in ignored' THEN 1 ELSE 0)
               + (IF r \in Message /\ fate'[r] # "new" THEN 1 ELSE 0)
             = (IF r \in delivered' \/ (r = Confirmed /\ subscribed') THEN 1 ELSE 0)
  <2>1. Copies(socket' \o held'["io"] \o held'["subscriber"] \o reader', r) = OnWay(r)'
    BY <1>2, <1>4 DEF Counted, OnWay
  <2>2. /\ OnWay(r)' + Taken(r)' = Sent(r)'
        /\ Copies(socket', r) \in Nat /\ Copies(held'["io"], r) \in Nat
        /\ Copies(held'["subscriber"], r) \in Nat /\ Copies(reader', r) \in Nat
    BY <1>4 DEF Placed
  <2>3. OnWay(r)' \in Nat
    BY <2>2 DEF OnWay
  <2> QED BY <2>1, <2>2, <2>3 DEF Taken, Sent
<1> QED BY <1>3, <1>4 DEF Placed, InOnePlace

\* A reply that is on the way was sent, and is nowhere else.
LEMMA OnTheWay ==
  ASSUME TypeOK, InOnePlace, NEW r \in Reply,
         r \in Range(socket) \cup Range(held["io"]) \cup Range(held["subscriber"]) \cup Range(reader)
  PROVE  /\ r \in delivered \/ (r = Confirmed /\ subscribed)
         /\ answer # r /\ r \notin ignored
         /\ r \in Message => fate[r] = "new"
<1>1. /\ socket \in Seq(Reply) /\ held["io"] \in Seq(Reply)
      /\ held["subscriber"] \in Seq(Reply) /\ reader \in Seq(Reply)
  BY DEF TypeOK, Thread
<1>2. \/ Copies(socket, r) # 0 \/ Copies(held["io"], r) # 0
      \/ Copies(held["subscriber"], r) # 0 \/ Copies(reader, r) # 0
  BY <1>1, CopiesType
<1>3. /\ OnWay(r) + Taken(r) = Sent(r)
      /\ Copies(socket, r) \in Nat /\ Copies(held["io"], r) \in Nat
      /\ Copies(held["subscriber"], r) \in Nat /\ Copies(reader, r) \in Nat
  BY InOnePlaceIsPlaced DEF Placed
<1>4. OnWay(r) \in Nat \ {0}
  BY <1>2, <1>3 DEF OnWay
<1>5. Taken(r) \in Nat /\ Sent(r) \in {0, 1}
  BY DEF Taken, Sent
<1>6. Taken(r) = 0 /\ Sent(r) = 1
  BY <1>3, <1>4, <1>5
<1> QED BY <1>6 DEF Taken, Sent

\* What subscribe() took for its answer, Redis has sent.
LEMMA AnswerIsSent ==
  ASSUME TypeOK, InOnePlace, answer \in Message
  PROVE  answer \in delivered
<1>1. answer \in Reply /\ answer # Confirmed
  BY Constants
<1>2. /\ OnWay(answer) + Taken(answer) = Sent(answer)
      /\ Copies(socket, answer) \in Nat /\ Copies(held["io"], answer) \in Nat
      /\ Copies(held["subscriber"], answer) \in Nat /\ Copies(reader, answer) \in Nat
  BY <1>1, InOnePlaceIsPlaced DEF Placed
<1>3. OnWay(answer) \in Nat /\ Taken(answer) \in Nat \ {0}
  BY <1>2 DEF OnWay, Taken
<1>4. Sent(answer) # 0
  BY <1>2, <1>3
<1> QED BY <1>1, <1>4 DEF Sent

\* The dispatcher runs when a message is on the way.
LEMMA WorkerIsThere ==
  ASSUME TypeOK, StageInv, InOnePlace, NEW r \in Range(reader), r \in Message
  PROVE  worker = "present" /\ fate[r] = "new"
<1>1. r \in Reply
  BY Constants
<1>2. r \in delivered /\ fate[r] = "new"
  BY <1>1, OnTheWay, Constants
<1> QED BY <1>2 DEF StageInv

\* A nonempty sequence holds its head and what its tail holds.
LEMMA HeadIsInRange ==
  ASSUME NEW S, NEW s \in Seq(S), s # <<>>
  PROVE  /\ Head(s) \in S /\ Head(s) \in Range(s) /\ Tail(s) \in Seq(S)
         /\ Range(s) = {Head(s)} \cup Range(Tail(s))
<1>1. /\ Head(s) \in S /\ Tail(s) \in Seq(S) /\ Len(s) \in Nat /\ Len(s) # 0
      /\ Head(s) = s[1] /\ DOMAIN s = 1 .. Len(s)
      /\ DOMAIN Tail(s) = 1 .. Len(s) - 1
      /\ \A i \in 1 .. Len(s) - 1 : Tail(s)[i] = s[i + 1]
  OBVIOUS
<1>2. ASSUME NEW i \in DOMAIN s, i # 1 PROVE s[i] \in Range(Tail(s))
  <2>1. i - 1 \in DOMAIN Tail(s) /\ Tail(s)[i - 1] = s[i]
    BY <1>1, <1>2
  <2> QED BY <2>1 DEF Range
<1>3. ASSUME NEW i \in DOMAIN Tail(s) PROVE Tail(s)[i] \in Range(s)
  <2>1. i + 1 \in DOMAIN s /\ Tail(s)[i] = s[i + 1]
    BY <1>1
  <2> QED BY <2>1 DEF Range
<1>4. 1 \in DOMAIN s
  BY <1>1
<1> QED BY <1>1, <1>2, <1>3, <1>4 DEF Range

-----------------------------------------------------------------------------
(* The invariant *)

\* No thread has started to begin with.
LEMMA IInvInit == Init => IInv
<1> SUFFICES ASSUME Init PROVE IInv
  OBVIOUS
<1>1. TypeOK
  <2>1. main \in Stages
    BY DEF Init, Stages, Unasked, Early
  <2>2. held \in [Thread -> Seq(Reply)] /\ socket \in Seq(Reply) /\ reader \in Seq(Reply)
    BY DEF Init
  <2>3. /\ fate \in [Message \cup {Farewell} -> {"new", "pending", "run"}]
        /\ pending \in Seq(Message) /\ worker \in {"away", "present"}
    BY DEF Init, Q!Init
  <2>4. up \in BOOLEAN /\ requested \in BOOLEAN /\ subscribed \in BOOLEAN
    BY DEF Init
  <2>5. /\ published \in 0 .. MaxMessages
        /\ delivered \subseteq 1 .. published
        /\ online \subseteq delivered
        /\ ignored \subseteq Blank \cup {Confirmed}
    BY Constants DEF Init
  <2> QED BY <2>1, <2>2, <2>3, <2>4, <2>5 DEF Init, TypeOK
<1>2. StageInv /\ HeldInv /\ PendingInv /\ FirstInv
  BY DEF Init, Q!Init, StageInv, HeldInv, PendingInv, FirstInv, Loading, Range, Thread
<1>3. OrderInv
  <2>1. Path = <<>>
    BY DEF Path, Init, Q!Init, Thread
  <2> QED BY <2>1 DEF OrderInv
<1>4. InOnePlace
  <2>1. ASSUME NEW r \in Reply PROVE OnWay(r) = 0 /\ Taken(r) = 0 /\ Sent(r) = 0
    BY CopiesEmpty, Constants DEF Init, Q!Init, OnWay, Taken, Sent, Thread
  <2>2. ASSUME NEW r \in Reply
        PROVE  /\ Copies(socket, r) \in Nat /\ Copies(held["io"], r) \in Nat
               /\ Copies(held["subscriber"], r) \in Nat /\ Copies(reader, r) \in Nat
    BY CopiesEmpty DEF Init, Thread
  <2> QED BY <1>1, <2>1, <2>2, InOnePlaceIsPlaced DEF Placed
<1>5. TakenOnlyWhenRaced
  BY Constants DEF Init, TakenOnlyWhenRaced, Reply
<1> QED BY <1>1, <1>2, <1>3, <1>4, <1>5 DEF IInv

\* Every stage of main() leads to a stage before serving.
LEMMA NextStages ==
  /\ DOMAIN NextStage = {"key", "lua", "database", "subscriber", "publisher"}
  /\ \A s \in DOMAIN NextStage : NextStage[s] \in Early
BY DEF NextStage, Early

Basic == TypeOK /\ StageInv /\ HeldInv

\* main()'s stages and the subscriber's steps that move no reply.
LEMMA QuietBasic ==
  ASSUME Basic, \/ Succeed \/ Return \/ StartSubscriber \/ StartDispatcher \/ LoadModules
                \/ ConnectCallback \/ Serve \/ Break \/ SendSubscribe \/ SubscribeFails
                \/ Select \/ ReadFails \/ NoMoreReplies \/ SelectFails \/ UNCHANGED vars
  PROVE  Basic'
<1> USE DEF Basic, TypeOK, StageInv, HeldInv, Stages, Early, Unasked, Loading, Ended,
            queueVars, redisVars, wire, GoOn, Step, Running
<1>1. CASE Succeed            BY <1>1, NextStages DEF Succeed
<1>2. CASE Return             BY <1>2, NextStages DEF Return
<1>3. CASE StartSubscriber    BY <1>3 DEF StartSubscriber
<1>4. CASE StartDispatcher    BY <1>4 DEF StartDispatcher, Q!Arrive
<1>5. CASE LoadModules        BY <1>5 DEF LoadModules
<1>6. CASE ConnectCallback    BY <1>6 DEF ConnectCallback
<1>7. CASE Serve              BY <1>7 DEF Serve
<1>8. CASE Break              BY <1>8 DEF Break
<1>9. CASE SendSubscribe      BY <1>9 DEF SendSubscribe
<1>10. CASE SubscribeFails    BY <1>10 DEF SubscribeFails
<1>11. CASE Select            BY <1>11 DEF Select
<1>12. CASE ReadFails         BY <1>12 DEF ReadFails
<1>13. CASE NoMoreReplies     BY <1>13 DEF NoMoreReplies
<1>14. CASE SelectFails       BY <1>14 DEF SelectFails
<1>15. CASE UNCHANGED vars    BY <1>15 DEF vars
<1> QED BY <1>1, <1>2, <1>3, <1>4, <1>5, <1>6, <1>7, <1>8, <1>9, <1>10, <1>11, <1>12, <1>13,
           <1>14, <1>15

\* A task that the dispatcher is done with was run.
LEMMA DispatchRuns ==
  ASSUME TypeOK, Dispatch
  PROVE  /\ pending # <<>> /\ pending' = Tail(pending) /\ worker' = worker
         /\ Head(pending) \in Message
         /\ fate' = [fate EXCEPT ![Head(pending)] = "run"]
<1>1. /\ pending # <<>> /\ pending' = Tail(pending) /\ worker' = worker
      /\ fate'[Head(pending)] = "run"
  BY DEF Dispatch, Q!Finish
<1>2. Head(pending) \in Message
  BY <1>1, HeadTailProperties DEF TypeOK
<1>3. PICK how \in {"run", "dropped"} : fate' = [fate EXCEPT ![Head(pending)] = how]
  BY DEF Dispatch, Q!Finish
<1>4. how = "run"
  BY <1>1, <1>2, <1>3 DEF TypeOK
<1> QED BY <1>1, <1>2, <1>3, <1>4

\* The steps that move a reply.
LEMMA MovesBasic ==
  ASSUME Basic, InOnePlace,
         \/ Confirm \/ Publish \/ IoRecv \/ IoFeed \/ IoTake
         \/ ThreadRecv \/ ThreadFeed \/ HandleReply \/ Dispatch
  PROVE  Basic'
<1> USE DEF Basic, StageInv, HeldInv, Early, Unasked, Loading, Ended,
            queueVars, redisVars, wire, GoOn, Step, Running
<1>0. /\ \A s, t \in Seq(Reply) : s \o t \in Seq(Reply)
      /\ \A s \in Seq(Reply), r \in Reply : Append(s, r) \in Seq(Reply)
      /\ \A s \in Seq(Reply) : s # <<>> => Head(s) \in Reply /\ Tail(s) \in Seq(Reply)
      /\ <<>> \in Seq(Reply)
  BY ConcatProperties
<1>t. TypeOK /\ Thread = {"io", "subscriber"}
  BY DEF Thread
<1>c. Message \subseteq Reply /\ Confirmed \in Reply
  BY Constants
<1>1. CASE Confirm
  BY <1>0, <1>t, <1>c, <1>1 DEF Confirm, TypeOK
<1>2. CASE Publish
  <2>1. published' \in 0 .. MaxMessages /\ published' = published + 1 /\ published \in Nat
    BY <1>t, <1>2, Constants DEF Publish, TypeOK
  <2>2. published' \in Message
    BY <2>1 DEF Message
  <2>a. \/ /\ socket' = Append(socket, published')
           /\ delivered' = delivered \cup {published'}
           /\ online' \in {online, online \cup {published'}}
        \/ socket' = socket /\ delivered' = delivered /\ online' = online
    BY <1>2 DEF Publish
  <2>b. socket \in Seq(Reply) /\ delivered \subseteq 1 .. published /\ online \subseteq delivered
    BY <1>t DEF TypeOK
  <2>3. delivered' \subseteq 1 .. published' /\ online' \subseteq delivered'
    <3>1. \A n \in 1 .. published : n \in 1 .. published'
      BY <2>1
    <3>2. published' \in 1 .. published'
      BY <2>1
    <3> QED BY <2>a, <2>b, <3>1, <3>2
  <2>4. socket' \in Seq(Reply)
    <3>1. published' \in Reply
      BY <1>c, <2>2
    <3> QED BY <1>0, <2>a, <2>b, <3>1
  <2>5. TypeOK'
    BY <1>t, <1>2, <2>1, <2>3, <2>4 DEF Publish, TypeOK
  <2>6. answer' = answer /\ answer # published' /\ published' \notin delivered
    <3>1. published' \notin 1 .. published
      BY <2>1
    <3> QED BY <1>2, <2>2, <2>b, <3>1, AnswerIsSent DEF Publish
  <2>7. answer' \notin online'
    BY <2>a, <2>6
  <2> QED BY <1>2, <2>5, <2>7 DEF Publish
<1>3. CASE IoRecv
  BY <1>0, <1>t, <1>3 DEF IoRecv, Recv, TypeOK, Stages
<1>4. CASE IoFeed
  BY <1>0, <1>t, <1>4 DEF IoFeed, Feed, TypeOK, Stages
<1>5. CASE IoTake
  <2>1. online' = {}
    BY <1>5 DEF IoTake
  <2>2. answer' \in Reply \cup {None} /\ reader' \in Seq(Reply)
    BY <1>0, <1>t, <1>5 DEF IoTake, TypeOK
  <2> QED BY <1>t, <1>5, <2>1, <2>2 DEF IoTake, TypeOK, Stages
<1>6. CASE ThreadRecv
  BY <1>0, <1>t, <1>6 DEF ThreadRecv, Recv, TypeOK
<1>7. CASE ThreadFeed
  BY <1>0, <1>t, <1>7 DEF ThreadFeed, Feed, TypeOK
<1>8. CASE HandleReply
  <2> DEFINE r == Head(reader)
  <2>1. reader # <<>> /\ r \in Reply /\ r \in Range(reader) /\ reader' = Tail(reader)
        /\ reader' \in Seq(Reply)
    BY <1>0, <1>t, <1>8, HeadIsInRange DEF HandleReply, TypeOK
  <2>2. CASE r \in Message \ Blank
    <3>1. Q!TakeOn(r) /\ UNCHANGED ignored
      BY <1>8, <2>1, <2>2, WorkerIsThere DEF HandleReply, AddTask
    <3>2. /\ fate' \in [Message \cup {Farewell} -> {"new", "pending", "run"}]
          /\ pending' \in Seq(Message) /\ worker' = worker
      BY <1>t, <2>2, <3>1 DEF Q!TakeOn, TypeOK
    <3> QED BY <1>t, <1>8, <2>1, <3>1, <3>2 DEF HandleReply, TypeOK
  <2>3. CASE r \notin Message \ Blank
    <3>1. r \in Blank \cup {Confirmed}
      BY <2>1, <2>3 DEF Reply
    <3> QED BY <1>t, <1>8, <2>1, <2>3, <3>1 DEF HandleReply, TypeOK
  <2> QED BY <2>2, <2>3
<1>9. CASE Dispatch
  <2>1. /\ pending # <<>> /\ pending' = Tail(pending) /\ worker' = worker
        /\ Head(pending) \in Message
        /\ fate' = [fate EXCEPT ![Head(pending)] = "run"]
    BY <1>t, <1>9, DispatchRuns
  <2>2. fate' \in [Message \cup {Farewell} -> {"new", "pending", "run"}]
    BY <1>t, <2>1 DEF TypeOK
  <2>3. pending' \in Seq(Message)
    <3>1. pending \in Seq(Message)
      BY <1>t DEF TypeOK
    <3> QED BY <2>1, <3>1, HeadTailProperties
  <2> QED BY <1>t, <1>9, <2>1, <2>2, <2>3 DEF Dispatch, TypeOK
<1> QED BY <1>1, <1>2, <1>3, <1>4, <1>5, <1>6, <1>7, <1>8, <1>9

\* Steps that move no reply and finish no task keep the rest of the invariant.
LEMMA QuietRest ==
  ASSUME IInv, UNCHANGED <<wire, answer, ignored, fate, pending, delivered, online, subscribed>>
  PROVE  PendingInv' /\ FirstInv' /\ OrderInv' /\ InOnePlace' /\ TakenOnlyWhenRaced'
<1>1. /\ socket' = socket /\ held' = held /\ reader' = reader /\ answer' = answer
      /\ ignored' = ignored /\ fate' = fate /\ pending' = pending /\ delivered' = delivered
      /\ online' = online /\ subscribed' = subscribed
  BY DEF wire
<1>2. PendingInv'
  BY <1>1 DEF IInv, PendingInv
<1>3. FirstInv'
  BY <1>1 DEF IInv, FirstInv
<1>4. OrderInv'
  <2>1. Path' = Path
    BY <1>1 DEF Path
  <2> QED BY <1>1, <2>1 DEF IInv, OrderInv
<1>5. InOnePlace'
  BY <1>1 DEF IInv, InOnePlace
<1>6. TakenOnlyWhenRaced'
  BY <1>1 DEF IInv, TakenOnlyWhenRaced, Raced
<1> QED BY <1>2, <1>3, <1>4, <1>5, <1>6

\* These steps leave the replies where they are.
LEMMA QuietUnchanged ==
  ASSUME \/ Succeed \/ Return \/ StartSubscriber \/ StartDispatcher \/ LoadModules
         \/ ConnectCallback \/ Serve \/ Break \/ SendSubscribe \/ SubscribeFails
         \/ Select \/ ReadFails \/ NoMoreReplies \/ SelectFails \/ UNCHANGED vars
  PROVE  UNCHANGED <<wire, answer, ignored, fate, pending, delivered, online, subscribed>>
BY DEF Succeed, Return, StartSubscriber, StartDispatcher, Q!Arrive, LoadModules, ConnectCallback,
       Serve, Break, SendSubscribe, SubscribeFails, Select, ReadFails, NoMoreReplies, SelectFails,
       vars, queueVars, redisVars, wire

\* A reply that is handled becomes a task, or is ignored.
LEMMA HandleFacts ==
  ASSUME Basic, InOnePlace, HandleReply
  PROVE  LET r == Head(reader)
         IN /\ reader # <<>> /\ r \in Reply /\ r \in Range(reader)
            /\ reader' = Tail(reader) /\ socket' = socket /\ held' = held
            /\ answer' = answer /\ delivered' = delivered /\ online' = online
            /\ subscribed' = subscribed
            /\ \/ /\ r \in Message \ Blank
                  /\ fate[r] = "new" /\ fate' = [fate EXCEPT ![r] = "pending"]
                  /\ pending' = Append(pending, r) /\ ignored' = ignored
               \/ /\ r \in Blank \cup {Confirmed}
                  /\ fate' = fate /\ pending' = pending /\ ignored' = ignored \cup {r}
<1> DEFINE r == Head(reader)
<1>1. reader # <<>> /\ r \in Reply /\ r \in Range(reader)
  BY HeadIsInRange DEF HandleReply, Basic, TypeOK
<1>2. /\ reader' = Tail(reader) /\ socket' = socket /\ held' = held
      /\ answer' = answer /\ delivered' = delivered /\ online' = online
      /\ subscribed' = subscribed
  BY DEF HandleReply, redisVars
<1>3. CASE r \in Message \ Blank
  <2>1. Q!TakeOn(r) /\ UNCHANGED ignored
    BY <1>1, <1>3, WorkerIsThere DEF HandleReply, AddTask, Basic
  <2> QED BY <1>1, <1>2, <1>3, <2>1 DEF Q!TakeOn
<1>4. CASE r \notin Message \ Blank
  <2>1. r \in Blank \cup {Confirmed}
    BY <1>1, <1>4 DEF Reply
  <2>2. fate' = fate /\ pending' = pending /\ ignored' = ignored \cup {r}
    BY <1>4 DEF HandleReply, queueVars
  <2> QED BY <1>1, <1>2, <2>1, <2>2
<1> QED BY <1>3, <1>4

\* A message is published to nobody, or to this server.
LEMMA PublishFacts ==
  ASSUME Basic, Publish
  PROVE  /\ published' = published + 1 /\ published' \in Message /\ published' \notin delivered
         /\ held' = held /\ reader' = reader /\ answer' = answer /\ ignored' = ignored
         /\ subscribed' = subscribed /\ fate' = fate /\ pending' = pending
         /\ \/ /\ socket' = Append(socket, published')
               /\ delivered' = delivered \cup {published'}
               /\ online' \in {online, online \cup {published'}}
            \/ socket' = socket /\ delivered' = delivered /\ online' = online
<1>1. published \in Nat /\ published < MaxMessages /\ published' = published + 1
  BY Constants DEF Publish, Basic, TypeOK
<1>2. published' \in Message /\ published' \notin 1 .. published
  BY <1>1, Constants DEF Message
<1>3. delivered \subseteq 1 .. published
  BY DEF Basic, TypeOK
<1> QED BY <1>1, <1>2, <1>3 DEF Publish, queueVars

Move == \/ Confirm \/ Publish \/ IoRecv \/ IoFeed \/ IoTake
        \/ ThreadRecv \/ ThreadFeed \/ HandleReply \/ Dispatch

\* Appending an element adds it and nothing else.
LEMMA RangeAppend ==
  ASSUME NEW S, NEW s \in Seq(S), NEW e \in S
  PROVE  Range(Append(s, e)) = Range(s) \cup {e}
<1>1. Append(s, e) = s \o <<e>> /\ <<e>> \in Seq(S)
  BY AppendIsConcat
<1>2. Range(<<e>>) = {e}
  BY DEF Range
<1>3. Range(s \o <<e>>) = Range(s) \cup Range(<<e>>)
  BY <1>1, RangeConcatenation
<1> QED BY <1>1, <1>2, <1>3, Zenon

\* A reply that moves keeps PendingInv.
LEMMA MovesPending ==
  ASSUME IInv, Move PROVE PendingInv'
<1>t. Basic /\ InOnePlace /\ PendingInv
  BY DEF IInv, Basic
<1>p. pending \in Seq(Message)
  BY <1>t DEF Basic, TypeOK
<1>f. fate \in [Message \cup {Farewell} -> {"new", "pending", "run"}]
  BY <1>t DEF Basic, TypeOK
<1>1. ASSUME fate' = fate, pending' = pending PROVE PendingInv'
  BY <1>t, <1>1 DEF PendingInv
<1>2. CASE HandleReply
  <2> DEFINE r == Head(reader)
  <2>1. CASE fate' = fate /\ pending' = pending
    BY <1>1, <2>1
  <2>2. CASE /\ r \in Message \ Blank
             /\ fate[r] = "new" /\ fate' = [fate EXCEPT ![r] = "pending"]
             /\ pending' = Append(pending, r) /\ ignored' = ignored
    <3>1. /\ pending' \in Seq(Message) /\ Len(pending') = Len(pending) + 1 /\ Len(pending) \in Nat
          /\ \A i \in 1 .. Len(pending) : pending'[i] = pending[i]
          /\ pending'[Len(pending) + 1] = r
      BY <1>p, <2>2, AppendProperties
    <3>2. Range(pending') = Range(pending) \cup {r}
      BY <1>p, <2>2, RangeAppend
    <3>3. \A i \in DOMAIN pending' : fate'[pending'[i]] # "new"
      <4> SUFFICES ASSUME NEW i \in 1 .. Len(pending) + 1 PROVE fate'[pending'[i]] # "new"
        BY <3>1, LenProperties
      <4>1. pending'[i] \in Message
        BY <3>1, ElementOfSeq
      <4>2. CASE pending'[i] = r
        BY <1>f, <2>2, <4>1, <4>2
      <4>3. CASE pending'[i] # r
        <5>1. i \in 1 .. Len(pending) /\ pending'[i] = pending[i]
          BY <3>1, <4>3
        <5>2. fate[pending[i]] # "new"
          BY <1>t, <1>p, <5>1 DEF PendingInv
        <5> QED BY <1>f, <2>2, <4>1, <4>3, <5>1, <5>2
      <4> QED BY <4>2, <4>3
    <3>4. \A m \in Message : fate'[m] = "pending" => m \in Range(pending')
      BY <1>t, <1>f, <2>2, <3>2 DEF PendingInv
    <3> QED BY <3>3, <3>4 DEF PendingInv
  <2> QED BY <1>t, <1>2, <2>1, <2>2, HandleFacts
<1>3. CASE Dispatch
  <2>1. /\ pending # <<>> /\ pending' = Tail(pending)
        /\ Head(pending) \in Message
        /\ fate' = [fate EXCEPT ![Head(pending)] = "run"]
    BY <1>t, <1>3, DispatchRuns DEF Basic
  <2>2. /\ pending' \in Seq(Message) /\ Range(pending) = {Head(pending)} \cup Range(pending')
    BY <1>p, <2>1, HeadIsInRange
  <2>3. \A m \in Message : m \in Range(pending) => fate[m] # "new"
    BY <1>t DEF PendingInv, Range
  <2>4. \A i \in DOMAIN pending' : pending'[i] \in Message /\ pending'[i] \in Range(pending')
    BY <2>2 DEF Range
  <2>5. \A i \in DOMAIN pending' : fate'[pending'[i]] # "new"
    BY <1>f, <2>1, <2>2, <2>3, <2>4
  <2>6. \A m \in Message : fate'[m] = "pending" => m \in Range(pending')
    BY <1>t, <1>f, <2>1, <2>2 DEF PendingInv
  <2> QED BY <2>5, <2>6 DEF PendingInv
<1>4. CASE Confirm \/ Publish \/ IoRecv \/ IoFeed \/ IoTake \/ ThreadRecv \/ ThreadFeed
  BY <1>1, <1>4 DEF Confirm, Publish, IoRecv, IoFeed, IoTake, ThreadRecv, ThreadFeed, queueVars
<1> QED BY <1>2, <1>3, <1>4 DEF Move

\* A reply that moves keeps the confirmation in front.
LEMMA MovesFirst ==
  ASSUME IInv, Move PROVE FirstInv'
<1>t. Basic /\ InOnePlace /\ FirstInv
  BY DEF IInv, Basic
<1>s. /\ socket \in Seq(Reply) /\ reader \in Seq(Reply)
      /\ held["io"] \in Seq(Reply) /\ held["subscriber"] \in Seq(Reply)
  BY <1>t DEF Basic, TypeOK, Thread
<1>h. held \in [Thread -> Seq(Reply)] /\ Thread = {"io", "subscriber"}
  BY <1>t DEF Basic, TypeOK, Thread
<1>0. Range(<<>>) = {} /\ <<>> \o <<>> = <<>>
  BY DEF Range
<1>1. CASE Confirm
  <2>1. ~subscribed /\ delivered = {}
    BY <1>t, <1>1 DEF Confirm, Basic, StageInv
  <2>2. ASSUME NEW s \in Seq(Reply), s # <<>>,
               Range(s) \subseteq Range(held["io"]) \cup Range(held["subscriber"]) \cup Range(reader)
        PROVE  FALSE
    <3>1. Head(s) \in Reply /\ Head(s) \in Range(s)
      BY <2>2, HeadIsInRange
    <3> QED BY <1>t, <2>1, <2>2, <3>1, OnTheWay DEF Basic
  <2>3. reader = <<>> /\ held["io"] = <<>> /\ held["subscriber"] = <<>>
    BY <1>s, <2>2
  <2> QED BY <1>1, <2>3 DEF Confirm, FirstInv
<1>2. CASE Publish
  <2>1. published' # Confirmed /\ published' \in Reply /\ held' = held /\ reader' = reader
    BY <1>t, <1>2, PublishFacts, Constants
  <2>2. Confirmed \in Range(socket') => Confirmed \in Range(socket)
    <3>1. socket' = socket \/ socket' = Append(socket, published')
      BY <1>t, <1>2, PublishFacts
    <3>2. Range(Append(socket, published')) = Range(socket) \cup {published'}
      BY <1>s, <2>1, RangeAppend
    <3> QED BY <2>1, <3>1, <3>2
  <2> QED BY <1>t, <2>1, <2>2 DEF FirstInv
<1>3. CASE IoRecv \/ ThreadRecv
  <2>1. socket' = <<>>
    BY <1>3 DEF IoRecv, ThreadRecv, Recv
  <2> QED BY <1>0, <2>1 DEF FirstInv
<1>4. CASE IoFeed \/ ThreadFeed
  <2>1. PICK t \in Thread : /\ reader' = reader \o held[t]
                            /\ held' = [held EXCEPT ![t] = <<>>] /\ socket' = socket
    BY <1>4, <1>h DEF IoFeed, ThreadFeed, Feed
  <2>2. Confirmed \in Range(socket) => /\ reader' = <<>>
                                       /\ held'["io"] = <<>> /\ held'["subscriber"] = <<>>
    BY <1>t, <1>h, <1>0, <2>1 DEF FirstInv
  <2> QED BY <2>1, <2>2 DEF FirstInv
<1>5. CASE IoTake
  <2>1. held' = held /\ socket' = socket /\ (reader' = reader \/ reader # <<>>)
    BY <1>5 DEF IoTake
  <2> QED BY <1>t, <2>1 DEF FirstInv
<1>6. CASE HandleReply
  <2>1. socket' = socket /\ reader # <<>>
    BY <1>t, <1>6, HandleFacts
  <2> QED BY <1>t, <2>1 DEF FirstInv
<1>7. CASE Dispatch
  <2>1. held' = held /\ socket' = socket /\ reader' = reader
    BY <1>7 DEF Dispatch, wire
  <2> QED BY <1>t, <2>1 DEF FirstInv
<1> QED BY <1>1, <1>2, <1>3, <1>4, <1>5, <1>6, <1>7 DEF Move

\* A reply that moves keeps TakenOnlyWhenRaced.
LEMMA MovesTaken ==
  ASSUME IInv, Move PROVE TakenOnlyWhenRaced'
<1>t. Basic /\ InOnePlace /\ FirstInv /\ TakenOnlyWhenRaced
  BY DEF IInv, Basic
<1>s. /\ socket \in Seq(Reply) /\ reader \in Seq(Reply)
      /\ held["io"] \in Seq(Reply) /\ held["subscriber"] \in Seq(Reply)
  BY <1>t DEF Basic, TypeOK, Thread
<1>h. held \in [Thread -> Seq(Reply)] /\ Thread = {"io", "subscriber"}
  BY <1>t DEF Basic, TypeOK, Thread
<1>0. Range(<<>>) = {}
  BY DEF Range
<1>1. ASSUME answer' = answer,
             Confirmed \in ignored \cup Range(held["subscriber"]) \cup Range(reader) =>
               Confirmed \in ignored' \cup Range(held'["subscriber"]) \cup Range(reader')
      PROVE  TakenOnlyWhenRaced'
  BY <1>t, <1>1 DEF TakenOnlyWhenRaced, Raced
<1>2. CASE Confirm \/ Dispatch
  BY <1>1, <1>2 DEF Confirm, Dispatch, wire
<1>3. CASE Publish
  BY <1>t, <1>1, <1>3, PublishFacts
<1>4. CASE IoRecv
  <2>1. /\ answer' = answer /\ ignored' = ignored /\ reader' = reader
        /\ held' = [held EXCEPT !["io"] = socket]
    BY <1>4 DEF IoRecv, Recv
  <2>2. held'["subscriber"] = held["subscriber"]
    BY <1>h, <2>1
  <2> QED BY <1>1, <2>1, <2>2
<1>5. CASE ThreadRecv
  <2>1. answer' = answer /\ ignored' = ignored /\ reader' = reader
    BY <1>5 DEF ThreadRecv, Recv
  <2>2. held["subscriber"] = <<>>
    BY <1>t, <1>5 DEF ThreadRecv, Step, Basic, HeldInv
  <2> QED BY <1>0, <1>1, <2>1, <2>2
<1>6. CASE IoFeed \/ ThreadFeed
  <2>1. PICK t \in Thread : reader' = reader \o held[t] /\ held' = [held EXCEPT ![t] = <<>>]
    BY <1>6, <1>h DEF IoFeed, ThreadFeed, Feed
  <2>2. answer' = answer /\ ignored' = ignored
    BY <1>6 DEF IoFeed, ThreadFeed
  <2>3. Range(reader') = Range(reader) \cup Range(held[t])
    BY <1>s, <1>h, <2>1, RangeConcatenation
  <2>4. t # "subscriber" => held'["subscriber"] = held["subscriber"]
    BY <1>h, <2>1
  <2> QED BY <1>1, <2>2, <2>3, <2>4
<1>7. CASE HandleReply
  <2>1. /\ reader # <<>> /\ reader' = Tail(reader) /\ held' = held /\ answer' = answer
        /\ ignored \subseteq ignored'
        /\ Head(reader) = Confirmed => Confirmed \in ignored'
    BY <1>t, <1>7, HandleFacts, Constants
  <2>2. Range(reader) = {Head(reader)} \cup Range(reader')
    BY <1>s, <2>1, HeadIsInRange
  <2> QED BY <1>1, <2>1, <2>2
<1>8. CASE IoTake
  <2>1. main = "take" /\ answer = None /\ held["io"] = <<>>
    BY <1>t, <1>8 DEF IoTake, Basic, StageInv, HeldInv, Unasked
  <2>2. CASE reader = <<>>
    BY <1>1, <1>8, <2>2 DEF IoTake, wire
  <2>3. CASE reader # <<>>
    <3>1. /\ answer' = Head(reader) /\ reader' = Tail(reader)
          /\ held' = held /\ ignored' = ignored
      BY <1>8, <2>3 DEF IoTake
    <3>2. /\ Head(reader) \in Reply /\ Head(reader) \in Range(reader)
          /\ Range(reader) = {Head(reader)} \cup Range(reader')
      BY <1>s, <2>3, <3>1, HeadIsInRange
    <3>3. SUFFICES ASSUME Head(reader) \in Message
                   PROVE  Confirmed \in ignored \cup Range(held["subscriber"]) \cup Range(reader')
      BY <3>1 DEF TakenOnlyWhenRaced, Raced
    <3>4. subscribed
      <4>1. Head(reader) \in delivered
        BY <1>t, <3>2, <3>3, OnTheWay, Constants DEF Basic
      <4> QED BY <1>t, <4>1 DEF Basic, StageInv
    <3>5. Copies(socket, Confirmed) = 0 /\ Copies(held["io"], Confirmed) = 0
      <4>1. Confirmed \notin Range(socket) /\ Confirmed \notin Range(held["io"])
        BY <1>0, <1>t, <2>1, <2>3 DEF FirstInv
      <4> QED BY <1>s, <4>1, CopiesType
    <3>6. /\ OnWay(Confirmed) + Taken(Confirmed) = Sent(Confirmed)
          /\ Copies(held["subscriber"], Confirmed) \in Nat /\ Copies(reader, Confirmed) \in Nat
      BY <1>t, InOnePlaceIsPlaced, Constants DEF Placed, Basic
    <3>7. Taken(Confirmed) = IF Confirmed \in ignored THEN 1 ELSE 0
      BY <2>1, Constants DEF Taken
    <3>8. \/ Confirmed \in ignored
          \/ Copies(held["subscriber"], Confirmed) # 0 \/ Copies(reader, Confirmed) # 0
      BY <3>4, <3>5, <3>6, <3>7 DEF OnWay, Sent
    <3>9. Confirmed \in ignored \cup Range(held["subscriber"]) \cup Range(reader)
      BY <1>s, <3>8, CopiesType
    <3> QED BY <3>2, <3>3, <3>9, Constants
  <2> QED BY <2>2, <2>3
<1> QED BY <1>2, <1>3, <1>4, <1>5, <1>6, <1>7, <1>8 DEF Move

\* Appending an element adds one copy of it.
LEMMA CopiesAppend ==
  ASSUME NEW S, NEW s \in Seq(S), NEW e \in S, NEW r
  PROVE  Copies(Append(s, e), r) = Copies(s, r) + (IF e = r THEN 1 ELSE 0)
<1>1. Append(s, e) = s \o <<e>> /\ <<e>> \in Seq(S)
  BY AppendIsConcat
<1>2. Copies(s \o <<e>>, r) = Copies(s, r) + Copies(<<e>>, r)
  BY <1>1, CopiesConcat
<1>3. Copies(<<e>>, r) = IF e = r THEN 1 ELSE 0
  BY CopiesSingle
<1> QED BY <1>1, <1>2, <1>3

\* A reply that moves is in one place before and after.
LEMMA MovesPlace ==
  ASSUME IInv, Move, Basic' PROVE InOnePlace'
<1>t. Basic /\ InOnePlace /\ PendingInv
  BY DEF IInv, Basic
<1>s. /\ socket \in Seq(Reply) /\ reader \in Seq(Reply)
      /\ held["io"] \in Seq(Reply) /\ held["subscriber"] \in Seq(Reply)
  BY <1>t DEF Basic, TypeOK, Thread
<1>n. /\ socket' \in Seq(Reply) /\ reader' \in Seq(Reply)
      /\ held'["io"] \in Seq(Reply) /\ held'["subscriber"] \in Seq(Reply)
  BY DEF Basic, TypeOK, Thread
<1>h. held \in [Thread -> Seq(Reply)] /\ Thread = {"io", "subscriber"}
  BY <1>t DEF Basic, TypeOK, Thread
<1>f. fate \in [Message \cup {Farewell} -> {"new", "pending", "run"}]
  BY <1>t DEF Basic, TypeOK
<1>0. SUFFICES ASSUME NEW r \in Reply PROVE OnWay(r)' + Taken(r)' = Sent(r)'
  <2>1. ASSUME NEW q \in Reply
        PROVE  /\ Copies(socket', q) \in Nat /\ Copies(held'["io"], q) \in Nat
               /\ Copies(held'["subscriber"], q) \in Nat /\ Copies(reader', q) \in Nat
    BY <1>n, CopiesType
  <2> QED BY <2>1, InOnePlaceIsPlaced DEF Placed, Basic
<1>e. /\ OnWay(r) + Taken(r) = Sent(r)
      /\ Copies(socket, r) \in Nat /\ Copies(held["io"], r) \in Nat
      /\ Copies(held["subscriber"], r) \in Nat /\ Copies(reader, r) \in Nat
  BY <1>t, InOnePlaceIsPlaced DEF Placed, Basic
<1>k. Taken(r) \in Nat /\ Sent(r) \in Nat /\ OnWay(r) \in Nat
  BY <1>e DEF Taken, Sent, OnWay
<1>1. CASE Confirm
  <2>1. Copies(socket', r) = Copies(socket, r) + (IF r = Confirmed THEN 1 ELSE 0)
    BY <1>s, <1>1, CopiesAppend, Constants DEF Confirm
  <2>2. OnWay(r)' = OnWay(r) + (IF r = Confirmed THEN 1 ELSE 0)
    BY <1>e, <1>1, <2>1 DEF Confirm, OnWay
  <2>3. Taken(r)' = Taken(r)
    BY <1>1 DEF Confirm, Taken, queueVars
  <2>4. Sent(r)' = Sent(r) + (IF r = Confirmed THEN 1 ELSE 0)
    <3>1. delivered = {}
      BY <1>t, <1>1 DEF Confirm, Basic, StageInv
    <3> QED BY <1>1, <3>1 DEF Confirm, Sent
  <2> QED BY <1>e, <1>k, <2>2, <2>3, <2>4
<1>2. CASE Publish
  <2>1. /\ published' \in Message /\ published' \in Reply /\ published' \notin delivered
        /\ published' # Confirmed
    BY <1>t, <1>2, PublishFacts, Constants
  <2>2. Taken(r)' = Taken(r)
    <3>1. answer' = answer /\ ignored' = ignored /\ fate' = fate
      BY <1>t, <1>2, PublishFacts
    <3> QED BY <3>1 DEF Taken
  <2>3. held' = held /\ reader' = reader /\ subscribed' = subscribed
    BY <1>t, <1>2, PublishFacts
  <2>4. CASE socket' = socket /\ delivered' = delivered
    BY <1>e, <2>2, <2>3, <2>4 DEF OnWay, Sent
  <2>5. CASE socket' = Append(socket, published') /\ delivered' = delivered \cup {published'}
    <3>1. Copies(socket', r) = Copies(socket, r) + (IF published' = r THEN 1 ELSE 0)
      BY <1>s, <2>1, <2>5, CopiesAppend
    <3>2. OnWay(r)' = OnWay(r) + (IF published' = r THEN 1 ELSE 0)
      BY <1>e, <2>3, <3>1 DEF OnWay
    <3>3. Sent(r)' = Sent(r) + (IF published' = r THEN 1 ELSE 0)
      BY <2>1, <2>3, <2>5 DEF Sent
    <3> QED BY <1>e, <1>k, <2>2, <3>2, <3>3
  <2> QED BY <1>t, <1>2, <2>4, <2>5, PublishFacts
<1>3. CASE IoRecv \/ ThreadRecv
  <2>1. PICK t \in Thread : /\ held' = [held EXCEPT ![t] = socket] /\ socket' = <<>>
                            /\ reader' = reader /\ held[t] = <<>>
    BY <1>t, <1>h, <1>3 DEF IoRecv, ThreadRecv, Recv, GoOn, Step, Basic, HeldInv
  <2>2. Copies(held[t], r) = 0 /\ Copies(socket', r) = 0
    BY <2>1, CopiesEmpty
  <2>3. OnWay(r)' = OnWay(r)
    <3>1. CASE t = "io"
      <4>1. held'["io"] = socket /\ held'["subscriber"] = held["subscriber"]
        BY <1>h, <2>1, <3>1
      <4> QED BY <1>e, <2>1, <2>2, <3>1, <4>1 DEF OnWay
    <3>2. CASE t = "subscriber"
      <4>1. held'["subscriber"] = socket /\ held'["io"] = held["io"]
        BY <1>h, <2>1, <3>2
      <4> QED BY <1>e, <2>1, <2>2, <3>2, <4>1 DEF OnWay
    <3> QED BY <1>h, <3>1, <3>2
  <2>4. Taken(r)' = Taken(r) /\ Sent(r)' = Sent(r)
    BY <1>3 DEF IoRecv, ThreadRecv, Taken, Sent, queueVars, redisVars
  <2> QED BY <1>e, <2>3, <2>4
<1>4. CASE IoFeed \/ ThreadFeed
  <2>1. PICK t \in Thread : /\ reader' = reader \o held[t]
                            /\ held' = [held EXCEPT ![t] = <<>>] /\ socket' = socket
    BY <1>h, <1>4 DEF IoFeed, ThreadFeed, Feed
  <2>2. Copies(held'[t], r) = 0
    BY <1>h, <2>1, CopiesEmpty
  <2>3. Copies(reader', r) = Copies(reader, r) + Copies(held[t], r)
    BY <1>s, <1>h, <2>1, CopiesConcat
  <2>4. OnWay(r)' = OnWay(r)
    <3>1. CASE t = "io"
      <4>1. held'["subscriber"] = held["subscriber"]
        BY <1>h, <2>1, <3>1
      <4> QED BY <1>e, <2>1, <2>2, <2>3, <3>1, <4>1 DEF OnWay
    <3>2. CASE t = "subscriber"
      <4>1. held'["io"] = held["io"]
        BY <1>h, <2>1, <3>2
      <4> QED BY <1>e, <2>1, <2>2, <2>3, <3>2, <4>1 DEF OnWay
    <3> QED BY <1>h, <3>1, <3>2
  <2>5. Taken(r)' = Taken(r) /\ Sent(r)' = Sent(r)
    BY <1>4 DEF IoFeed, ThreadFeed, Taken, Sent, queueVars, redisVars
  <2> QED BY <1>e, <2>4, <2>5
<1>5. CASE IoTake
  <2>1. main = "take" /\ answer = None /\ None # r
    BY <1>t, <1>5, Constants DEF IoTake, Basic, StageInv, Unasked
  <2>2. /\ held' = held /\ socket' = socket /\ ignored' = ignored /\ fate' = fate
        /\ delivered' = delivered /\ subscribed' = subscribed
    BY <1>5 DEF IoTake, queueVars, redisVars
  <2>3. CASE reader = <<>>
    <3>1. reader' = reader /\ answer' = answer
      BY <1>5, <2>3 DEF IoTake
    <3> QED BY <1>e, <2>2, <3>1 DEF OnWay, Taken, Sent
  <2>4. CASE reader # <<>>
    <3>1. answer' = Head(reader) /\ reader' = Tail(reader)
      BY <1>5, <2>4 DEF IoTake
    <3>2. Copies(reader, r) = (IF Head(reader) = r THEN 1 ELSE 0) + Copies(reader', r)
      BY <1>s, <2>4, <3>1, CopiesHeadTail
    <3>3. Taken(r)' = Taken(r) + (IF Head(reader) = r THEN 1 ELSE 0)
      BY <2>1, <2>2, <3>1 DEF Taken
    <3>4. OnWay(r) = OnWay(r)' + (IF Head(reader) = r THEN 1 ELSE 0) /\ OnWay(r)' \in Nat
      <4>1. Copies(reader', r) \in Nat
        BY <1>n, CopiesType
      <4> QED BY <1>e, <2>2, <3>2, <4>1 DEF OnWay
    <3>5. Sent(r)' = Sent(r)
      BY <2>2 DEF Sent
    <3> QED BY <1>e, <1>k, <3>3, <3>4, <3>5
  <2> QED BY <2>3, <2>4
<1>6. CASE HandleReply
  <2> DEFINE h == Head(reader)
  <2>1. /\ reader # <<>> /\ h \in Reply /\ h \in Range(reader)
        /\ reader' = Tail(reader) /\ socket' = socket /\ held' = held
        /\ answer' = answer /\ delivered' = delivered /\ subscribed' = subscribed
    BY <1>t, <1>6, HandleFacts
  <2>2. h \notin ignored /\ (h \in Message => fate[h] = "new")
    BY <1>t, <2>1, OnTheWay DEF Basic
  <2>3. Copies(reader, r) = (IF h = r THEN 1 ELSE 0) + Copies(reader', r)
    BY <1>s, <2>1, CopiesHeadTail
  <2>4. OnWay(r) = OnWay(r)' + (IF h = r THEN 1 ELSE 0) /\ OnWay(r)' \in Nat
    <3>1. Copies(reader', r) \in Nat
      BY <1>n, CopiesType
    <3> HIDE DEF h
    <3> QED BY <1>e, <2>1, <2>3, <3>1 DEF OnWay
  <2>5. Taken(r)' = Taken(r) + (IF h = r THEN 1 ELSE 0)
    <3>1. CASE /\ h \in Message \ Blank
               /\ fate' = [fate EXCEPT ![h] = "pending"] /\ ignored' = ignored
      <4> HIDE DEF h
      <4>1. r \in Message => fate'[r] = IF h = r THEN "pending" ELSE fate[r]
        BY <1>f, <3>1
      <4> QED BY <2>1, <2>2, <3>1, <4>1 DEF Taken
    <3>2. CASE /\ h \in Blank \cup {Confirmed}
               /\ fate' = fate /\ ignored' = ignored \cup {h}
      <4> HIDE DEF h
      <4> QED BY <2>1, <2>2, <3>2 DEF Taken
    <3> QED BY <1>t, <1>6, <3>1, <3>2, HandleFacts
  <2>6. Sent(r)' = Sent(r)
    BY <2>1 DEF Sent
  <2> HIDE DEF h
  <2> QED BY <1>e, <1>k, <2>4, <2>5, <2>6
<1>7. CASE Dispatch
  <2>1. OnWay(r)' = OnWay(r) /\ Sent(r)' = Sent(r)
    BY <1>7 DEF Dispatch, OnWay, Sent, wire, redisVars
  <2>2. answer' = answer /\ ignored' = ignored
    BY <1>7 DEF Dispatch
  <2>3. /\ pending # <<>> /\ Head(pending) \in Message
        /\ fate' = [fate EXCEPT ![Head(pending)] = "run"]
    BY <1>t, <1>7, DispatchRuns DEF Basic
  <2>4. fate[Head(pending)] # "new"
    <3>1. pending \in Seq(Message)
      BY <1>t DEF Basic, TypeOK
    <3>2. Head(pending) \in Range(pending)
      BY <2>3, <3>1, HeadIsInRange
    <3> QED BY <1>t, <3>2 DEF PendingInv, Range
  <2>5. r \in Message => (fate'[r] = "new" <=> fate[r] = "new")
    BY <1>f, <2>3, <2>4
  <2>6. Taken(r)' = Taken(r)
    BY <2>2, <2>5 DEF Taken
  <2> QED BY <1>e, <2>1, <2>6
<1> QED BY <1>1, <1>2, <1>3, <1>4, <1>5, <1>6, <1>7 DEF Move

\* The path is a sequence of replies, and so are its parts.
LEMMA PathType ==
  ASSUME Basic
  PROVE  /\ pending \in Seq(Reply) /\ reader \in Seq(Reply)
         /\ held["subscriber"] \in Seq(Reply) /\ socket \in Seq(Reply)
         /\ held["subscriber"] \o socket \in Seq(Reply)
         /\ reader \o (held["subscriber"] \o socket) \in Seq(Reply)
         /\ Path \in Seq(Reply)
<1>1. /\ reader \in Seq(Reply) /\ held["subscriber"] \in Seq(Reply) /\ socket \in Seq(Reply)
  BY DEF Basic, TypeOK, Thread
<1>2. pending \in Seq(Reply)
  <2>1. pending \in Seq(Message) /\ Message \subseteq Reply
    BY Constants DEF Basic, TypeOK
  <2> QED BY <2>1, SeqMonotonic
<1> QED BY <1>1, <1>2, ConcatProperties DEF Path

\* Appending to the second of two sequences appends to both.
LEMMA ConcatAppend ==
  ASSUME NEW S, NEW s \in Seq(S), NEW t \in Seq(S), NEW e \in S
  PROVE  s \o Append(t, e) = Append(s \o t, e)
<1>1. /\ Append(t, e) = t \o <<e>> /\ <<e>> \in Seq(S) /\ s \o t \in Seq(S)
      /\ Append(s \o t, e) = (s \o t) \o <<e>>
  BY AppendIsConcat, ConcatProperties
<1>2. (s \o t) \o <<e>> = s \o (t \o <<e>>)
  BY <1>1, ConcatAssociative
<1> QED BY <1>1, <1>2, Zenon

\* The path holds what its four parts hold.
LEMMA PathRange ==
  ASSUME Basic
  PROVE  Range(Path) = Range(pending) \cup (Range(reader)
                         \cup (Range(held["subscriber"]) \cup Range(socket)))
<1>1. /\ pending \in Seq(Reply) /\ reader \in Seq(Reply)
      /\ held["subscriber"] \in Seq(Reply) /\ socket \in Seq(Reply)
      /\ held["subscriber"] \o socket \in Seq(Reply)
      /\ reader \o (held["subscriber"] \o socket) \in Seq(Reply)
  BY PathType
<1>r. \A s, t \in Seq(Reply) : Range(s \o t) = Range(s) \cup Range(t)
  BY RangeConcatenation
<1>2. Range(held["subscriber"] \o socket) = Range(held["subscriber"]) \cup Range(socket)
  BY <1>1, <1>r, Zenon
<1>3. Range(reader \o (held["subscriber"] \o socket))
        = Range(reader) \cup Range(held["subscriber"] \o socket)
  BY <1>1, <1>r, Zenon
<1>4. Range(Path) = Range(pending) \cup Range(reader \o (held["subscriber"] \o socket))
  BY <1>1, <1>r, Zenon DEF Path
<1> QED BY <1>2, <1>3, <1>4

\* Every message on the way, and every one that became a task, was sent.
LEMMA PathIsSent ==
  ASSUME IInv, NEW m \in Message, m \in Range(Path) \/ fate[m] # "new"
  PROVE  m \in delivered
<1>b. Basic /\ InOnePlace /\ PendingInv /\ m \in Reply /\ m # Confirmed
  BY Constants DEF IInv, Basic
<1>1. ASSUME fate[m] # "new" PROVE m \in delivered
  <2>1. /\ OnWay(m) + Taken(m) = Sent(m)
        /\ Copies(socket, m) \in Nat /\ Copies(held["io"], m) \in Nat
        /\ Copies(held["subscriber"], m) \in Nat /\ Copies(reader, m) \in Nat
    BY <1>b, InOnePlaceIsPlaced DEF Placed, Basic
  <2>2. OnWay(m) \in Nat /\ Taken(m) \in Nat \ {0}
    BY <1>1, <2>1 DEF OnWay, Taken
  <2>3. Sent(m) # 0
    BY <2>1, <2>2
  <2> QED BY <1>b, <2>3 DEF Sent
<1>2. ASSUME m \in Range(reader) \cup Range(held["subscriber"]) \cup Range(socket)
      PROVE  m \in delivered
  BY <1>b, <1>2, OnTheWay DEF Basic
<1>3. ASSUME m \in Range(pending) PROVE m \in delivered
  BY <1>b, <1>1, <1>3 DEF PendingInv, Range
<1>4. Range(Path) = Range(pending) \cup (Range(reader) \cup (Range(held["subscriber"]) \cup Range(socket)))
  BY <1>b, PathRange
<1> QED BY <1>1, <1>2, <1>3, <1>4

\* What leaves the way leaves the others in their order.
LEMMA StillInOrder ==
  ASSUME IInv, Path' \in Seq(Reply), online' = online,
         NEW n \in Nat,
         Len(Path') <= Len(Path),
         \A i \in 1 .. Len(Path') :
           /\ i <= n => Path'[i] = Path[i]
           /\ i > n  => Path'[i] = Path[i + 1] /\ i + 1 <= Len(Path),
         \A m \in online : fate'[m] = "run" =>
           fate[m] = "run" \/ (n = 0 /\ Len(Path) > 0 /\ m = Path[1])
  PROVE  OrderInv'
<1>1. Path \in Seq(Reply) /\ Len(Path) \in Nat /\ DOMAIN Path = 1 .. Len(Path)
  BY PathType, LenProperties DEF IInv, Basic
<1>2. Len(Path') \in Nat /\ DOMAIN Path' = 1 .. Len(Path')
  BY LenProperties
<1>3. ASSUME NEW i \in DOMAIN Path', NEW j \in DOMAIN Path',
             i < j, Path'[i] \in online, Path'[j] \in online
      PROVE  Path'[i] < Path'[j]
  <2> DEFINE a == IF i <= n THEN i ELSE i + 1
             b == IF j <= n THEN j ELSE j + 1
  <2>1. a \in DOMAIN Path /\ b \in DOMAIN Path /\ a < b
    BY <1>1, <1>2, <1>3
  <2>2. Path'[i] = Path[a] /\ Path'[j] = Path[b]
    BY <1>2
  <2> HIDE DEF a, b
  <2> QED BY <1>3, <2>1, <2>2 DEF IInv, OrderInv
<1>4. ASSUME NEW i \in DOMAIN Path', NEW m \in online, fate'[m] = "run", Path'[i] \in online
      PROVE  m < Path'[i]
  <2> DEFINE a == IF i <= n THEN i ELSE i + 1
  <2>1. a \in DOMAIN Path /\ Path'[i] = Path[a]
    BY <1>1, <1>2
  <2>2. n = 0 => a > 1
    BY <1>2
  <2> HIDE DEF a
  <2>3. CASE fate[m] = "run"
    BY <1>4, <2>1, <2>3 DEF IInv, OrderInv
  <2>4. CASE n = 0 /\ Len(Path) > 0 /\ m = Path[1]
    <3>1. 1 \in DOMAIN Path
      BY <1>1, <2>4
    <3> QED BY <1>1, <1>4, <2>1, <2>2, <2>4, <3>1 DEF IInv, OrderInv
  <2> QED BY <1>4, <2>3, <2>4
<1> QED BY <1>3, <1>4 DEF OrderInv

\* A reply that moves keeps its place in the order.
LEMMA MovesOrder ==
  ASSUME IInv, Move, Basic' PROVE OrderInv'
<1>t. Basic /\ InOnePlace /\ OrderInv /\ HeldInv
  BY DEF IInv, Basic
<1>s. /\ pending \in Seq(Reply) /\ reader \in Seq(Reply)
      /\ held["subscriber"] \in Seq(Reply) /\ socket \in Seq(Reply)
      /\ held["subscriber"] \o socket \in Seq(Reply)
      /\ reader \o (held["subscriber"] \o socket) \in Seq(Reply)
      /\ Path \in Seq(Reply)
  BY <1>t, PathType
<1>h. held \in [Thread -> Seq(Reply)] /\ Thread = {"io", "subscriber"}
  BY <1>t DEF Basic, TypeOK, Thread
<1>n. Path' \in Seq(Reply)
  <2>1. Basic' => /\ pending' \in Seq(Reply) /\ reader' \in Seq(Reply)
                  /\ held'["subscriber"] \in Seq(Reply) /\ socket' \in Seq(Reply)
    <3>1. pending' \in Seq(Message) /\ Message \subseteq Reply
      BY Constants DEF Basic, TypeOK
    <3> QED BY <3>1, SeqMonotonic DEF Basic, TypeOK, Thread
  <2>2. held'["subscriber"] \o socket' \in Seq(Reply)
    BY <2>1, ConcatProperties
  <2>3. reader' \o (held'["subscriber"] \o socket') \in Seq(Reply)
    BY <2>1, <2>2, ConcatProperties
  <2> QED BY <2>1, <2>3, ConcatProperties DEF Path
<1>a. \A s, t, u \in Seq(Reply) : (s \o t) \o u = s \o (t \o u)
  BY ConcatAssociative
<1>1. ASSUME online = {}, online' = {} PROVE OrderInv'
  BY <1>1 DEF OrderInv
<1>2. ASSUME Path' = Path, online' = online, \A m \in online : fate'[m] = "run" => fate[m] = "run"
      PROVE  OrderInv'
  BY <1>t, <1>2 DEF OrderInv
<1>3. CASE Confirm \/ IoRecv \/ IoFeed \/ IoTake
  <2>1. online = {}
    BY <1>t, <1>3 DEF Confirm, IoRecv, IoFeed, IoTake, GoOn, Basic, StageInv, TypeOK
  <2>2. online' = online
    BY <1>3 DEF Confirm, IoRecv, IoFeed, IoTake, redisVars
  <2> QED BY <1>1, <2>1, <2>2
<1>4. CASE Publish
  <2>1. /\ published' = published + 1 /\ published' \in Reply
        /\ held' = held /\ reader' = reader /\ pending' = pending /\ fate' = fate
    BY <1>t, <1>4, PublishFacts, Constants
  <2>2. CASE socket' = socket /\ online' = online
    <3>1. Path' = Path
      BY <2>1, <2>2 DEF Path
    <3> QED BY <1>2, <2>1, <2>2, <3>1
  <2>3. CASE socket' = Append(socket, published') /\ online' \in {online, online \cup {published'}}
    <3> DEFINE new == published'
    <3>1. Path' = Append(Path, new)
      <4>a. \A s, t \in Seq(Reply), e \in Reply : s \o Append(t, e) = Append(s \o t, e)
        BY ConcatAppend
      <4>1. held["subscriber"] \o Append(socket, new) = Append(held["subscriber"] \o socket, new)
        BY <1>s, <2>1, <4>a, Zenon
      <4>2. reader \o Append(held["subscriber"] \o socket, new)
              = Append(reader \o (held["subscriber"] \o socket), new)
        BY <1>s, <2>1, <4>a, Zenon
      <4>3. pending \o Append(reader \o (held["subscriber"] \o socket), new) = Append(Path, new)
        BY <1>s, <2>1, <4>a, Zenon DEF Path
      <4> QED BY <2>1, <2>3, <4>1, <4>2, <4>3 DEF Path
    <3>2. \A m \in online : m \in Nat /\ m < new
      BY <1>t, <2>1 DEF Basic, TypeOK
    <3>3. new \in Message /\ new \in Nat /\ new \notin delivered
      BY <1>t, <1>4, PublishFacts, Constants
    <3>4. /\ Len(Path) \in Nat /\ DOMAIN Path = 1 .. Len(Path)
          /\ DOMAIN Path' = 1 .. Len(Path) + 1 /\ Path'[Len(Path) + 1] = new
          /\ \A i \in 1 .. Len(Path) : Path'[i] = Path[i]
      BY <1>s, <2>1, <3>1, AppendProperties, LenProperties
    <3>5. fate[new] # "run" /\ \A i \in DOMAIN Path : Path[i] # new
      BY <3>3, PathIsSent DEF Range
    <3> HIDE DEF new
    <3>6. ASSUME NEW i \in DOMAIN Path', NEW j \in DOMAIN Path', i < j,
                 Path'[i] \in online', Path'[j] \in online'
          PROVE  Path'[i] < Path'[j]
      <4>1. i \in DOMAIN Path /\ Path'[i] = Path[i] /\ Path[i] \in online
        BY <2>3, <3>4, <3>5, <3>6 DEF new
      <4>2. CASE j = Len(Path) + 1
        BY <3>2, <3>4, <4>1, <4>2
      <4>3. CASE j # Len(Path) + 1
        <5>1. j \in DOMAIN Path /\ Path'[j] = Path[j] /\ Path[j] \in online
          BY <2>3, <3>4, <3>5, <3>6, <4>3 DEF new
        <5> QED BY <1>t, <3>6, <4>1, <5>1 DEF OrderInv
      <4> QED BY <4>2, <4>3
    <3>7. ASSUME NEW i \in DOMAIN Path', NEW m \in online', fate'[m] = "run", Path'[i] \in online'
          PROVE  m < Path'[i]
      <4>1. m \in online /\ fate[m] = "run"
        BY <2>1, <2>3, <3>5, <3>7 DEF new
      <4>2. CASE i = Len(Path) + 1
        BY <3>2, <3>4, <4>1, <4>2
      <4>3. CASE i # Len(Path) + 1
        <5>1. i \in DOMAIN Path /\ Path'[i] = Path[i] /\ Path[i] \in online
          BY <2>3, <3>4, <3>5, <3>7, <4>3 DEF new
        <5> QED BY <1>t, <4>1, <5>1 DEF OrderInv
      <4> QED BY <4>2, <4>3
    <3> QED BY <3>6, <3>7 DEF OrderInv
  <2> QED BY <1>t, <1>4, <2>2, <2>3, PublishFacts
<1>5. CASE ThreadRecv
  <2>1. /\ held["subscriber"] = <<>> /\ held'["subscriber"] = socket /\ socket' = <<>>
        /\ reader' = reader /\ pending' = pending /\ fate' = fate /\ online' = online
    BY <1>t, <1>h, <1>5 DEF ThreadRecv, Recv, Step, HeldInv, queueVars, redisVars
  <2>2. <<>> \o socket = socket /\ socket \o <<>> = socket
    BY <1>s, ConcatEmptySeq
  <2>3. Path' = Path
    BY <2>1, <2>2 DEF Path
  <2> QED BY <1>2, <2>1, <2>3
<1>6. CASE ThreadFeed
  <2> DEFINE h == held["subscriber"]
  <2>1. /\ reader' = reader \o h /\ held'["subscriber"] = <<>> /\ socket' = socket
        /\ pending' = pending /\ fate' = fate /\ online' = online
    BY <1>h, <1>6 DEF ThreadFeed, Feed, queueVars, redisVars
  <2>2. <<>> \o socket = socket
    BY <1>s, ConcatEmptySeq
  <2>3. (reader \o h) \o socket = reader \o (h \o socket)
    <3>1. reader \in Seq(Reply) /\ h \in Seq(Reply) /\ socket \in Seq(Reply)
      BY <1>s
    <3> HIDE DEF h
    <3> QED BY <1>a, <3>1, Zenon
  <2>4. Path' = Path
    BY <2>1, <2>2, <2>3 DEF Path
  <2> QED BY <1>2, <2>1, <2>4
<1>7. CASE HandleReply
  <2> DEFINE r == Head(reader)
             X == held["subscriber"] \o socket
             Y == Tail(reader) \o X
  <2>1. /\ reader # <<>> /\ r \in Reply /\ reader' = Tail(reader) /\ reader' \in Seq(Reply)
        /\ socket' = socket /\ held' = held /\ online' = online
    BY <1>t, <1>s, <1>7, HandleFacts, HeadTailProperties
  <2>2. X \in Seq(Reply) /\ Y \in Seq(Reply) /\ <<r>> \in Seq(Reply)
    <3>1. X \in Seq(Reply)
      BY <1>s
    <3>2. Y \in Seq(Reply)
      BY <2>1, <3>1, ConcatProperties
    <3> QED BY <2>1, <3>1, <3>2
  <2>3. reader \o X = <<r>> \o Y
    <3>1. reader = <<r>> \o Tail(reader)
      BY <1>s, <2>1
    <3>2. (<<r>> \o Tail(reader)) \o X = <<r>> \o Y
      <4>1. Tail(reader) \in Seq(Reply)
        BY <2>1
      <4> QED BY <1>a, <2>2, <4>1, Zenon
    <3> QED BY <3>1, <3>2, Zenon
  <2>4. Path = pending \o (<<r>> \o Y) /\ Path' = pending' \o Y
    BY <2>1, <2>3 DEF Path
  <2>5. CASE pending' = Append(pending, r) /\ fate' = [fate EXCEPT ![r] = "pending"]
    <3>1. Append(pending, r) = pending \o <<r>>
      BY <1>s, <2>1, AppendIsConcat
    <3>2. (pending \o <<r>>) \o Y = pending \o (<<r>> \o Y)
      <4>1. pending \in Seq(Reply)
        BY <1>s
      <4> HIDE DEF r, Y
      <4> QED BY <1>a, <2>2, <4>1, Zenon
    <3>3. Path' = Path
      BY <2>4, <2>5, <3>1, <3>2, Zenon
    <3>4. \A m \in online : fate'[m] = "run" => fate[m] = "run"
      <4>1. fate \in [Message \cup {Farewell} -> {"new", "pending", "run"}] /\ online \subseteq Message
        BY <1>t, Constants DEF Basic, TypeOK, Message
      <4> HIDE DEF r
      <4> QED BY <2>5, <4>1
    <3> QED BY <1>2, <2>1, <3>3, <3>4
  <2>6. CASE pending' = pending /\ fate' = fate
    <3> HIDE DEF r, X, Y
    <3> DEFINE n == Len(pending)
    <3>1. n \in Nat /\ Len(Y) \in Nat
      BY <1>s, <2>2, LenProperties
    <3>2. /\ <<r>> \o Y \in Seq(Reply) /\ Len(<<r>> \o Y) = 1 + Len(Y)
          /\ \A i \in 1 .. Len(Y) : (<<r>> \o Y)[i + 1] = Y[i]
      BY <2>2, <3>1, ConcatProperties
    <3>3. /\ Len(Path) = n + (1 + Len(Y)) /\ Len(Path') = n + Len(Y)
          /\ \A i \in 1 .. n + (1 + Len(Y)) :
               Path[i] = IF i <= n THEN pending[i] ELSE (<<r>> \o Y)[i - n]
          /\ \A i \in 1 .. n + Len(Y) : Path'[i] = IF i <= n THEN pending[i] ELSE Y[i - n]
      <4>1. \A s, t \in Seq(Reply) :
              /\ Len(s \o t) = Len(s) + Len(t)
              /\ \A i \in 1 .. Len(s) + Len(t) :
                   (s \o t)[i] = IF i <= Len(s) THEN s[i] ELSE t[i - Len(s)]
        BY ConcatProperties
      <4>2. /\ Len(pending \o (<<r>> \o Y)) = n + Len(<<r>> \o Y)
            /\ \A i \in 1 .. n + Len(<<r>> \o Y) :
                 (pending \o (<<r>> \o Y))[i] = IF i <= n THEN pending[i] ELSE (<<r>> \o Y)[i - n]
        BY <1>s, <3>2, <4>1, Zenon
      <4>3. /\ Len(pending \o Y) = n + Len(Y)
            /\ \A i \in 1 .. n + Len(Y) :
                 (pending \o Y)[i] = IF i <= n THEN pending[i] ELSE Y[i - n]
        BY <1>s, <2>2, <4>1, Zenon
      <4>4. Path' = pending \o Y
        BY <2>4, <2>6
      <4> QED BY <2>4, <3>2, <4>2, <4>3, <4>4
    <3>4. \A i \in 1 .. Len(Path') :
            /\ i <= n => Path'[i] = Path[i]
            /\ i > n  => Path'[i] = Path[i + 1] /\ i + 1 <= Len(Path)
      <4> SUFFICES ASSUME NEW i \in 1 .. n + Len(Y)
                   PROVE  /\ i <= n => Path'[i] = Path[i]
                          /\ i > n  => Path'[i] = Path[i + 1] /\ i + 1 <= Len(Path)
        BY <3>3
      <4> HIDE DEF n
      <4>1. CASE i <= n
        <5>1. i \in 1 .. n + (1 + Len(Y))
          BY <3>1, <4>1
        <5> QED BY <3>1, <3>3, <4>1, <5>1
      <4>2. CASE i > n
        <5>1. i + 1 \in 1 .. n + (1 + Len(Y)) /\ i - n \in 1 .. Len(Y) /\ ~(i + 1 <= n) /\ ~(i <= n)
          BY <3>1, <4>2
        <5>2. Path[i + 1] = (<<r>> \o Y)[(i + 1) - n] /\ Path'[i] = Y[i - n]
          BY <3>3, <5>1
        <5>3. (i + 1) - n = (i - n) + 1
          BY <3>1
        <5>4. Path'[i] = Path[i + 1]
          BY <3>2, <5>1, <5>2, <5>3
        <5>5. i + 1 <= Len(Path)
          BY <3>1, <3>3, <5>1
        <5> QED BY <5>1, <5>4, <5>5
      <4> QED BY <3>1, <4>1, <4>2
    <3> HIDE DEF n
    <3>5. Len(Path') <= Len(Path)
      BY <3>1, <3>3
    <3> QED BY <1>n, <2>1, <2>6, <3>1, <3>4, <3>5, StillInOrder
  <2> QED BY <1>t, <1>7, <2>5, <2>6, HandleFacts
<1>8. CASE Dispatch
  <2> DEFINE R == reader \o (held["subscriber"] \o socket)
  <2>1. /\ pending # <<>> /\ pending' = Tail(pending) /\ Head(pending) \in Message
        /\ fate' = [fate EXCEPT ![Head(pending)] = "run"]
    BY <1>t, <1>8, DispatchRuns DEF Basic
  <2>2. socket' = socket /\ held' = held /\ reader' = reader /\ online' = online
    BY <1>8 DEF Dispatch, wire, redisVars
  <2>3. Path = pending \o R /\ Path' = Tail(pending) \o R
    BY <2>1, <2>2 DEF Path
  <2>4. R \in Seq(Reply)
    BY <1>s
  <2> HIDE DEF R
  <2>5. /\ Tail(pending) \in Seq(Reply) /\ Len(pending) \in Nat \ {0} /\ Len(R) \in Nat
        /\ Len(Tail(pending)) = Len(pending) - 1 /\ Head(pending) = pending[1]
        /\ \A i \in 1 .. Len(pending) - 1 : Tail(pending)[i] = pending[i + 1]
    BY <1>s, <2>1, <2>4
  <2>6. \A s, t \in Seq(Reply) :
          /\ Len(s \o t) = Len(s) + Len(t)
          /\ \A i \in 1 .. Len(s) + Len(t) :
               (s \o t)[i] = IF i <= Len(s) THEN s[i] ELSE t[i - Len(s)]
    BY ConcatProperties
  <2>7. /\ Len(Path) = Len(pending) + Len(R)
        /\ \A i \in 1 .. Len(pending) + Len(R) :
             Path[i] = IF i <= Len(pending) THEN pending[i] ELSE R[i - Len(pending)]
    BY <1>s, <2>3, <2>4, <2>6, Zenon
  <2>8. /\ Len(Path') = Len(Tail(pending)) + Len(R)
        /\ \A i \in 1 .. Len(Tail(pending)) + Len(R) :
             Path'[i] = IF i <= Len(Tail(pending)) THEN Tail(pending)[i]
                                                   ELSE R[i - Len(Tail(pending))]
    BY <2>3, <2>4, <2>5, <2>6, Zenon
  <2>9. \A i \in 1 .. Len(Path') :
          /\ i <= 0 => Path'[i] = Path[i]
          /\ i > 0  => Path'[i] = Path[i + 1] /\ i + 1 <= Len(Path)
    <3> SUFFICES ASSUME NEW i \in 1 .. (Len(pending) - 1) + Len(R)
                 PROVE  Path'[i] = Path[i + 1] /\ i + 1 <= Len(Path)
      BY <2>5, <2>8
    <3>1. i + 1 \in 1 .. Len(pending) + Len(R)
      BY <2>5
    <3>2. CASE i <= Len(pending) - 1
      BY <2>5, <2>7, <2>8, <3>1, <3>2
    <3>3. CASE ~(i <= Len(pending) - 1)
      <4>1. (i + 1) - Len(pending) = i - (Len(pending) - 1) /\ ~(i + 1 <= Len(pending))
        BY <2>5, <3>3
      <4> QED BY <2>5, <2>7, <2>8, <3>1, <3>3, <4>1
    <3> QED BY <3>2, <3>3
  <2>10. Len(Path') <= Len(Path) /\ Len(Path) > 0 /\ Path[1] = Head(pending)
    BY <2>5, <2>7, <2>8
  <2>11. \A m \in online : fate'[m] = "run" => fate[m] = "run" \/ m = Path[1]
    <3>1. fate \in [Message \cup {Farewell} -> {"new", "pending", "run"}] /\ online \subseteq Message
      BY <1>t, Constants DEF Basic, TypeOK, Message
    <3> QED BY <2>1, <2>10, <3>1
  <2> QED BY <1>n, <2>2, <2>9, <2>10, <2>11, StillInOrder
<1> QED BY <1>3, <1>4, <1>5, <1>6, <1>7, <1>8 DEF Move

\* Every step keeps the invariant.
LEMMA IInvNext == IInv /\ [Next]_vars => IInv'
<1> SUFFICES ASSUME IInv, [Next]_vars PROVE IInv'
  OBVIOUS
<1>1. CASE Move
  <2>1. Basic'
    BY <1>1, MovesBasic DEF IInv, Basic, Move
  <2> QED BY <1>1, <2>1, MovesPending, MovesFirst, MovesOrder, MovesPlace, MovesTaken
          DEF IInv, Basic
<1>2. CASE \/ Succeed \/ Return \/ StartSubscriber \/ StartDispatcher \/ LoadModules
           \/ ConnectCallback \/ Serve \/ Break \/ SendSubscribe \/ SubscribeFails
           \/ Select \/ ReadFails \/ NoMoreReplies \/ SelectFails \/ UNCHANGED vars
  <2>1. Basic'
    BY <1>2, QuietBasic DEF IInv, Basic
  <2>2. PendingInv' /\ FirstInv' /\ OrderInv' /\ InOnePlace' /\ TakenOnlyWhenRaced'
    BY <1>2, QuietUnchanged, QuietRest
  <2> QED BY <2>1, <2>2 DEF IInv, Basic
<1> QED BY <1>1, <1>2 DEF Next, Io, ThreadMain, Move

\* Every reachable state satisfies the invariant.
THEOREM Invariance == Spec => []IInv
BY IInvInit, IInvNext, PTL DEF Spec

-----------------------------------------------------------------------------
(* Theorems *)

\* The process's stages, its threads and the ways of a reply are as declared,
\* for any number of messages.
THEOREM TypeCorrect == Spec => []TypeOK
<1>1. IInv => TypeOK
  BY DEF IInv
<1> QED BY <1>1, Invariance, PTL

\* No message meets a dispatcher that does not run, although the subscriber's
\* thread is started before the dispatcher's (Redis::connect).
THEOREM NeverRefused == Spec => []NothingRefused
<1>1. IInv => NothingRefused
  BY DEF IInv, TypeOK, NothingRefused
<1> QED BY <1>1, Invariance, PTL

\* The two readers lose no reply, and neither takes what the other has
\* (RedisSubscriber::subscribe, threadMain).
THEOREM NoneLostOrTakenTwice == Spec => []InOnePlace
<1>1. IInv => InOnePlace
  BY DEF IInv
<1> QED BY <1>1, Invariance, PTL

\* subscribe() takes a message for its confirmation in one case only.
THEOREM OnlyRaceTakesMessage == Spec => []TakenOnlyWhenRaced
<1>1. IInv => TakenOnlyWhenRaced
  BY DEF IInv
<1> QED BY <1>1, Invariance, PTL

\* A message that the server got is on its way, was taken, or is a task's.
LEMMA SentIsSomewhere ==
  ASSUME IInv, NEW m \in delivered
  PROVE  \/ m \in Range(reader) \cup Range(held["subscriber"]) \cup Range(socket)
         \/ m \in Range(held["io"]) \/ answer = m \/ m \in ignored \/ fate[m] # "new"
<1>1. m \in Reply /\ TypeOK /\ InOnePlace
  BY Constants DEF IInv, TypeOK, Message, Reply
<1>2. /\ OnWay(m) + Taken(m) = Sent(m)
      /\ Copies(socket, m) \in Nat /\ Copies(held["io"], m) \in Nat
      /\ Copies(held["subscriber"], m) \in Nat /\ Copies(reader, m) \in Nat
  BY <1>1, InOnePlaceIsPlaced DEF Placed
<1>3. Sent(m) = 1
  BY DEF Sent
<1>4. CASE Taken(m) = 0
  <2>1. \/ Copies(socket, m) # 0 \/ Copies(held["io"], m) # 0
        \/ Copies(held["subscriber"], m) # 0 \/ Copies(reader, m) # 0
    BY <1>2, <1>3, <1>4 DEF OnWay
  <2>2. /\ socket \in Seq(Reply) /\ held["io"] \in Seq(Reply)
        /\ held["subscriber"] \in Seq(Reply) /\ reader \in Seq(Reply)
    BY <1>1 DEF TypeOK, Thread
  <2> QED BY <2>1, <2>2, CopiesType
<1>5. CASE Taken(m) # 0
  BY <1>5 DEF Taken
<1> QED BY <1>4, <1>5

\* Messages published while the server serves are handled in order, whatever
\* the race at startup left behind (threadMain, Dispatcher::threadMain).
THEOREM InOrder == Spec => []OnlineInOrder
<1>1. IInv => OnlineInOrder
  <2> SUFFICES ASSUME IInv, NEW i \in online \ Blank, NEW j \in online \ Blank,
                      i < j, fate[j] = "run"
               PROVE  fate[i] = "run"
    BY DEF OnlineInOrder
  <2>1. Basic /\ PendingInv /\ OrderInv
    BY DEF IInv, Basic
  <2>2. main = "serving" /\ held["io"] = <<>> /\ answer # i
    BY <2>1 DEF Basic, StageInv, HeldInv
  <2>3. i \in Message /\ i \notin ignored /\ i \in Nat /\ j \in Nat /\ i \in delivered
    BY <2>1, Constants DEF Basic, TypeOK, Message
  <2>4. fate[i] \in {"new", "pending", "run"}
    BY <2>1, <2>3 DEF Basic, TypeOK
  <2>5. Range(<<>>) = {}
    BY DEF Range
  <2>6. fate[i] = "run" \/ i \in Range(Path)
    BY <2>1, <2>2, <2>3, <2>4, <2>5, SentIsSomewhere, PathRange DEF PendingInv
  <2>7. ASSUME NEW k \in DOMAIN Path, Path[k] = i PROVE FALSE
    BY <2>1, <2>3, <2>7 DEF OrderInv
  <2> QED BY <2>6, <2>7 DEF Range
<1> QED BY <1>1, Invariance, PTL
=============================================================================
