------------------------- MODULE LoginRequestProofs -------------------------
(* Answers reach who asked, once, for any number of clients, requests and    *)
(* restarts.                                                                 *)
EXTENDS LoginRequest, TLAPS

\* Ids above the generator's are unused in this life.
IdInv ==
  /\ \A i \in Id : i > generator => callbacks[i] = None
  /\ \A r \in central \cup answers :
        /\ r.life <= life
        /\ r.life = life => r.id <= generator
  /\ handling \in Request => handling.id <= generator /\ handling.life <= life

\* While a question is being asked its callback is there, unless an answer
\* meant for an earlier life has used it up.
AskInv ==
  /\ asking # "idle" => generator \in Id
  /\ asking = "publish" =>
        /\ asker \in Client
        /\ callbacks[generator] \in {asker, None}
        /\ callbacks[generator] = asker \/ generator \in done
  /\ asking = "withdraw" => generator \in done

\* A callback that is found for an answer of this life is the asker's.
CallbackInv ==
  /\ \A r \in central \cup answers :
        r.life = life => callbacks[r.id] \in {r.client, None}
  /\ callback # None =>
        /\ handling \in Request
        /\ handling.life = life => callback = handling.client

\* A callback that has sent a host is gone or about to be forgotten.
OnceInv ==
  \A n \in 1 .. Len(sent) :
     /\ sent[n].life <= life
     /\ sent[n].life = life =>
           /\ sent[n].id <= generator
           /\ callback # None => sent[n].id # handling.id
           /\ \/ callbacks[sent[n].id] = None
              \/ handling \in Request /\ handling.id = sent[n].id

IInv == /\ TypeOK /\ IdInv /\ AskInv /\ CallbackInv /\ OnceInv
        /\ AnswerReachesAsker /\ AnsweredOnce /\ AnswerFindsCallback


\* What the log of sent hosts is made of.
LEMMA SentEntries ==
  ASSUME TypeOK
  PROVE  \A n \in 1 .. Len(sent) :
            sent[n] \in Sent /\ sent[n].id \in Id /\ sent[n].life \in Life
<1>1. \A n \in 1 .. Len(sent) : sent[n] \in Sent
  BY DEF TypeOK
<1> QED BY <1>1 DEF Sent

\* The invariant holds of the first process.
LEMMA InitIInv == Init => IInv
<1> SUFFICES ASSUME Init PROVE IInv
  OBVIOUS
<1> USE LoginRequestAssumption DEF LoginRequestAssumption, Init, NoCallbacks, None,
        Client, Id, Life, NoRequest, Request
<1>1. TypeOK
  <2>1. sent \in Seq(Sent)
    OBVIOUS
  <2>2. MaxLives >= 1
    OBVIOUS
  <2> QED BY <2>1, <2>2 DEF TypeOK
<1>2. IdInv /\ AskInv /\ CallbackInv /\ OnceInv
  BY DEF IdInv, AskInv, CallbackInv, OnceInv
<1>3. AnswerReachesAsker /\ AnsweredOnce /\ AnswerFindsCallback
  BY DEF AnswerReachesAsker, AnsweredOnce, AnswerFindsCallback
<1> QED BY <1>1, <1>2, <1>3 DEF IInv

\* The steps of clients and of the network change nothing the callbacks know.
LEMMA OutsideSteps ==
  ASSUME IInv, ClientConnects \/ ClientLeaves \/ CentralAnswers \/ AnswerLost
  PROVE  IInv'
<1> USE LoginRequestAssumption DEF LoginRequestAssumption, IInv, None, Client, Id, Life
<1>1. TypeOK'
  <2>1. CASE ClientConnects
    BY <2>1 DEF ClientConnects, NewClientId, TypeOK
  <2>2. CASE ClientLeaves \/ CentralAnswers \/ AnswerLost
    BY <2>2 DEF ClientLeaves, CentralAnswers, AnswerLost, TypeOK
  <2> QED BY <2>1, <2>2
<1>2. /\ UNCHANGED <<life, generator, callbacks, asking, asker, handling, callback, sent, done>>
      /\ central' \cup answers' \subseteq central \cup answers
  BY DEF ClientConnects, ClientLeaves, CentralAnswers, AnswerLost
<1>3. IdInv'
  BY <1>2 DEF IdInv
<1>4. AskInv'
  BY <1>2 DEF AskInv
<1>5. CallbackInv'
  BY <1>2 DEF CallbackInv
<1>6. OnceInv'
  BY <1>2 DEF OnceInv
<1>7. AnswerReachesAsker' /\ AnsweredOnce'
  BY <1>2 DEF AnswerReachesAsker, AnsweredOnce
<1>8. AnswerFindsCallback'
  BY <1>2 DEF AnswerFindsCallback
<1> QED BY <1>1, <1>3, <1>4, <1>5, <1>6, <1>7, <1>8

\* A callback is kept under an id nothing else of this life has.
LEMMA RegisterStep ==
  ASSUME IInv, NEW c \in clients, Register(c)
  PROVE  IInv'
<1> USE LoginRequestAssumption DEF LoginRequestAssumption, IInv, None, Client, Id, Life
<1>1. /\ c \in 1 .. lastClient /\ c \in Client
      /\ generator + 1 \in Id
      /\ generator' = generator + 1
      /\ callbacks' = [callbacks EXCEPT ![generator + 1] = c]
      /\ asking' = "publish" /\ asker' = c
      /\ UNCHANGED <<life, lastClient, clients, handling, callback, central, answers, sent, done>>
  BY DEF Register, NextAnswerId, TypeOK
<1>2. /\ callbacks \in [Id -> 0 .. lastClient]
      /\ callbacks'[generator + 1] = c
      /\ \A i \in Id : i <= generator => callbacks'[i] = callbacks[i]
      /\ \A i \in Id : i > generator + 1 => callbacks'[i] = callbacks[i]
  BY <1>1 DEF TypeOK
<1>3. TypeOK'
  BY <1>1 DEF TypeOK
<1>4. \A r \in central \cup answers : r.id \in Id
  BY DEF TypeOK, Request
<1>5. \A n \in 1 .. Len(sent) : sent[n].id \in Id
  BY SentEntries
<1>6. IdInv'
  BY <1>1, <1>2 DEF IdInv, TypeOK, Request
<1>7. AskInv'
  BY <1>1, <1>2 DEF AskInv
<1>8. CallbackInv'
  BY <1>1, <1>2, <1>4 DEF CallbackInv, IdInv
<1>9. OnceInv'
  BY <1>1, <1>2, <1>5 DEF OnceInv, TypeOK
<1>10. AnswerReachesAsker' /\ AnsweredOnce'
  BY <1>1 DEF AnswerReachesAsker, AnsweredOnce
<1>11. AnswerFindsCallback'
  BY <1>1, <1>2, <1>4 DEF AnswerFindsCallback, IdInv
<1> QED BY <1>3, <1>6, <1>7, <1>8, <1>9, <1>10, <1>11

\* A question that may be answered has its callback.
LEMMA PublishStep ==
  ASSUME IInv, NEW ok \in BOOLEAN, Publish(ok)
  PROVE  IInv'
<1> USE LoginRequestAssumption DEF LoginRequestAssumption, IInv, None, Client, Id, Life
<1> DEFINE r == [life |-> life, id |-> generator, client |-> asker]
<1>1. /\ asking = "publish"
      /\ generator \in Id /\ asker \in Client
      /\ callbacks[generator] \in {asker, None}
      /\ callbacks[generator] = asker \/ generator \in done
  BY DEF Publish, AskInv
<1>2. /\ central' \cup answers' \subseteq central \cup answers \cup {r}
      /\ asking' \in {"withdraw", "idle"}
      /\ asking' = "withdraw" => generator \in done'
      /\ asker' = 0
      /\ done \subseteq done' /\ done' \subseteq done \cup {generator}
      /\ UNCHANGED <<life, lastClient, clients, generator, callbacks, handling,
                     callback, answers, sent>>
  <2>1. CASE ok = TRUE
    BY <2>1 DEF Publish, Withdraws
  <2>2. CASE ok = FALSE
    BY <2>2 DEF Publish, Withdraws
  <2> QED BY <2>1, <2>2
<1>3. r \in Request /\ r.life = life /\ r.id = generator /\ r.client = asker
  BY <1>1 DEF TypeOK, Request
<1> HIDE DEF r
<1>4. TypeOK'
  BY <1>1, <1>2, <1>3 DEF TypeOK
<1>5. IdInv'
  BY <1>2, <1>3 DEF IdInv, TypeOK
<1>6. AskInv'
  BY <1>1, <1>2 DEF AskInv
<1>7. CallbackInv'
  BY <1>1, <1>2, <1>3 DEF CallbackInv
<1>8. OnceInv'
  BY <1>2 DEF OnceInv
<1>9. AnswerReachesAsker' /\ AnsweredOnce'
  BY <1>2 DEF AnswerReachesAsker, AnsweredOnce
<1>10. AnswerFindsCallback'
  BY <1>1, <1>2, <1>3 DEF AnswerFindsCallback
<1> QED BY <1>4, <1>5, <1>6, <1>7, <1>8, <1>9, <1>10

\* Forgetting callbacks does no harm to the others.
LEMMA ForgettingSteps ==
  ASSUME IInv, Withdraw \/ Forget
  PROVE  IInv'
<1> USE LoginRequestAssumption DEF LoginRequestAssumption, IInv, None, Client, Id, Life
<1>1. PICK i \in Id :
        /\ callbacks' = [callbacks EXCEPT ![i] = 0]
        /\ done \subseteq done' /\ done' \subseteq Id /\ i \in done'
        /\ UNCHANGED <<life, lastClient, clients, generator, asker, callback,
                       central, answers, sent>>
        /\ \/ asking = "withdraw" /\ asking' = "idle" /\ UNCHANGED handling
           \/ /\ handling \in Request /\ i = handling.id /\ callback = 0
              /\ handling' = NoRequest /\ UNCHANGED asking
  <2>1. CASE Withdraw
    BY <2>1 DEF Withdraw, AskInv, TypeOK
  <2>2. CASE Forget
    <3>1. handling \in Request /\ handling.id \in Id
      BY <2>2 DEF Forget, TypeOK, Request
    <3> QED BY <2>2, <3>1 DEF Forget, Called, TypeOK
  <2> QED BY <2>1, <2>2
<1>2. /\ callbacks \in [Id -> 0 .. lastClient]
      /\ callbacks'[i] = 0
      /\ \A j \in Id : j # i => callbacks'[j] = callbacks[j]
  BY <1>1 DEF TypeOK
<1>3. \A j \in Id : callbacks'[j] \in {callbacks[j], 0}
  BY <1>2
<1>4. NoRequest \notin Request
  BY DEF NoRequest, Request
<1>5. \A r \in central \cup answers : r.id \in Id
  BY DEF TypeOK, Request
<1>6. \A n \in 1 .. Len(sent) : sent[n].id \in Id
  BY SentEntries
<1>7. TypeOK'
  BY <1>1 DEF TypeOK
<1>8. IdInv'
  BY <1>1, <1>3, <1>4 DEF IdInv
<1>9. AskInv'
  BY <1>1, <1>2, <1>3 DEF AskInv
<1>10. CallbackInv'
  BY <1>1, <1>3, <1>5 DEF CallbackInv
<1>11. OnceInv'
  BY <1>1, <1>2, <1>3, <1>6 DEF OnceInv
<1>12. AnswerReachesAsker' /\ AnsweredOnce'
  BY <1>1 DEF AnswerReachesAsker, AnsweredOnce
<1>13. AnswerFindsCallback'
  BY <1>1, <1>2, <1>5 DEF AnswerFindsCallback
<1> QED BY <1>7, <1>8, <1>9, <1>10, <1>11, <1>12, <1>13

\* A callback that is found has sent nothing yet.
LEMMA MessageStep ==
  ASSUME IInv, OnRedisMessage
  PROVE  IInv'
<1> USE LoginRequestAssumption DEF LoginRequestAssumption, IInv, None, Client, Id, Life
<1>1. PICK r \in answers :
        /\ answers' = answers \ {r}
        /\ callback' = callbacks[r.id]
        /\ handling' = IF callbacks[r.id] = 0 THEN NoRequest ELSE r
        /\ handling = NoRequest
        /\ UNCHANGED <<life, lastClient, clients, generator, callbacks, asking, asker,
                       central, sent, done>>
  BY DEF OnRedisMessage
<1>2. r \in Request /\ r.id \in Id /\ r.life <= life /\ callbacks[r.id] \in 0 .. lastClient
  BY DEF TypeOK, Request, IdInv
<1>3. NoRequest \notin Request
  BY DEF NoRequest, Request
<1>4. r.id <= generator \/ callbacks[r.id] = 0
  BY <1>2 DEF IdInv, TypeOK
<1>5. \/ callback' = 0 /\ handling' = NoRequest
      \/ callback' # 0 /\ handling' = r /\ r.id <= generator
  BY <1>1, <1>4
<1>6. TypeOK'
  BY <1>1, <1>2 DEF TypeOK
<1>7. IdInv'
  BY <1>1, <1>2, <1>3, <1>5 DEF IdInv
<1>8. AskInv'
  BY <1>1 DEF AskInv
<1>9. CallbackInv'
  BY <1>1, <1>2, <1>5 DEF CallbackInv
<1>10. OnceInv'
  BY <1>1, <1>3, <1>5 DEF OnceInv
<1>11. AnswerReachesAsker' /\ AnsweredOnce'
  BY <1>1 DEF AnswerReachesAsker, AnsweredOnce
<1>12. AnswerFindsCallback'
  BY <1>1 DEF AnswerFindsCallback
<1> QED BY <1>6, <1>7, <1>8, <1>9, <1>10, <1>11, <1>12

\* The host goes to the asker, who has not been sent one.
LEMMA CallBackStep ==
  ASSUME IInv, CallBack
  PROVE  IInv'
<1> USE LoginRequestAssumption DEF LoginRequestAssumption, IInv, None, Client, Id, Life
<1> DEFINE s == [life |-> life, id |-> handling.id, to |-> callback, answer |-> handling]
<1>1. /\ callback # 0 /\ callback' = 0
      /\ \/ sent' = sent
         \/ callback \in clients /\ sent' = Append(sent, s)
      /\ UNCHANGED <<life, lastClient, clients, generator, callbacks, asking, asker,
                     handling, central, answers, done>>
  BY DEF CallBack
<1>2. /\ handling \in Request /\ handling.id <= generator /\ handling.id \in Id
      /\ handling.life = life => callback = handling.client
  BY <1>1 DEF CallbackInv, IdInv, Request
<1>3. /\ callback \in clients => s \in Sent
      /\ s.life = life /\ s.id = handling.id /\ s.to = callback /\ s.answer = handling
  BY <1>2 DEF TypeOK, Sent
<1> HIDE DEF s
<1>4. /\ sent \in Seq(Sent)
      /\ \A n \in 1 .. Len(sent') :
            \/ n \in 1 .. Len(sent) /\ sent'[n] = sent[n]
            \/ n = Len(sent) + 1 /\ sent'[n] = s
  <2>1. sent \in Seq(Sent) /\ Len(sent) \in Nat
    BY DEF TypeOK
  <2>2. CASE sent' = sent
    BY <2>1, <2>2
  <2>3. CASE callback \in clients /\ sent' = Append(sent, s)
    <3>1. s \in Sent
      BY <1>3, <2>3
    <3>2. /\ Len(sent') = Len(sent) + 1
          /\ \A n \in 1 .. Len(sent) : sent'[n] = sent[n]
          /\ sent'[Len(sent) + 1] = s
      BY <2>1, <2>3, <3>1
    <3> QED BY <2>1, <3>2
  <2> QED BY <1>1, <2>1, <2>2, <2>3
<1>5. TypeOK'
  <2>1. CASE sent' = sent
    BY <1>1, <2>1 DEF TypeOK
  <2>2. CASE callback \in clients /\ sent' = Append(sent, s)
    <3>1. sent' \in Seq(Sent)
      BY <1>3, <1>4, <2>2
    <3> QED BY <1>1, <3>1 DEF TypeOK
  <2> QED BY <1>1, <2>1, <2>2
<1>6. IdInv'
  BY <1>1 DEF IdInv
<1>7. AskInv'
  BY <1>1 DEF AskInv
<1>8. CallbackInv'
  BY <1>1 DEF CallbackInv
<1>9. OnceInv'
  BY <1>1, <1>2, <1>3, <1>4 DEF OnceInv, TypeOK
<1>10. AnswerReachesAsker'
  BY <1>2, <1>3, <1>4 DEF AnswerReachesAsker
<1>11. AnsweredOnce'
  <2>1. \A n \in 1 .. Len(sent) : sent[n].life = life => sent[n].id # handling.id
    BY <1>1 DEF OnceInv
  <2> QED BY <1>3, <1>4, <2>1 DEF AnsweredOnce
<1>12. AnswerFindsCallback'
  BY <1>1 DEF AnswerFindsCallback
<1> QED BY <1>5, <1>6, <1>7, <1>8, <1>9, <1>10, <1>11, <1>12

\* What an earlier life has left on its way is not taken for this one's.
LEMMA RestartStep ==
  ASSUME IInv, Restart
  PROVE  IInv'
<1> USE LoginRequestAssumption
    DEF LoginRequestAssumption, IInv, None, Client, Id, Life, Restart, NoCallbacks
<1>1. life' = life + 1 /\ life' \in Life /\ life \in Nat
  BY DEF TypeOK
<1>2. NoRequest \notin Request
  BY DEF NoRequest, Request
<1>3. TypeOK'
  BY <1>1 DEF TypeOK
<1>4. \A r \in central \cup answers : r.life \in Nat /\ r.life <= life /\ r.id \in Id
  BY DEF TypeOK, Request, IdInv
<1>5. IdInv'
  BY <1>1, <1>2, <1>4 DEF IdInv
<1>6. AskInv'
  BY DEF AskInv
<1>7. CallbackInv'
  BY <1>1, <1>4 DEF CallbackInv
<1>8. \A n \in 1 .. Len(sent) : sent[n].life \in Nat /\ sent[n].life <= life
  BY SentEntries DEF OnceInv
<1>9. OnceInv'
  BY <1>1, <1>8 DEF OnceInv
<1>10. AnswerReachesAsker' /\ AnsweredOnce'
  BY DEF AnswerReachesAsker, AnsweredOnce
<1>11. AnswerFindsCallback'
  BY <1>1, <1>4 DEF AnswerFindsCallback
<1> QED BY <1>3, <1>5, <1>6, <1>7, <1>9, <1>10, <1>11

\* The invariant holds in every reachable state.
THEOREM Invariance == Spec => []IInv
<1>1. IInv /\ UNCHANGED vars => IInv'
  BY DEF vars, IInv, TypeOK, IdInv, AskInv, CallbackInv, OnceInv,
         AnswerReachesAsker, AnsweredOnce, AnswerFindsCallback
<1>2. IInv /\ [Next]_vars => IInv'
  BY <1>1, OutsideSteps, RegisterStep, PublishStep, ForgettingSteps, MessageStep,
     CallBackStep, RestartStep DEF Next
<1> QED BY InitIInv, <1>2, PTL DEF Spec

\* Type correctness, for any number of clients, requests and restarts.
THEOREM TypeCorrect == Spec => []TypeOK
BY Invariance, PTL DEF Spec, IInv

\* A host goes to the client that asked for it (requestCentralAnswer's ids).
THEOREM ReachesAsker == Spec => []AnswerReachesAsker
BY Invariance, PTL DEF Spec, IInv

\* A request is answered to its client at most once (request.lua forgets a
\* callback it has called).
THEOREM AtMostOnce == Spec => []AnsweredOnce
BY Invariance, PTL DEF Spec, IInv

\* A question that may be answered has its callback (requestCentralAnswer keeps
\* the callback before it publishes).
THEOREM FindsCallback == Spec => []AnswerFindsCallback
BY Invariance, PTL DEF Spec, IInv

-----------------------------------------------------------------------------
(* The refinement *)

\* An answer is taken for the callback that was kept under its number.
LEMMA MessageTakes ==
  ASSUME IInv, OnRedisMessage
  PROVE  [R!Next]_(R!vars)
<1> USE LoginRequestAssumption DEF LoginRequestAssumption, IInv, None, Client, Id, Life
<1>1. PICK r \in answers :
        /\ callback' = callbacks[r.id]
        /\ handling' = IF callbacks[r.id] = 0 THEN NoRequest ELSE r
        /\ handling = NoRequest
        /\ UNCHANGED <<life, generator, callbacks, sent>>
  BY DEF OnRedisMessage
<1>2. /\ r \in Request /\ r.id \in Id /\ r.life <= life
      /\ r.life = life => callbacks[r.id] \in {r.client, 0}
  BY DEF TypeOK, Request, IdInv, CallbackInv
<1>3. callback = 0
  BY <1>1 DEF CallbackInv, NoRequest, Request
<1>4. handling.id = 0 /\ \A i \in Id : Open(i) = callbacks[i]
  BY <1>1 DEF Open, NoRequest
<1>5. CASE callbacks[r.id] = 0
  BY <1>1, <1>3, <1>5 DEF R!vars, Open
<1>6. CASE callbacks[r.id] # 0
  <2>1. handling' = r /\ callback' = callbacks[r.id] /\ callback' # 0
    BY <1>1, <1>6
  <2>2. \A i \in Id : Open(i)' = IF i = r.id THEN 0 ELSE Open(i)
    BY <1>1, <1>4, <2>1 DEF Open
  <2>3. R!TakeAnswer(r)
    BY <1>1, <1>2, <1>3, <1>4, <1>6, <2>1, <2>2 DEF R!TakeAnswer
  <2>4. r \in R!Answer
    BY <1>2 DEF R!Answer, Request
  <2> QED BY <2>3, <2>4 DEF R!Next
<1> QED BY <1>5, <1>6

\* What was taken is told to the client whose callback it was.
LEMMA CallBackTells ==
  ASSUME IInv, CallBack
  PROVE  R!Next
<1>1. /\ callback # 0 /\ callback' = 0
      /\ UNCHANGED <<life, generator, callbacks, handling>>
      /\ sent' \in {sent, Append(sent, [life |-> life, id |-> handling.id,
                                        to |-> callback, answer |-> handling])}
  BY DEF CallBack, None
<1>2. callback # None /\ callback' = None
  BY <1>1 DEF None
<1>3. [to |-> callback, answer |-> handling] # Nothing
  BY <1>1 DEF Nothing, None
<1>4. Open(1)' = Open(1) /\ \A i \in Id : Open(i)' = Open(i)
  BY <1>1 DEF Open
<1>5. R!Tell
  BY <1>1, <1>2, <1>3, <1>4 DEF R!Tell
<1> QED BY <1>5 DEF R!Next

\* Every step of the two threads is one of Requests, or none.
LEMMA StepRefines == IInv /\ [Next]_vars => [R!Next]_(R!vars)
<1> SUFFICES ASSUME IInv, [Next]_vars PROVE [R!Next]_(R!vars)
  OBVIOUS
<1> USE LoginRequestAssumption DEF LoginRequestAssumption, IInv, None, Client, Id, Life
<1>1. CASE \/ ClientConnects \/ ClientLeaves \/ CentralAnswers \/ AnswerLost
           \/ UNCHANGED vars \/ \E ok \in BOOLEAN : Publish(ok)
  <2>1. UNCHANGED <<life, generator, callbacks, handling, callback, sent>>
    BY <1>1 DEF ClientConnects, ClientLeaves, CentralAnswers, AnswerLost, vars, Publish
  <2> QED BY <2>1 DEF R!vars, Open
<1>2. ASSUME NEW c \in clients, Register(c) PROVE R!Next
  <2>1. /\ c \in Client /\ generator + 1 \in Id /\ generator \in Nat
        /\ generator' = generator + 1
        /\ callbacks' = [callbacks EXCEPT ![generator + 1] = c]
        /\ UNCHANGED <<life, handling, callback, sent>>
    BY <1>2 DEF Register, NextAnswerId, TypeOK
  <2>2. handling.id # generator + 1
    BY <2>1 DEF TypeOK, IdInv, NoRequest, Request
  <2>3. \A i \in Id : Open(i)' = IF i = generator + 1 THEN c ELSE Open(i)
    BY <2>1, <2>2 DEF Open, TypeOK
  <2>4. /\ generator + 1 \notin 1 .. generator
        /\ 1 .. generator' = (1 .. generator) \cup {generator + 1}
    BY <2>1
  <2>5. [i \in Id |-> Open(i)]' = [[i \in Id |-> Open(i)] EXCEPT ![generator + 1] = c]
    BY <2>3
  <2>6. R!Ask(generator + 1, c)
    BY <2>1, <2>4, <2>5 DEF R!Ask
  <2> QED BY <2>1, <2>6 DEF R!Next
<1>3. CASE Withdraw
  <2>1. /\ generator \in Id
        /\ callbacks' = [callbacks EXCEPT ![generator] = 0]
        /\ UNCHANGED <<life, generator, handling, callback, sent>>
    BY <1>3 DEF Withdraw, AskInv
  <2>2. \A i \in Id : Open(i)' = IF i = generator THEN 0 ELSE Open(i)
    BY <2>1 DEF Open, TypeOK
  <2>3. CASE Open(generator) = 0
    BY <2>1, <2>2, <2>3 DEF R!vars
  <2>4. CASE Open(generator) # 0
    <3>1. R!Drop(generator)
      BY <2>1, <2>2, <2>4 DEF R!Drop
    <3> QED BY <2>1, <3>1 DEF R!Next
  <2> QED BY <2>3, <2>4
<1>4. CASE OnRedisMessage
  BY <1>4, MessageTakes
<1>5. CASE CallBack
  BY <1>5, CallBackTells
<1>6. CASE Forget
  <2>1. /\ handling' = NoRequest
        /\ callbacks' = [callbacks EXCEPT ![handling.id] = 0]
        /\ UNCHANGED <<life, generator, callback, sent>> /\ callback = 0
    BY <1>6 DEF Forget, Called
  <2>2. \A i \in Id : Open(i)' = Open(i)
    BY <2>1 DEF Open, NoRequest, TypeOK
  <2> QED BY <2>1, <2>2 DEF R!vars
<1>7. CASE Restart
  <2>1. /\ life' = life + 1 /\ generator' = 0 /\ callbacks' = [i \in Id |-> 0]
        /\ handling' = NoRequest /\ callback' = 0 /\ UNCHANGED sent
    BY <1>7 DEF Restart, NoCallbacks
  <2>2. \A i \in Id : Open(i)' = 0
    BY <2>1 DEF Open, NoRequest
  <2>3. R!Restart
    BY <2>1, <2>2 DEF R!Restart
  <2> QED BY <2>3 DEF R!Next
<1> QED BY <1>1, <1>2, <1>3, <1>4, <1>5, <1>6, <1>7 DEF Next

\* The refinement, which is safety only: the callbacks, the ids and the two threads
\* implement Requests, for any number of clients, requests and restarts.
THEOREM Refinement == Spec => ImplementsRequests
<1>1. Init => R!Init
  BY DEF Init, R!Init, NoCallbacks, NoRequest, Open, None, Id
<1> QED BY <1>1, Invariance, StepRefines, PTL DEF Spec, ImplementsRequests, R!Spec
=============================================================================
