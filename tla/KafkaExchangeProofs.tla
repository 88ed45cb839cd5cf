------------------------ MODULE KafkaExchangeProofs ------------------------
(***************************************************************************)
(* Theorems about KafkaExchange, for any number of requests, any length of *)
(* the response topic and any set of environment settings that select the  *)
(* Kafka transport.                                                        *)
(***************************************************************************)
EXTENDS KafkaExchange, ActionProcessorProofs

USE EnvironmentsAssumption, ForeignAssumption, NoRequestAssumption,
    PlatformAssumption, WaitUnitsAssumption, MaxResponsesAssumption
    DEF CoreTypeOK

(***************************************************************************)
(* Type correctness, which rests on a request being in hand while a step   *)
(* of the exchange uses it.                                                *)
(***************************************************************************)
LEMMA TypeInit == Init => TypeOK
BY DEF Init, LoopInit, CommanderInit, TypeOK, LoopPoints, Flags, Clients, Lifecycle,
       Outcomes, Correlation, Bytes, Messages

LEMMA TypeLoop ==
    ASSUME TypeOK, LoopStep
    PROVE  TypeOK'
<1>1. CoreTypeOK' /\ pc' \in LoopPoints \cup {TransportStart}
  BY LoopTypes DEF TypeOK, LoopStep, commanderVars
<1>2. TransportStart = "kafkaProducer"
  BY DEF TypeOK, TransportStart, UseMqtt
<1> QED
  BY <1>1, <1>2 DEF TypeOK, LoopStep, KafkaPoints, commanderVars, kafkaVars

LEMMA TypeSend ==
    ASSUME TypeOK, RequestInHand, Send
    PROVE  TypeOK'
<1> USE DEF TypeOK, LoopPoints, KafkaPoints, Flags, Clients, Lifecycle, Outcomes,
            Answers, Goto, loopVars, commanderVars, kafkaVars
<1>1. CASE KafkaBuildProducer
  BY <1>1 DEF KafkaBuildProducer
<1>2. CASE KafkaBuildConsumer
  <2>1. request \in Requests
    BY <1>2 DEF KafkaBuildConsumer, RequestInHand
  <2>2. RequestCorrelation \in Correlation
    BY <2>1 DEF RequestCorrelation, Bytes, Text, Correlation
  <2>3. pc' \in {"kafkaProduce", "catch"}
    BY <1>2 DEF KafkaBuildConsumer
  <2>4. client' \in [Clients -> Lifecycle] /\ correlationData' \in Correlation
    BY <1>2, <2>2 DEF KafkaBuildConsumer
  <2> QED
    BY <1>2, <2>3, <2>4 DEF KafkaBuildConsumer
<1>3. CASE KafkaProduce
  BY <1>3 DEF KafkaProduce
<1>4. CASE KafkaProduceThrows
  BY <1>4 DEF KafkaProduceThrows
<1>5. CASE KafkaAssign
  BY <1>5 DEF KafkaAssign, StartPosition
<1>6. CASE KafkaConsumeAnswer
  <2>1. outcome' \in [Requests -> Outcomes]
    BY <1>6 DEF KafkaConsumeAnswer, Verdict
  <2>2. position' \in 0..(Len(responses') + 1)
    BY <1>6 DEF KafkaConsumeAnswer, Readable
  <2> QED
    BY <1>6, <2>1, <2>2 DEF KafkaConsumeAnswer
<1>7. CASE KafkaConsumeOther
  BY <1>7 DEF KafkaConsumeOther, Readable
<1>8. CASE KafkaConsumeNull
  BY <1>8 DEF KafkaConsumeNull, Readable
<1>9. CASE KafkaTimeout
  BY <1>9 DEF KafkaTimeout
<1>10. CASE KafkaUnsubscribe
  BY <1>10 DEF KafkaUnsubscribe
<1>11. CASE KafkaThrows
  BY <1>11 DEF KafkaThrows
<1> QED
  BY <1>1, <1>2, <1>3, <1>4, <1>5, <1>6, <1>7, <1>8, <1>9, <1>10, <1>11 DEF Send

LEMMA TypeTick ==
    ASSUME TypeOK, KafkaTick
    PROVE  TypeOK'
BY DEF KafkaTick, TypeOK, loopVars, commanderVars

\* What can be appended to the response topic is a message, and appending it
\* changes nothing else.
LEMMA AppendType ==
    ASSUME TypeOK, NEW message \in Messages, KafkaAppend(message), replied' \subseteq Requests
    PROVE  /\ TypeOK'
           /\ Len(responses') = Len(responses) + 1
           /\ responses'[Len(responses) + 1] = message
           /\ \A i \in 1..Len(responses) : responses'[i] = responses[i]
BY DEF KafkaAppend, TypeOK, loopVars, commanderVars

\* The commander the code reckons with, when it talks Kafka.
LEMMA AioIsKafkas == TypeOK => AioCommander = AioOnKafka
BY DEF TypeOK, AioCommander, UseMqtt

\* What a message may say, whoever wrote it: under a correlation id of ours, it is an
\* answer that has come back if a handler could take it for one, and a success only
\* of a method that was called.
Earned(message) ==
    message.correlation.id \in Requests =>
        /\ AioOnKafka \/ message.kind = "response" => message.correlation.id \in Returned'
        /\ message.result = "good" => message.correlation.id \in executed

\* The environment either runs a method or appends an earned message; a reply makes
\* the request it is for one that has come back.
LEMMA EnvironmentStep ==
    ASSUME TypeOK, CorrelationInHand, Environment
    PROVE  \/ \E c \in commands : KafkaExecute(c)
           \/ \E message \in Messages :
                 /\ KafkaAppend(message)
                 /\ Earned(message)
                 /\ \/ replied' = replied
                    \/ \E c \in commands : replied' = replied \cup {c.id}
<1>1. ASSUME NEW c \in commands, NEW result \in {"good", "bad"},
             KafkaRespond(c, result)
      PROVE  \E message \in Messages :
                 /\ KafkaAppend(message) /\ Earned(message)
                 /\ replied' = replied \cup {c.id}
  <2> DEFINE m == [kind |-> "response", correlation |-> c, result |-> result]
  <2>1. m \in Messages /\ KafkaAppend(m) /\ replied' = replied \cup {c.id}
    BY <1>1 DEF KafkaRespond, Messages, TypeOK
  <2>2. Returned' = Returned \cup {c.id}
    BY <2>1, ReturnedReplied DEF KafkaAppend, loopVars
  <2>3. Earned(m)
    BY <1>1, <2>2 DEF KafkaRespond, Earned
  <2> QED
    BY <2>1, <2>3
<1>2. ASSUME NEW c \in commands, KafkaEcho(c)
      PROVE  \E message \in Messages :
                 /\ KafkaAppend(message) /\ Earned(message)
                 /\ replied' = replied
  <2> DEFINE m == [kind |-> "request", correlation |-> c, result |-> "bad"]
  <2>1. m \in Messages /\ KafkaAppend(m) /\ replied' = replied
    BY <1>2 DEF KafkaEcho, Messages, TypeOK
  <2>2. Returned' = Returned
    BY <2>1, ReturnedSame DEF KafkaAppend, loopVars
  <2>3. AioOnKafka => c.id \in Returned
    BY <1>2, AioIsKafkas DEF KafkaEcho, Returned
  <2> QED
    BY <2>1, <2>2, <2>3 DEF Earned
<1>3. ASSUME NEW message \in OtherMessages, KafkaAppend(message), replied' = replied
      PROVE  message \in Messages /\ Earned(message)
  BY <1>3 DEF OtherMessages, Messages, Correlation, Bytes, Earned
<1> QED
  BY <1>1, <1>2, <1>3 DEF Environment

LEMMA TypeEnvironment ==
    ASSUME TypeOK, CorrelationInHand, Environment
    PROVE  TypeOK'
<1>1. ASSUME NEW c \in commands, KafkaExecute(c)
      PROVE  TypeOK'
  BY <1>1 DEF KafkaExecute, TypeOK, CorrelationInHand, loopVars, kafkaVars
<1>2. ASSUME NEW c \in commands
      PROVE  replied \cup {c.id} \subseteq Requests
  BY DEF TypeOK, CorrelationInHand
<1> QED
  BY <1>1, <1>2, AppendType, EnvironmentStep DEF TypeOK

(***************************************************************************)
(* The inductive invariant.                                                *)
(***************************************************************************)
LEMMA InvInit == Init => Inv
BY TypeInit
DEF Init, LoopInit, CommanderInit, Inv, RequestInHand, CorrelationInHand, ResponsesAreEarned,
    AnswersAreEarned, NoResponseSkipped, CommanderImpliesBroker, BrokerFlagIsEarned,
    KafkaPoints, LoopPoints, Answers, Flags

\* The loop outside the exchange.
LEMMA InvLoop ==
    ASSUME Inv, LoopStep
    PROVE  Inv'
<1> USE DEF Inv, RequestInHand, CorrelationInHand, ResponsesAreEarned, AnswersAreEarned,
            NoResponseSkipped, CommanderImpliesBroker, BrokerFlagIsEarned,
            KafkaPoints, LoopPoints, Goto, commanderVars, kafkaVars, AioOnKafka
<1>0. /\ TypeOK' /\ UNCHANGED <<commanderVars, kafkaVars>>
      /\ Returned' = Returned /\ AioCommander' = AioCommander
  <2>1. TypeOK' /\ UNCHANGED <<env, commanderVars, kafkaVars>>
    BY TypeLoop, LoopKeepsEnv DEF LoopStep
  <2> QED
    BY <2>1, ReturnedSame, AioSame
<1>1. CASE Run
  BY <1>0, <1>1 DEF Run, TypeOK, Flags
<1>2. CASE Wake
  BY <1>0, <1>2 DEF Wake
<1>3. CASE AdxNotConfigured
  BY <1>0, <1>3 DEF AdxNotConfigured, TypeOK, Flags
<1>4. CASE AdxConnect
  BY <1>0, <1>4 DEF AdxConnect, TypeOK, Flags
<1>5. CASE AdxConnectThrows
  BY <1>0, <1>5 DEF AdxConnectThrows
<1>6. CASE InfluxNotConfigured
  BY <1>0, <1>6 DEF InfluxNotConfigured
<1>7. CASE InfluxConnect
  BY <1>0, <1>7 DEF InfluxConnect, TypeOK, Flags
<1>8. CASE InfluxConnectThrows
  BY <1>0, <1>8 DEF InfluxConnectThrows, TypeOK, Flags
<1>9. ASSUME NEW r \in Requests, HighPressure(r)
      PROVE  Inv'
  BY <1>0, <1>9 DEF HighPressure, UseMqtt, TypeOK, Answers
<1>10. CASE NoHighPressure
  BY <1>0, <1>10 DEF NoHighPressure
<1>11. CASE QueryThrows
  BY <1>0, <1>11 DEF QueryThrows, TypeOK, Flags
<1>12. CASE Catch
  BY <1>0, <1>12 DEF Catch, TypeOK, ResetFlags, Flags, Answers
<1>13. CASE Finally
  BY <1>0, <1>13 DEF Finally
<1> QED
  BY <1>1, <1>2, <1>3, <1>4, <1>5, <1>6, <1>7, <1>8, <1>9, <1>10, <1>11, <1>12, <1>13
  DEF LoopStep, Loop

\* The exchange.
LEMMA InvSend ==
    ASSUME Inv, Send
    PROVE  Inv'
<1> USE DEF Inv, RequestInHand, CorrelationInHand, ResponsesAreEarned, AnswersAreEarned,
            NoResponseSkipped, CommanderImpliesBroker, BrokerFlagIsEarned,
            KafkaPoints, LoopPoints, Goto, loopVars, commanderVars, kafkaVars, AioOnKafka, RequestCorrelation
<1>0. TypeOK' /\ UNCHANGED <<env, executed, replied>>
  BY TypeSend DEF Send, KafkaBuildProducer, KafkaBuildConsumer, KafkaProduce, KafkaProduceThrows,
     KafkaAssign, KafkaConsumeAnswer, KafkaConsumeOther, KafkaConsumeNull, KafkaTimeout,
     KafkaUnsubscribe, KafkaThrows
<1>a. AioCommander' = AioCommander /\ AioCommander = AioOnKafka
  BY <1>0, AioSame, AioIsKafkas
<1>r. commands' = commands => Returned' = Returned
  BY <1>0, ReturnedSame
<1>g. commands \subseteq commands' => Returned \subseteq Returned'
  BY <1>0, ReturnedGrows
<1>1. CASE KafkaBuildProducer
  BY <1>0, <1>a, <1>r, <1>1 DEF KafkaBuildProducer
<1>2. CASE KafkaBuildConsumer
  BY <1>0, <1>a, <1>r, <1>2 DEF KafkaBuildConsumer
<1>3. CASE KafkaProduce
  BY <1>0, <1>a, <1>g, <1>3 DEF KafkaProduce, TypeOK, Flags, Bytes, Text
<1>4. CASE KafkaProduceThrows
  BY <1>0, <1>a, <1>g, <1>4 DEF KafkaProduceThrows, Bytes, Text
<1>5. CASE KafkaAssign
  BY <1>0, <1>a, <1>r, <1>5 DEF KafkaAssign, StartPosition
<1>6. CASE KafkaConsumeAnswer
  <2> DEFINE answer == responses[position]
  <2>1. /\ pc = "kafkaWait" /\ pc' = "kafkaUnsubscribe"
        /\ position \in 1..Len(responses)
        /\ Handled(answer)
        /\ status' = [status EXCEPT !["ConnectionToUACloudCommander"] = TRUE]
        /\ UNCHANGED <<env, request, lastPublish, commands, executed, responses, correlationData>>
    BY <1>6 DEF KafkaConsumeAnswer, Readable
  <2>2. /\ outcome' \in [Requests -> Outcomes]
        /\ outcome'[request] \in Answers
        /\ \A r \in Requests \ {request} : outcome'[r] = outcome[r]
        /\ ~AioOnKafka /\ outcome'[request] = "succeeded" => answer.result = "good"
    BY <1>0, <1>6 DEF KafkaConsumeAnswer, Verdict, Answers, TypeOK
  <2>3. /\ request \in Returned
        /\ answer.result = "good" => request \in executed
    BY <2>1 DEF Handled, AcceptedByHandleResponse, Bytes, Text
  <2>4. RequestInHand'
    BY <1>0, <2>1, <2>2 DEF Answers
  <2>5. CorrelationInHand'
    <3>1. \A r \in Requests : outcome[r] # "unsent" => outcome'[r] # "unsent"
      BY <2>2 DEF Answers
    <3>2. correlationData' = RequestCorrelation'
      BY <2>1
    <3>3. \A r \in executed \cup replied : r \in Requests
      BY DEF TypeOK
    <3>4. UNCHANGED <<commands, executed, replied>>
      BY <1>0, <2>1
    <3> QED
      <4>1. \A c \in commands' : c.id \in Requests /\ outcome'[c.id] # "unsent"
        BY <3>1, <3>4
      <4>2. \A r \in executed' \cup replied' : outcome'[r] # "unsent"
        BY <3>1, <3>3, <3>4
      <4>3. pc' # "kafkaWait"
        BY <2>1
      <4> QED
        BY <3>2, <4>1, <4>2, <4>3
  <2>6. ResponsesAreEarned'
    BY <2>1, <1>r
  <2>7. AnswersAreEarned'
    <3>1. UNCHANGED <<executed, Returned, AioCommander>>
      BY <2>1, <1>r, <1>a
    <3>2. /\ outcome'[request] \in Answers => request \in Returned
          /\ outcome'[request] = "succeeded" /\ ~AioCommander => request \in executed
      BY <2>2, <2>3, <1>a
    <3> HIDE DEF AioOnKafka, answer
    <3> QED
      BY <2>2, <3>1, <3>2 DEF AnswersAreEarned
  <2>8. CommanderImpliesBroker' /\ BrokerFlagIsEarned'
    BY <2>1 DEF TypeOK, Flags
  <2> QED
    BY <1>0, <2>1, <2>4, <2>5, <2>6, <2>7, <2>8
<1>7. CASE KafkaConsumeOther
  BY <1>0, <1>a, <1>r, <1>7 DEF KafkaConsumeOther, Readable, TypeOK, Handled, AcceptedByHandleResponse
<1>8. CASE KafkaConsumeNull
  BY <1>0, <1>a, <1>r, <1>8 DEF KafkaConsumeNull, Readable
<1>9. CASE KafkaTimeout
  BY <1>0, <1>a, <1>r, <1>9 DEF KafkaTimeout, TypeOK, Answers
<1>10. CASE KafkaUnsubscribe
  BY <1>0, <1>a, <1>r, <1>10 DEF KafkaUnsubscribe
<1>11. CASE KafkaThrows
  BY <1>0, <1>a, <1>r, <1>11 DEF KafkaThrows
<1> QED
  BY <1>1, <1>2, <1>3, <1>4, <1>5, <1>6, <1>7, <1>8, <1>9, <1>10, <1>11 DEF Send

LEMMA InvTick ==
    ASSUME Inv, KafkaTick
    PROVE  Inv'
BY TypeTick, ReturnedSame, AioSame
DEF Inv, KafkaTick, RequestInHand, CorrelationInHand, ResponsesAreEarned, AnswersAreEarned,
    NoResponseSkipped, CommanderImpliesBroker, BrokerFlagIsEarned, loopVars, commanderVars,
    RequestCorrelation, AioOnKafka, Handled

\* The broker and the commander.
LEMMA InvEnvironment ==
    ASSUME Inv, Environment
    PROVE  Inv'
<1> USE DEF Inv, RequestInHand, CorrelationInHand, ResponsesAreEarned, AnswersAreEarned,
            NoResponseSkipped, CommanderImpliesBroker, BrokerFlagIsEarned,
            RequestCorrelation, AioOnKafka, Handled
<1>0. TypeOK'
  BY TypeEnvironment
<1>1. ASSUME NEW c \in commands, KafkaExecute(c)
      PROVE  Inv'
  <2>1. UNCHANGED <<loopVars, commands, replied, kafkaVars>> /\ executed' = executed \cup {c.id}
    BY <1>1 DEF KafkaExecute
  <2>2. Returned' = Returned /\ AioCommander' = AioCommander
    BY <2>1, ReturnedSame, AioSame DEF loopVars
  <2> QED
    BY <1>0, <2>1, <2>2 DEF loopVars, kafkaVars
<1>2. ASSUME NEW message \in Messages, KafkaAppend(message), Earned(message),
             \/ replied' = replied
             \/ \E c \in commands : replied' = replied \cup {c.id}
      PROVE  Inv'
  <2>1. UNCHANGED <<loopVars, commands, executed, correlationData, position>>
    BY <1>2 DEF KafkaAppend
  <2>r. Returned \subseteq Returned' /\ AioCommander' = AioCommander
    BY <1>2, <2>1, ReturnedGrows, AioSame DEF loopVars
  <2>2. /\ Len(responses) \in Nat
        /\ Len(responses') = Len(responses) + 1
        /\ responses'[Len(responses) + 1] = message
        /\ \A i \in 1..Len(responses) : responses'[i] = responses[i]
    BY <1>0, <1>2, AppendType DEF TypeOK
  <2>3. RequestInHand' /\ CorrelationInHand' /\ AnswersAreEarned'
    BY <1>2, <2>1, <2>r DEF loopVars
  <2>4. CommanderImpliesBroker' /\ BrokerFlagIsEarned'
    BY <2>1 DEF loopVars
  <2>5. ResponsesAreEarned'
    <3>1. \A i \in 1..Len(responses') : i \in 1..Len(responses) \/ i = Len(responses) + 1
      BY <2>2
    <3> QED
      BY <1>2, <2>1, <2>r, <2>2, <3>1 DEF loopVars, Earned
  <2>6. NoResponseSkipped'
    <3>1. \A i \in 1..(position - 1) : i \in 1..Len(responses)
      BY <2>2 DEF TypeOK
    <3> QED
      BY <2>1, <2>2, <3>1 DEF loopVars, AcceptedByHandleResponse
  <2> QED
    BY <1>0, <2>3, <2>4, <2>5, <2>6
<1> QED
  BY <1>1, <1>2, EnvironmentStep

LEMMA InvStutter ==
    ASSUME Inv, UNCHANGED vars
    PROVE  Inv'
BY ReturnedSame, AioSame
DEF Inv, TypeOK, RequestInHand, CorrelationInHand, ResponsesAreEarned, AnswersAreEarned,
    NoResponseSkipped, CommanderImpliesBroker, BrokerFlagIsEarned, vars, loopVars,
    commanderVars, kafkaVars, RequestCorrelation, AioOnKafka, Handled

LEMMA InvStep == Inv /\ [Next]_vars => Inv'
BY InvLoop, InvSend, InvTick, InvEnvironment, InvStutter DEF Next

\* Every reachable state satisfies the inductive invariant.
THEOREM Invariance == Spec => []Inv
<1>1. Inv /\ [Next]_vars => Inv'
  BY InvStep
<1> QED
  BY InvInit, <1>1, PTL DEF Spec

(***************************************************************************)
(* The properties.                                                         *)
(***************************************************************************)
\* Every variable keeps its type and the reader stays within the topic.
THEOREM TypeCorrect == Spec => []TypeOK
<1>1. Inv => TypeOK
  BY DEF Inv
<1> QED
  BY Invariance, <1>1, PTL

\* However many requests went before it and whatever is on the topic, a request is
\* reported as answered only if it was replied to, or came back itself to a requestor
\* of an AIO commander; and UA Cloud Commander's success means a method call.
THEOREM AnswersEarned == Spec => []AnswersAreEarned
<1>1. Inv => AnswersAreEarned
  BY DEF Inv
<1> QED
  BY Invariance, <1>1, PTL

\* Reading the topic from its beginning never passes over the response.
THEOREM NothingSkipped == Spec => []NoResponseSkipped
<1>1. Inv => NoResponseSkipped
  BY DEF Inv
<1> QED
  BY Invariance, <1>1, PTL

\* What was acknowledged can be answered recognisably, by either commander.
THEOREM CanBeAnswered == Spec => []RequestCanBeAnswered
<1>1. Inv => RequestCanBeAnswered
  <2> SUFFICES ASSUME Inv, pc = "kafkaWait"
               PROVE  /\ correlationData \in commands
                      /\ correlationData.id = request
                      /\ AioOnKafka => correlationData.form = "text"
                      /\ Handled([kind |-> "response", correlation |-> correlationData,
                                  result |-> "good"])
    BY DEF RequestCanBeAnswered
  <2>1. correlationData \in commands /\ correlationData = RequestCorrelation
    BY DEF Inv, CorrelationInHand
  <2> QED
    BY <2>1 DEF RequestCorrelation, Text, Bytes, Handled, AcceptedByHandleResponse
<1> QED
  BY Invariance, <1>1, PTL

\* Whatever fails and in which order, the broker flag means that the latest publish
\* was acknowledged, once a failure has been handled.
THEOREM BrokerFlagEarned == Spec => []BrokerFlagIsEarned
<1>1. Inv => BrokerFlagIsEarned
  BY DEF Inv
<1> QED
  BY Invariance, <1>1, PTL

\* The commander flag never stands without the broker flag.
THEOREM CommanderNeedsBroker == Spec => []CommanderImpliesBroker
<1>1. Inv => CommanderImpliesBroker
  BY DEF Inv
<1> QED
  BY Invariance, <1>1, PTL

(***************************************************************************)
(* The exchange implements ActionRequestor.                                *)
(***************************************************************************)
LEMMA LoopIsRefined ==
    ASSUME Inv, LoopStep
    PROVE  Requestor!Next \/ UNCHANGED <<RequestorState, Returned>>
<1>1. CoreTypeOK /\ Loop /\ UNCHANGED commanderVars
  BY DEF Inv, TypeOK, LoopStep
<1>2. pc \in {"adxQuery", "influxQuery"} => \A q \in Requests : outcome[q] # "pending"
  BY DEF Inv, RequestInHand, KafkaPoints
<1>3. request \in Requests => outcome[request] # "unsent"
  BY DEF Inv, RequestInHand
<1> QED
  BY <1>1, <1>2, <1>3, LoopRefines

\* Producing the request in hand, acknowledged or not.
LEMMA ProduceIsRefined ==
    ASSUME Inv, KafkaProduce \/ KafkaProduceThrows
    PROVE  Requestor!Next \/ UNCHANGED <<RequestorState, Returned>>
<1>1. /\ pc = "kafkaProduce" /\ outcome' = outcome
      /\ commands' \in {commands, commands \cup {correlationData}}
      /\ UNCHANGED <<env, replied>>
  BY DEF KafkaProduce, KafkaProduceThrows, Goto
<1>2. /\ correlationData.id \in Requests /\ outcome[correlationData.id] # "unsent"
      /\ correlationData \in Correlation /\ CoreTypeOK
  BY <1>1 DEF Inv, TypeOK, RequestInHand, CorrelationInHand, KafkaPoints,
     RequestCorrelation, Bytes, Text
<1> HIDE DEF CoreTypeOK
<1> QED
  BY <1>1, <1>2, PublishRefines

\* The response to the request in hand is an answer that has come back.
LEMMA AnswerIsRefined ==
    ASSUME Inv, KafkaConsumeAnswer
    PROVE  Requestor!Next \/ UNCHANGED <<RequestorState, Returned>>
<1> DEFINE verdict == IF AioOnKafka THEN "succeeded" ELSE Verdict(responses[position])
<1>1. /\ pc = "kafkaWait" /\ position \in 1..Len(responses)
      /\ Handled(responses[position])
      /\ outcome' = [outcome EXCEPT ![request] = verdict]
      /\ UNCHANGED <<env, commands, replied>>
  BY DEF KafkaConsumeAnswer, Readable, commanderVars
<1>2. verdict \in Answers
  BY DEF Verdict, Answers
<1>3. request \in Requests /\ outcome[request] # "unsent"
  BY <1>1 DEF Inv, RequestInHand, KafkaPoints
<1>4. request \in Returned
  BY <1>1, <1>3 DEF Inv, CorrelationInHand, ResponsesAreEarned, Handled,
      AcceptedByHandleResponse, RequestCorrelation, AioOnKafka, Bytes, Text
<1>5. CoreTypeOK /\ Returned' = Returned
  BY <1>1, ReturnedSame DEF Inv, TypeOK
<1> HIDE DEF verdict, CoreTypeOK
<1> QED
  BY <1>1, <1>2, <1>3, <1>4, <1>5, AnswerRefines

\* A timeout gives the request up.
LEMMA TimeoutIsRefined ==
    ASSUME Inv, KafkaTimeout
    PROVE  Requestor!Next \/ UNCHANGED <<RequestorState, Returned>>
<1>1. /\ pc = "kafkaWait"
      /\ outcome' = [outcome EXCEPT ![request] = "timeout"]
      /\ UNCHANGED <<env, commands, replied>>
  BY DEF KafkaTimeout, commanderVars
<1>2. request \in Requests /\ outcome[request] # "unsent" /\ CoreTypeOK
  BY <1>1 DEF Inv, TypeOK, RequestInHand, KafkaPoints
<1>3. Returned' = Returned
  BY <1>1, ReturnedSame
<1> QED
  BY <1>1, <1>2, <1>3, AbandonRefines

\* A reply comes back for a request that was sent; any other message for none.
LEMMA EnvironmentIsRefined ==
    ASSUME Inv, Environment
    PROVE  Requestor!Next \/ UNCHANGED <<RequestorState, Returned>>
<1>1. ASSUME NEW c \in commands, replied' = replied \cup {c.id},
             UNCHANGED <<loopVars, commands>>
      PROVE  Requestor!Next
  <2>1. c.id \in Requests /\ outcome[c.id] # "unsent" /\ CoreTypeOK
    BY DEF Inv, CorrelationInHand, TypeOK
  <2>2. outcome' = outcome /\ Returned' = Returned \cup {c.id}
    BY <1>1, ReturnedReplied DEF loopVars
  <2> QED
    BY <2>1, <2>2, ReturnRefines
<1>2. ASSUME UNCHANGED <<loopVars, commands, replied>>
      PROVE  UNCHANGED <<RequestorState, Returned>>
  BY <1>2, ShownSame, ReturnedSame DEF loopVars
<1>3. ASSUME NEW c \in commands, KafkaExecute(c)
      PROVE  UNCHANGED <<loopVars, commands, replied>>
  BY <1>3 DEF KafkaExecute
<1>4. ASSUME NEW message \in Messages, KafkaAppend(message)
      PROVE  UNCHANGED <<loopVars, commands>>
  BY <1>4 DEF KafkaAppend
<1> QED
  BY <1>1, <1>2, <1>3, <1>4, EnvironmentStep DEF Inv

LEMMA RefinementStep ==
    Inv /\ [Next]_vars => [Requestor!Next]_<<RequestorState, Returned>>
<1> SUFFICES ASSUME Inv, [Next]_vars
             PROVE  Requestor!Next \/ UNCHANGED <<RequestorState, Returned>>
  OBVIOUS
<1>1. CASE LoopStep
  BY <1>1, LoopIsRefined
<1>2. CASE Send
  <2>1. CASE KafkaConsumeAnswer \/ KafkaTimeout \/ KafkaProduce \/ KafkaProduceThrows
    BY <2>1, AnswerIsRefined, TimeoutIsRefined, ProduceIsRefined
  <2>2. CASE \/ KafkaBuildProducer \/ KafkaBuildConsumer \/ KafkaAssign
             \/ KafkaConsumeOther \/ KafkaConsumeNull \/ KafkaUnsubscribe \/ KafkaThrows
    <3>1. outcome' = outcome /\ UNCHANGED <<env, commands, replied>>
      BY <2>2 DEF KafkaBuildProducer, KafkaBuildConsumer, KafkaAssign, KafkaConsumeOther,
         KafkaConsumeNull, KafkaUnsubscribe, KafkaThrows, loopVars, commanderVars
    <3> QED
      BY <3>1, ShownSame, ReturnedSame
  <2> QED
    BY <1>2, <2>1, <2>2 DEF Send
<1>3. CASE KafkaTick
  BY <1>3, ShownSame, ReturnedSame DEF KafkaTick, loopVars, commanderVars
<1>4. CASE Environment
  BY <1>4, EnvironmentIsRefined
<1>5. CASE UNCHANGED vars
  BY <1>5, ShownSame, ReturnedSame DEF vars, loopVars, commanderVars
<1> QED
  BY <1>1, <1>2, <1>3, <1>4, <1>5 DEF Next

\* The Kafka exchange keeps every promise of an action requestor: one request
\* outstanding at a time, no correlation id used twice, answers reported only
\* when something that counts as an answer has come back for the very request.
THEOREM Refinement == Spec => RequestorSpec
<1>1. Init => Requestor!Init
  BY RefinementInit DEF Init
<1>2. Inv /\ [Next]_vars => [Requestor!Next]_<<RequestorState, Returned>>
  BY RefinementStep
<1> QED
  BY Invariance, <1>1, <1>2, PTL DEF Spec, RequestorSpec, Requestor!Spec

(***************************************************************************)
(* The disposable clients.                                                 *)
(***************************************************************************)
\* What makes ClientsReleased inductive: a cycle starts with nothing open and
\* without an InfluxDB client, which is only built when the field is null.
ClientInv ==
    /\ ClientsReleased
    /\ pc \in {"start", "sleep", "query"} =>
          /\ client["influxClient"] = "null"
          /\ \A c \in Clients : client[c] # "live"
    /\ pc = "kafkaConsumer" => client["producer"] = "live"

LEMMA ClientStep == TypeOK /\ ClientInv /\ [Next]_vars => ClientInv'
<1> SUFFICES ASSUME TypeOK, ClientInv, [Next]_vars
             PROVE  ClientInv'
  OBVIOUS
<1> USE DEF ClientInv, ClientsReleased, Clients, Goto, TypeOK
<1>1. CASE LoopStep
  <2>1. ASSUME NEW r \in Requests, HighPressure(r)
        PROVE  ClientInv'
    BY <2>1 DEF HighPressure
  <2>2. CASE Run \/ Wake \/ NoHighPressure \/ QueryThrows \/ Catch
    BY <2>2 DEF Run, Wake, NoHighPressure, QueryThrows, Catch
  <2>3. CASE AdxNotConfigured \/ AdxConnect \/ AdxConnectThrows
    BY <2>3 DEF AdxNotConfigured, AdxConnect, AdxConnectThrows
  <2>4. CASE InfluxNotConfigured \/ InfluxConnect \/ InfluxConnectThrows
    BY <2>4 DEF InfluxNotConfigured, InfluxConnect, InfluxConnectThrows
  <2>5. CASE Finally
    BY <2>5 DEF Finally, Released
  <2> QED
    BY <1>1, <2>1, <2>2, <2>3, <2>4, <2>5 DEF LoopStep, Loop
<1>2. CASE Send
  <2>1. CASE KafkaBuildProducer \/ KafkaBuildConsumer
    BY <2>1 DEF KafkaBuildProducer, KafkaBuildConsumer
  <2>2. CASE KafkaProduce \/ KafkaProduceThrows \/ KafkaAssign
    BY <2>2 DEF KafkaProduce, KafkaProduceThrows, KafkaAssign, loopVars
  <2>3. CASE KafkaConsumeAnswer \/ KafkaConsumeOther \/ KafkaConsumeNull
    BY <2>3 DEF KafkaConsumeAnswer, KafkaConsumeOther, KafkaConsumeNull, Readable, loopVars
  <2>4. CASE KafkaTimeout \/ KafkaUnsubscribe \/ KafkaThrows
    BY <2>4 DEF KafkaTimeout, KafkaUnsubscribe, KafkaThrows
  <2> QED
    BY <1>2, <2>1, <2>2, <2>3, <2>4 DEF Send
<1>3. CASE KafkaTick \/ Environment
  <2>1. pc' = pc /\ client' = client
    BY <1>3 DEF KafkaTick, Environment, KafkaExecute, KafkaRespond, KafkaEcho, KafkaAppend,
       loopVars
  <2> QED
    BY <2>1
<1>4. CASE UNCHANGED vars
  BY <1>4 DEF vars, loopVars
<1> QED
  BY <1>1, <1>2, <1>3, <1>4 DEF Next

\* No step uses a client that is disposed or missing, and no client stays open
\* between two cycles, whichever step of the cycle failed.
THEOREM ClientsAreReleased == Spec => []ClientsReleased
<1>1. Init => ClientInv
  BY DEF Init, LoopInit, ClientInv, ClientsReleased, Clients
<1>2. ClientInv => ClientsReleased
  BY DEF ClientInv
<1> QED
  BY TypeCorrect, ClientStep, <1>1, <1>2, PTL DEF Spec
=============================================================================
