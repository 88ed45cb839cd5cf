------------------------ MODULE MqttExchangeProofs -------------------------
(***************************************************************************)
(* Theorems about MqttExchange, for any number of requests, any set of     *)
(* environment settings that select the MQTT transport and any length of   *)
(* the wait: what receive handlers that run late, on another thread, and a *)
(* connection that may be lost at any time cannot break.                   *)
(***************************************************************************)
EXTENDS MqttExchange, ActionProcessorProofs

USE EnvironmentsAssumption, ForeignAssumption, NoRequestAssumption,
    PlatformAssumption, WaitUnitsAssumption

(***************************************************************************)
(* Type correctness.                                                       *)
(***************************************************************************)
LEMMA TypeInit == Init => TypeOK
<1> SUFFICES ASSUME Init PROVE TypeOK
  OBVIOUS
<1>1. CoreTypeOK /\ pc \in LoopPoints
  BY CoreTypeInit DEF Init, LoopInit, LoopPoints
<1>2. handling \subseteq Deliveries /\ waited \in 0..WaitUnits
  BY DEF Init
<1>3. connected \in BOOLEAN /\ subscribed \in BOOLEAN
  BY DEF Init
<1>4. responseReceived \in BOOLEAN /\ failing \in BOOLEAN
  BY DEF Init
<1> QED
  BY <1>1, <1>2, <1>3, <1>4 DEF TypeOK

LEMMA TypeLoop ==
    ASSUME TypeOK, LoopStep
    PROVE  TypeOK'
<1>1. CoreTypeOK' /\ pc' \in LoopPoints \cup {TransportStart}
  BY LoopTypes DEF TypeOK, LoopStep, commanderVars
<1>2. TransportStart = "mqttConnect"
  BY DEF TypeOK, CoreTypeOK, TransportStart, UseMqtt
<1> QED
  BY <1>1, <1>2 DEF TypeOK, LoopStep, MqttPoints, commanderVars, mqttVars

LEMMA TypeSend ==
    ASSUME TypeOK, RequestInHand, Send
    PROVE  TypeOK'
<1> USE DEF TypeOK, CoreTypeOK, LoopPoints, MqttPoints, Goto, commanderVars, mqttVars
<1>1. CASE MqttConnect
  BY <1>1 DEF MqttConnect, AfterConnect
<1>2. CASE MqttSetUpThrows
  BY <1>2 DEF MqttSetUpThrows
<1>3. CASE MqttSubscribe
  BY <1>3 DEF MqttSubscribe
<1>4. CASE MqttPublish
  <2>1. Bytes(request) \in Correlation
    BY <1>4 DEF MqttPublish, RequestInHand, Bytes, Correlation
  <2> QED
    BY <1>4, <2>1 DEF MqttPublish
<1>5. CASE MqttAcked
  BY <1>5 DEF MqttAcked, Flags
<1>6. CASE MqttThrows
  BY <1>6 DEF MqttThrows
<1>7. CASE MqttAnswered
  BY <1>7 DEF MqttAnswered
<1>8. CASE MqttTimeout
  BY <1>8 DEF MqttTimeout, Outcomes
<1>9. CASE MqttCleanup
  BY <1>9 DEF MqttCleanup
<1>10. CASE MqttUnsubscribe
  BY <1>10 DEF MqttUnsubscribe
<1>11. CASE MqttLeave
  BY <1>11 DEF MqttLeave, Closing
<1>12. CASE MqttCleanupThrows
  BY <1>12 DEF MqttCleanupThrows, Closing
<1> QED
  BY <1>1, <1>2, <1>3, <1>4, <1>5, <1>6, <1>7, <1>8, <1>9, <1>10, <1>11, <1>12 DEF Send

LEMMA TypeTick ==
    ASSUME TypeOK, MqttTick
    PROVE  TypeOK'
BY DEF MqttTick, TickAllowed, TypeOK, CoreTypeOK, loopVars, commanderVars

LEMMA TypeHandle ==
    ASSUME TypeOK, NEW d \in handling, MqttHandle(d)
    PROVE  TypeOK'
<1> USE DEF TypeOK, CoreTypeOK, commanderVars
<1>1. d \in Deliveries /\ d.to \in Requests
  BY DEF Deliveries
<1>2. [d EXCEPT !.stage = "accepted"] \in Deliveries
  BY <1>1 DEF Deliveries
<1>3. status' \in [Flags -> BOOLEAN] /\ outcome' \in [Requests -> Outcomes]
  <2>1. status' \in [Flags -> BOOLEAN]
    BY DEF MqttHandle
  <2>2. Verdict(d.message) \in Outcomes /\ "succeeded" \in Outcomes
    BY DEF Verdict, Outcomes, Answers
  <2>3. outcome' \in [Requests -> Outcomes]
    BY <1>1, <2>2 DEF MqttHandle
  <2> QED
    BY <2>1, <2>3
<1> QED
  BY <1>2, <1>3 DEF MqttHandle

LEMMA TypeSignal ==
    ASSUME TypeOK, NEW d \in handling, MqttSignal(d)
    PROVE  TypeOK'
BY DEF MqttSignal, Signals, TypeOK, CoreTypeOK, loopVars, commanderVars

(***************************************************************************)
(* What is delivered to a client is a message that has come back for its   *)
(* request if its handler could take it for an answer, and reports success *)
(* only of a method that was called.                                       *)
(***************************************************************************)
\* The commander the code reckons with, when it talks MQTT.
LEMMA AioIsMqtts == TypeOK => AioCommander = AioOnMqtt
BY DEF TypeOK, CoreTypeOK, AioCommander, UseMqtt

Earned(d) ==
    /\ Handled(d) => d.to \in Returned'
    /\ Handled(d) /\ d.message.result = "good" => d.to \in executed

LEMMA EnvironmentStep ==
    ASSUME TypeOK, RequestInHand, CommandsWereSent, ConnectionInHand, Environment
    PROVE  \/ \E c \in commands : MqttExecute(c)
           \/ \E d \in Deliveries :
                 /\ handling' = handling \cup {d}
                 /\ d.stage = "started" /\ d.to = request
                 /\ Earned(d)
                 /\ \/ replied' = replied
                    \/ \E c \in commands : replied' = replied \cup {c.id}
                 /\ UNCHANGED <<loopVars, commands, executed, connected, subscribed,
                                responseReceived, waited, failing>>
           \/ MqttConnectionLost
<1> DEFINE delivery(message) == [to |-> request, message |-> message, stage |-> "started"]
<1>1. ASSUME NEW message \in Messages, MqttDeliver(message)
      PROVE  /\ request \in Requests
             /\ delivery(message) \in Deliveries
             /\ delivery(message).stage = "started"
             /\ delivery(message).message = message
             /\ delivery(message).to = request
             /\ handling' = handling \cup {delivery(message)}
             /\ UNCHANGED <<loopVars, commands, executed, connected, subscribed,
                            responseReceived, waited, failing>>
  BY <1>1 DEF MqttDeliver, RequestInHand, ConnectionInHand, Deliveries
<1> HIDE DEF delivery
<1>2. ASSUME NEW c \in commands, NEW result \in {"good", "bad"},
             MqttRespond(c, result)
      PROVE  \E message \in Messages :
                /\ MqttDeliver(message)
                /\ Earned(delivery(message))
                /\ replied' = replied \cup {c.id}
  <2> DEFINE m == [kind |-> "response", correlation |-> c, result |-> result]
  <2>1. /\ m \in Messages /\ MqttDeliver(m) /\ replied' = replied \cup {c.id}
        /\ m.result = "good" => c.id \in executed
    BY <1>2 DEF MqttRespond, Messages, TypeOK, CoreTypeOK
  <2>2. Handled(delivery(m)) => c = Bytes(request)
    BY <1>1, <2>1 DEF Handled, AcceptedByHandleResponse
  <2>3. Returned' = Returned \cup {c.id}
    BY <1>1, <2>1, ReturnedReplied DEF loopVars
  <2> HIDE DEF m
  <2> QED
    BY <1>1, <2>1, <2>2, <2>3 DEF Bytes, Earned
<1>3. ASSUME NEW c \in commands, MqttEcho(c)
      PROVE  \E message \in Messages :
                /\ MqttDeliver(message)
                /\ Earned(delivery(message))
                /\ replied' = replied
  <2> DEFINE m == [kind |-> "request", correlation |-> c, result |-> "bad"]
  <2>1. m \in Messages /\ MqttDeliver(m) /\ env.sharedTopic /\ replied' = replied
    BY <1>3 DEF MqttEcho, Messages, TypeOK, CoreTypeOK
  <2>2. Returned' = Returned
    BY <1>1, <2>1, ReturnedSame DEF loopVars
  <2>3. Handled(delivery(m)) => AioOnMqtt /\ c = Bytes(request)
    BY <1>1, <2>1 DEF Handled, AcceptedByHandleResponse
  <2>4. AioOnMqtt => c.id \in Returned
    BY <2>1, AioIsMqtts DEF Returned
  <2>5. m.result # "good"
    OBVIOUS
  <2> HIDE DEF m
  <2> QED
    BY <1>1, <2>1, <2>2, <2>3, <2>4, <2>5 DEF Bytes, Earned
<1>4. ASSUME MqttDeliver(OtherMessage), replied' = replied
      PROVE  \E message \in Messages :
                /\ MqttDeliver(message)
                /\ Earned(delivery(message))
                /\ replied' = replied
  <2>1. OtherMessage \in Messages /\ OtherMessage.correlation = Bytes(Foreign)
    BY DEF OtherMessage, Messages, Correlation, Bytes
  <2>2. Handled(delivery(OtherMessage)) => Bytes(Foreign) = Bytes(request)
    BY <1>1, <1>4, <2>1 DEF Handled, AcceptedByHandleResponse
  <2>3. ~Handled(delivery(OtherMessage))
    BY <1>1, <1>4, <2>1, <2>2 DEF Bytes
  <2> QED
    BY <1>4, <2>1, <2>3 DEF Earned
<1>5. ASSUME NEW message \in Messages, MqttDeliver(message), Earned(delivery(message)),
             \/ replied' = replied
             \/ \E c \in commands : replied' = replied \cup {c.id}
      PROVE  \E d \in Deliveries :
                 /\ handling' = handling \cup {d}
                 /\ d.stage = "started" /\ d.to = request
                 /\ Earned(d)
                 /\ \/ replied' = replied
                    \/ \E c \in commands : replied' = replied \cup {c.id}
                 /\ UNCHANGED <<loopVars, commands, executed, connected, subscribed,
                                responseReceived, waited, failing>>
  BY <1>1, <1>5
<1> QED
  BY <1>2, <1>3, <1>4, <1>5 DEF Environment

LEMMA TypeEnvironment ==
    ASSUME TypeOK, RequestInHand, CommandsWereSent, ConnectionInHand, Environment
    PROVE  TypeOK'
<1> USE DEF TypeOK, CoreTypeOK, loopVars, commanderVars, mqttVars
<1>1. ASSUME NEW c \in commands, MqttExecute(c)
      PROVE  TypeOK'
  BY <1>1 DEF MqttExecute, CommandsWereSent
<1>2. ASSUME NEW d \in Deliveries, handling' = handling \cup {d},
             \/ replied' = replied
             \/ \E c \in commands : replied' = replied \cup {c.id},
             UNCHANGED <<loopVars, commands, executed, connected, subscribed,
                         responseReceived, waited, failing>>
      PROVE  TypeOK'
  <2>1. replied' \subseteq Requests
    BY <1>2 DEF CommandsWereSent
  <2> QED
    BY <1>2, <2>1
<1>3. CASE MqttConnectionLost
  BY <1>3 DEF MqttConnectionLost
<1> QED
  BY <1>1, <1>2, <1>3, EnvironmentStep

(***************************************************************************)
(* The inductive invariant.                                                *)
(***************************************************************************)
LEMMA InvInit == Init => Inv
BY TypeInit
DEF Init, LoopInit, CommanderInit, Inv, RequestInHand, CommandsWereSent, DeliveriesAreEarned,
    AnswersAreEarned, ConnectionInHand, FlagFollowsPublish, MqttPoints, CleaningUp, Answers, Flags

\* The loop outside the exchange: no connection is in hand.
LEMMA InvLoop ==
    ASSUME Inv, LoopStep
    PROVE  Inv'
<1> USE DEF Inv, RequestInHand, CommandsWereSent, DeliveriesAreEarned, AnswersAreEarned,
            ConnectionInHand, FlagFollowsPublish, MqttPoints, CleaningUp, Goto,
            commanderVars, mqttVars, AioOnMqtt, Handled
<1>0. /\ TypeOK' /\ UNCHANGED <<commanderVars, mqttVars>>
      /\ Returned' = Returned /\ AioCommander' = AioCommander
  <2>1. TypeOK' /\ UNCHANGED <<env, commanderVars, mqttVars>>
    BY TypeLoop, LoopKeepsEnv DEF LoopStep
  <2> QED
    BY <2>1, ReturnedSame, AioSame
<1>1. CASE Run
  BY <1>0, <1>1 DEF Run, TypeOK, CoreTypeOK, Flags
<1>2. CASE Wake
  BY <1>0, <1>2 DEF Wake
<1>3. CASE AdxNotConfigured
  BY <1>0, <1>3 DEF AdxNotConfigured, TypeOK, CoreTypeOK, Flags
<1>4. CASE AdxConnect
  BY <1>0, <1>4 DEF AdxConnect, TypeOK, CoreTypeOK, Flags
<1>5. CASE AdxConnectThrows
  BY <1>0, <1>5 DEF AdxConnectThrows
<1>6. CASE InfluxNotConfigured
  BY <1>0, <1>6 DEF InfluxNotConfigured
<1>7. CASE InfluxConnect
  BY <1>0, <1>7 DEF InfluxConnect, TypeOK, CoreTypeOK, Flags
<1>8. CASE InfluxConnectThrows
  BY <1>0, <1>8 DEF InfluxConnectThrows, TypeOK, CoreTypeOK, Flags
<1>9. ASSUME NEW r \in Requests, HighPressure(r)
      PROVE  Inv'
  BY <1>0, <1>9 DEF HighPressure, UseMqtt, TypeOK, CoreTypeOK, Deliveries, Answers
<1>10. CASE NoHighPressure
  BY <1>0, <1>10 DEF NoHighPressure
<1>11. CASE QueryThrows
  BY <1>0, <1>11 DEF QueryThrows, TypeOK, CoreTypeOK, Flags
<1>12. CASE Catch
  BY <1>0, <1>12 DEF Catch, TypeOK, CoreTypeOK, Deliveries, ResetFlags, Flags, Answers
<1>13. CASE Finally
  BY <1>0, <1>13 DEF Finally
<1> QED
  BY <1>1, <1>2, <1>3, <1>4, <1>5, <1>6, <1>7, <1>8, <1>9, <1>10, <1>11, <1>12, <1>13
  DEF LoopStep, Loop

\* The exchange on the loop's thread.
LEMMA InvSend ==
    ASSUME Inv, Send
    PROVE  Inv'
<1> USE DEF Inv, RequestInHand, CommandsWereSent, DeliveriesAreEarned, AnswersAreEarned,
            ConnectionInHand, FlagFollowsPublish, MqttPoints, CleaningUp, LoopPoints, Goto,
            commanderVars, mqttVars, AioOnMqtt, Handled
<1>0. TypeOK' /\ UNCHANGED <<env, executed, replied>>
  BY TypeSend DEF Send, MqttConnect, MqttSetUpThrows, MqttSubscribe, MqttPublish, MqttAcked,
     MqttThrows, MqttAnswered, MqttTimeout, MqttCleanup, MqttUnsubscribe, MqttLeave,
     MqttCleanupThrows
<1>a. AioCommander' = AioCommander
  BY <1>0, AioSame
<1>r. commands' = commands => Returned' = Returned
  BY <1>0, ReturnedSame
<1>g. commands \subseteq commands' => Returned \subseteq Returned'
  BY <1>0, ReturnedGrows
<1>1. CASE MqttConnect
  BY <1>0, <1>a, <1>r, <1>1 DEF MqttConnect, AfterConnect
<1>2. CASE MqttSetUpThrows
  BY <1>0, <1>a, <1>r, <1>2 DEF MqttSetUpThrows
<1>3. CASE MqttSubscribe
  BY <1>0, <1>a, <1>r, <1>3 DEF MqttSubscribe
<1>4. CASE MqttPublish
  BY <1>0, <1>a, <1>g, <1>4 DEF MqttPublish, Bytes
<1>5. CASE MqttAcked
  BY <1>0, <1>a, <1>r, <1>5 DEF MqttAcked
<1>6. CASE MqttThrows
  BY <1>0, <1>a, <1>r, <1>6 DEF MqttThrows
<1>7. CASE MqttAnswered
  BY <1>0, <1>a, <1>r, <1>7 DEF MqttAnswered, Answers
<1>8. CASE MqttTimeout
  BY <1>0, <1>a, <1>r, <1>8 DEF MqttTimeout, TypeOK, CoreTypeOK, Deliveries, Answers
<1>9. CASE MqttCleanup
  BY <1>0, <1>a, <1>r, <1>9 DEF MqttCleanup
<1>10. CASE MqttUnsubscribe
  BY <1>0, <1>a, <1>r, <1>10 DEF MqttUnsubscribe
<1>11. CASE MqttLeave
  BY <1>0, <1>a, <1>r, <1>11 DEF MqttLeave, Closing
<1>12. CASE MqttCleanupThrows
  BY <1>0, <1>a, <1>r, <1>12 DEF MqttCleanupThrows, Closing
<1> QED
  BY <1>1, <1>2, <1>3, <1>4, <1>5, <1>6, <1>7, <1>8, <1>9, <1>10, <1>11, <1>12 DEF Send

LEMMA InvTick ==
    ASSUME Inv, MqttTick
    PROVE  Inv'
BY TypeTick, ReturnedSame, AioSame
DEF Inv, MqttTick, RequestInHand, CommandsWereSent, DeliveriesAreEarned, AnswersAreEarned,
    ConnectionInHand, FlagFollowsPublish, loopVars, commanderVars, AioOnMqtt, Handled

\* The receive handler, at whatever time it comes to run.
LEMMA InvHandle ==
    ASSUME Inv, NEW d \in handling, MqttHandle(d)
    PROVE  Inv'
<1> USE DEF Inv
<1>0. TypeOK'
  BY TypeHandle
<1>1. d.to \in Requests
  BY DEF TypeOK, Deliveries
<1>2. UNCHANGED <<env, pc, request, lastPublish, commands, executed, connected, subscribed,
                  responseReceived, waited, failing>>
  BY DEF MqttHandle, commanderVars
<1>a. UNCHANGED <<replied, Returned, AioCommander>>
  <2>1. UNCHANGED <<env, commands, replied>>
    BY DEF MqttHandle, commanderVars
  <2> QED
    BY <2>1, ReturnedSame, AioSame
<1>3. CASE ~Handled(d)
  BY <1>0, <1>2, <1>a, <1>3 DEF MqttHandle, RequestInHand, CommandsWereSent, DeliveriesAreEarned,
     AnswersAreEarned, ConnectionInHand, FlagFollowsPublish, AioOnMqtt, Handled
<1>4. CASE Handled(d)
  <2> DEFINE e == [d EXCEPT !.stage = "accepted"]
  <2>1. /\ outcome'[d.to] \in Answers
        /\ \A r \in Requests \ {d.to} : outcome'[r] = outcome[r]
        /\ handling' = (handling \ {d}) \cup {e}
        /\ status' = [status EXCEPT !["ConnectionToUACloudCommander"] = TRUE]
        /\ ~AioOnMqtt /\ outcome'[d.to] = "succeeded" => d.message.result = "good"
    BY <1>1, <1>4 DEF MqttHandle, TypeOK, CoreTypeOK, Verdict, Answers
  <2>2. /\ d.to \in Returned
        /\ d.message.result = "good" => d.to \in executed
    BY <1>4 DEF DeliveriesAreEarned
  <2>3. RequestInHand' /\ CommandsWereSent'
    <3>1. outcome'[d.to] \notin {"pending", "unsent"}
      BY <2>1 DEF Answers
    <3>2. \A r \in Requests : outcome'[r] \in {"pending", "unsent"} => outcome'[r] = outcome[r]
      BY <2>1, <3>1
    <3>3. \A r \in Requests : outcome[r] \in Answers => outcome'[r] \in Answers
      BY <2>1
    <3>4. RequestInHand'
      BY <1>2, <3>2, <3>3 DEF RequestInHand, CleaningUp, MqttPoints
    <3>5. CommandsWereSent'
      BY <1>2, <1>a, <3>2 DEF CommandsWereSent, TypeOK, CoreTypeOK
    <3> QED
      BY <3>4, <3>5
  <2>4. DeliveriesAreEarned'
    <3>1. e.to = d.to /\ e.message = d.message
      BY DEF TypeOK, Deliveries
    <3>2. \A f \in handling : f.to \in Requests
      BY DEF TypeOK, Deliveries
    <3>3. \A f \in handling : Handled(f)' = Handled(f)
      BY <1>2 DEF Handled, AioOnMqtt
    <3> HIDE DEF e
    <3>4. /\ outcome'[e.to] \in Answers /\ e.to \in Returned
          /\ e.message.result = "good" => e.to \in executed
      BY <2>1, <2>2, <3>1
    <3>5. \A r \in Requests : outcome[r] # "unsent" => outcome'[r] # "unsent"
      BY <2>1 DEF Answers
    <3>6. \A r \in Requests : outcome[r] \in Answers => outcome'[r] \in Answers
      BY <2>1
    <3>7. ASSUME NEW f \in handling
          PROVE  /\ Handled(f)' => f.to \in Returned'
                 /\ Handled(f)' /\ f.message.result = "good" => f.to \in executed'
                 /\ outcome'[f.to] # "unsent"
                 /\ f.stage = "accepted" /\ f.to = request /\ pc \in MqttPoints \ CleaningUp
                       => outcome'[request] \in Answers
      BY <1>a, <1>2, <3>2, <3>3, <3>5, <3>6 DEF DeliveriesAreEarned
    <3>8. /\ Handled(e)' => e.to \in Returned'
          /\ Handled(e)' /\ e.message.result = "good" => e.to \in executed'
          /\ outcome'[e.to] # "unsent"
          /\ e.stage = "accepted" /\ e.to = request /\ pc \in MqttPoints \ CleaningUp
                => outcome'[request] \in Answers
      <4>1. e.to \in Returned' /\ (e.message.result = "good" => e.to \in executed')
        BY <1>a, <1>2, <3>4
      <4>2. outcome'[e.to] # "unsent" /\ (e.to = request => outcome'[request] \in Answers)
        BY <3>4 DEF Answers
      <4> QED
        BY <4>1, <4>2
    <3>9. handling' = (handling \ {d}) \cup {e} /\ UNCHANGED <<pc, request>>
      BY <1>2, <2>1
    <3> QED
      BY <3>7, <3>8, <3>9 DEF DeliveriesAreEarned
  <2>5. AnswersAreEarned'
    BY <1>2, <1>a, <2>1, <2>2, AioIsMqtts DEF AnswersAreEarned
  <2>6. ConnectionInHand' /\ FlagFollowsPublish'
    BY <1>2, <2>1 DEF ConnectionInHand, FlagFollowsPublish, TypeOK, CoreTypeOK, Flags
  <2> QED
    BY <1>0, <2>3, <2>4, <2>5, <2>6
<1> QED
  BY <1>3, <1>4

\* Setting the event: it is the event of the send in progress only for a delivery
\* to that send, which has its verdict.
LEMMA InvSignal ==
    ASSUME Inv, NEW d \in handling, MqttSignal(d)
    PROVE  Inv'
<1> USE DEF Inv, loopVars, commanderVars
<1>1. /\ d.stage = "accepted" /\ handling' = handling \ {d}
      /\ responseReceived' = (responseReceived \/ d.to = request)
      /\ UNCHANGED <<loopVars, commanderVars, connected, subscribed, waited, failing>>
  BY DEF MqttSignal, Signals
<1>2. TypeOK' /\ UNCHANGED <<Returned, AioCommander>>
  BY <1>1, TypeSignal, ReturnedSame, AioSame
<1>3. d.to = request /\ pc \in MqttPoints \ CleaningUp => outcome[request] \in Answers
  BY <1>1 DEF DeliveriesAreEarned
<1>4. RequestInHand'
  BY <1>1, <1>3 DEF RequestInHand
<1>5. DeliveriesAreEarned'
  BY <1>1, <1>2 DEF DeliveriesAreEarned, Handled, AioOnMqtt
<1>6. CommandsWereSent' /\ AnswersAreEarned' /\ ConnectionInHand' /\ FlagFollowsPublish'
  BY <1>1, <1>2 DEF CommandsWereSent, AnswersAreEarned, ConnectionInHand, FlagFollowsPublish
<1> QED
  BY <1>2, <1>4, <1>5, <1>6

\* The broker and the commander.
LEMMA InvEnvironment ==
    ASSUME Inv, Environment
    PROVE  Inv'
<1> USE DEF Inv, RequestInHand, CommandsWereSent, DeliveriesAreEarned, AnswersAreEarned,
            ConnectionInHand, FlagFollowsPublish, loopVars, commanderVars, mqttVars,
            AioOnMqtt, Handled
<1>0. TypeOK'
  BY TypeEnvironment
<1>1. ASSUME NEW c \in commands, MqttExecute(c)
      PROVE  Inv'
  <2>1. UNCHANGED <<loopVars, commands, replied, mqttVars>> /\ executed' = executed \cup {c.id}
    BY <1>1 DEF MqttExecute
  <2>2. Returned' = Returned /\ AioCommander' = AioCommander
    BY <2>1, ReturnedSame, AioSame
  <2> QED
    BY <1>0, <2>1, <2>2
<1>2. ASSUME NEW d \in Deliveries, handling' = handling \cup {d},
             d.stage = "started", d.to = request, Earned(d),
             \/ replied' = replied
             \/ \E c \in commands : replied' = replied \cup {c.id},
             UNCHANGED <<loopVars, commands, executed, connected, subscribed,
                         responseReceived, waited, failing>>
      PROVE  Inv'
  <2>1. Returned \subseteq Returned' /\ AioCommander' = AioCommander
    BY <1>2, ReturnedGrows, AioSame
  <2>2. RequestInHand' /\ CommandsWereSent'
    BY <1>2
  <2>3. outcome[d.to] # "unsent"
    BY <1>2 DEF Deliveries
  <2>4. DeliveriesAreEarned'
    BY <1>2, <2>1, <2>3 DEF Earned
  <2>5. AnswersAreEarned' /\ ConnectionInHand' /\ FlagFollowsPublish'
    BY <1>2, <2>1
  <2> QED
    BY <1>0, <2>2, <2>4, <2>5
<1>3. CASE MqttConnectionLost
  <2>1. UNCHANGED <<Returned, AioCommander>>
    BY <1>3, ReturnedSame, AioSame DEF MqttConnectionLost
  <2> QED
    BY <1>0, <1>3, <2>1 DEF MqttConnectionLost
<1> QED
  BY <1>1, <1>2, <1>3, EnvironmentStep

LEMMA InvStutter ==
    ASSUME Inv, UNCHANGED vars
    PROVE  Inv'
BY ReturnedSame, AioSame
DEF Inv, TypeOK, CoreTypeOK, RequestInHand, CommandsWereSent, DeliveriesAreEarned,
    AnswersAreEarned, ConnectionInHand, FlagFollowsPublish, vars, loopVars, commanderVars,
    mqttVars, AioOnMqtt, Handled

LEMMA InvStep == Inv /\ [Next]_vars => Inv'
BY InvLoop, InvSend, InvHandle, InvSignal, InvTick, InvEnvironment, InvStutter DEF Next, Handler

\* Every reachable state satisfies the inductive invariant.
THEOREM Invariance == Spec => []Inv
<1>1. Inv /\ [Next]_vars => Inv'
  BY InvStep
<1> QED
  BY InvInit, <1>1, PTL DEF Spec

(***************************************************************************)
(* The properties.                                                         *)
(***************************************************************************)
\* Every variable keeps its type, and the wait its 15 seconds.
THEOREM TypeCorrect == Spec => []TypeOK
<1>1. Inv => TypeOK
  BY DEF Inv
<1> QED
  BY Invariance, <1>1, PTL

\* However late its receive handler runs and whatever is delivered to it, a request is
\* reported as answered only if it was replied to, or came back itself to a requestor
\* of an AIO commander; and UA Cloud Commander's success means a method call.
THEOREM AnswersEarned == Spec => []AnswersAreEarned
<1>1. Inv => AnswersAreEarned
  BY DEF Inv
<1> QED
  BY Invariance, <1>1, PTL

\* No answer is missed for want of a subscription.
THEOREM SubscribesInTime == Spec => []SubscribedInTime
<1>1. Inv => SubscribedInTime
  BY DEF Inv, ConnectionInHand, SubscribedInTime
<1> QED
  BY Invariance, <1>1, PTL

\* The wait is never ended by a handler of another send, and a cycle that ends without
\* an exception has a verdict for its request.
THEOREM WaitsEndWithVerdict == Spec => []WaitEndsWithVerdict
<1>1. Inv => WaitEndsWithVerdict
  BY DEF Inv, RequestInHand, WaitEndsWithVerdict, MqttPoints, CleaningUp
<1> QED
  BY Invariance, <1>1, PTL

\* The broker flag means that the latest publish was acknowledged, whichever step of
\* the exchange or of its clean-up failed.
THEOREM BrokerFlagEarned == Spec => []BrokerFlagIsEarned
<1>1. Inv => BrokerFlagIsEarned
  BY DEF Inv, ConnectionInHand, FlagFollowsPublish, BrokerFlagIsEarned, CleaningUp
<1> QED
  BY Invariance, <1>1, PTL

\* No connection outlives its cycle, and no exception is left to be raised again.
THEOREM ConnectionsAreClosed == Spec => []ConnectionClosed
<1>1. Inv => ConnectionClosed
  BY DEF Inv, ConnectionInHand, ConnectionClosed, MqttPoints, CleaningUp
<1> QED
  BY Invariance, <1>1, PTL

(***************************************************************************)
(* The exchange implements ActionRequestor.                                *)
(***************************************************************************)
LEMMA LoopIsRefined ==
    ASSUME Inv, LoopStep
    PROVE  Requestor!Next \/ UNCHANGED <<RequestorState, Returned>>
<1>1. CoreTypeOK /\ Loop /\ UNCHANGED commanderVars
  BY DEF Inv, TypeOK, LoopStep
<1>2. pc \in {"adxQuery", "influxQuery"} => \A q \in Requests : outcome[q] # "pending"
  BY DEF Inv, RequestInHand, MqttPoints
<1>3. request \in Requests => outcome[request] # "unsent"
  BY DEF Inv, RequestInHand
<1> QED
  BY <1>1, <1>2, <1>3, LoopRefines

\* Publishing the request in hand.
LEMMA PublishIsRefined ==
    ASSUME Inv, MqttPublish
    PROVE  Requestor!Next \/ UNCHANGED <<RequestorState, Returned>>
<1>1. /\ pc = "mqttPublish" /\ outcome' = outcome
      /\ commands' = commands \cup {Bytes(request)}
      /\ UNCHANGED <<env, replied>>
  BY DEF MqttPublish, Goto
<1>2. request \in Requests /\ outcome[request] # "unsent" /\ CoreTypeOK
  BY <1>1 DEF Inv, TypeOK, RequestInHand, MqttPoints
<1>3. Bytes(request) \in Correlation /\ Bytes(request).id = request
  BY <1>2 DEF Bytes, Correlation
<1> HIDE DEF Bytes
<1> QED
  BY <1>1, <1>2, <1>3, PublishRefines

\* A timeout gives the request up, even if its answer has been reported already by a
\* handler that has not set the event yet.
LEMMA TimeoutIsRefined ==
    ASSUME Inv, MqttTimeout
    PROVE  Requestor!Next \/ UNCHANGED <<RequestorState, Returned>>
<1>1. /\ pc = "mqttWait"
      /\ outcome' = [outcome EXCEPT ![request] = "timeout"]
      /\ UNCHANGED <<env, commands, replied>>
  BY DEF MqttTimeout, Goto, commanderVars
<1>2. request \in Requests /\ outcome[request] # "unsent" /\ CoreTypeOK
  BY <1>1 DEF Inv, TypeOK, RequestInHand, MqttPoints
<1>3. Returned' = Returned
  BY <1>1, ReturnedSame
<1> QED
  BY <1>1, <1>2, <1>3, AbandonRefines

\* A handler reports an answer that has come back, to a request outstanding, given up
\* or even answered before, or it drops the message.
LEMMA HandleIsRefined ==
    ASSUME Inv, NEW d \in handling, MqttHandle(d)
    PROVE  Requestor!Next \/ UNCHANGED <<RequestorState, Returned>>
<1>1. /\ d.to \in Requests /\ CoreTypeOK
      /\ UNCHANGED <<env, commands, replied>>
  BY DEF MqttHandle, Inv, TypeOK, Deliveries, commanderVars
<1>r. Returned' = Returned
  BY <1>1, ReturnedSame
<1>2. CASE Handled(d)
  <2> DEFINE verdict == IF AioOnMqtt THEN "succeeded" ELSE Verdict(d.message)
  <2>1. outcome' = [outcome EXCEPT ![d.to] = verdict]
    BY <1>2 DEF MqttHandle
  <2>2. verdict \in Answers
    BY DEF Verdict, Answers
  <2>3. d.to \in Returned /\ outcome[d.to] # "unsent"
    BY <1>1, <1>2 DEF Inv, DeliveriesAreEarned
  <2> HIDE DEF verdict
  <2> QED
    BY <1>1, <1>r, <2>1, <2>2, <2>3, AnswerRefines
<1>3. CASE ~Handled(d)
  BY <1>r, <1>3, ShownSame DEF MqttHandle
<1> QED
  BY <1>2, <1>3

\* A reply comes back for a request that was sent; any other step of the environment
\* changes nothing the requestor shows.
LEMMA EnvironmentIsRefined ==
    ASSUME Inv, Environment
    PROVE  Requestor!Next \/ UNCHANGED <<RequestorState, Returned>>
<1>1. ASSUME NEW c \in commands, replied' = replied \cup {c.id},
             UNCHANGED <<loopVars, commands>>
      PROVE  Requestor!Next
  <2>1. c.id \in Requests /\ outcome[c.id] # "unsent" /\ CoreTypeOK
    BY DEF Inv, CommandsWereSent, TypeOK
  <2>2. outcome' = outcome /\ Returned' = Returned \cup {c.id}
    BY <1>1, ReturnedReplied DEF loopVars
  <2> QED
    BY <2>1, <2>2, ReturnRefines
<1>2. ASSUME UNCHANGED <<loopVars, commands, replied>>
      PROVE  UNCHANGED <<RequestorState, Returned>>
  BY <1>2, ShownSame, ReturnedSame DEF loopVars
<1>3. ASSUME NEW c \in commands, MqttExecute(c)
      PROVE  UNCHANGED <<loopVars, commands, replied>>
  BY <1>3 DEF MqttExecute
<1>4. CASE MqttConnectionLost
  BY <1>2, <1>4 DEF MqttConnectionLost, commanderVars
<1> QED
  BY <1>1, <1>2, <1>3, <1>4, EnvironmentStep DEF Inv

LEMMA RefinementStep ==
    Inv /\ [Next]_vars => [Requestor!Next]_<<RequestorState, Returned>>
<1> SUFFICES ASSUME Inv, [Next]_vars
             PROVE  Requestor!Next \/ UNCHANGED <<RequestorState, Returned>>
  OBVIOUS
<1>1. CASE LoopStep
  BY <1>1, LoopIsRefined
<1>2. CASE Send
  <2>1. CASE MqttTimeout \/ MqttPublish
    BY <2>1, TimeoutIsRefined, PublishIsRefined
  <2>2. CASE \/ MqttConnect \/ MqttSetUpThrows \/ MqttSubscribe \/ MqttAcked
             \/ MqttThrows \/ MqttAnswered \/ MqttCleanup \/ MqttUnsubscribe \/ MqttLeave
             \/ MqttCleanupThrows
    <3>1. outcome' = outcome /\ UNCHANGED <<env, commands, replied>>
      BY <2>2 DEF MqttConnect, MqttSetUpThrows, MqttSubscribe, MqttAcked,
         MqttThrows, MqttAnswered, MqttCleanup, MqttUnsubscribe, MqttLeave,
         MqttCleanupThrows, commanderVars
    <3> QED
      BY <3>1, ShownSame, ReturnedSame
  <2> QED
    BY <1>2, <2>1, <2>2 DEF Send
<1>3. CASE Handler
  <2>1. ASSUME NEW d \in handling, MqttSignal(d)
        PROVE  UNCHANGED <<RequestorState, Returned>>
    BY <2>1, ShownSame, ReturnedSame DEF MqttSignal, loopVars, commanderVars
  <2> QED
    BY <1>3, <2>1, HandleIsRefined DEF Handler
<1>4. CASE MqttTick
  BY <1>4, ShownSame, ReturnedSame DEF MqttTick, loopVars, commanderVars
<1>5. CASE Environment
  BY <1>5, EnvironmentIsRefined
<1>6. CASE UNCHANGED vars
  BY <1>6, ShownSame, ReturnedSame DEF vars, loopVars, commanderVars
<1> QED
  BY <1>1, <1>2, <1>3, <1>4, <1>5, <1>6 DEF Next

\* The MQTT exchange, its handlers running when they please, keeps every promise of
\* an action requestor: one request outstanding at a time, no correlation id used
\* twice, answers reported only when something that counts as an answer has come back
\* for the very request.
THEOREM Refinement == Spec => RequestorSpec
<1>1. Init => Requestor!Init
  BY RefinementInit DEF Init
<1>2. Inv /\ [Next]_vars => [Requestor!Next]_<<RequestorState, Returned>>
  BY RefinementStep
<1> QED
  BY Invariance, <1>1, <1>2, PTL DEF Spec, RequestorSpec, Requestor!Spec
=============================================================================
