---------------------------- MODULE MqttExchange ----------------------------
(***************************************************************************)
(* SendRequestViaMqtt: a client is built for the cycle, connects to the    *)
(* broker, subscribes to RESPONSE_TOPIC, publishes the request and waits   *)
(* 15 seconds for an event that the client's receive handler sets from     *)
(* another thread.  The handler may still run after the wait, the cycle or *)
(* the connection has ended; it then has the correlation data and the      *)
(* event of the send it was registered by.                                 *)
(*                                                                         *)
(* The client library, the broker and the commander are external.  The     *)
(* broker drops what it cannot deliver to a subscriber, so an answer that  *)
(* is lost, and a request that expires, is a step that is not taken.       *)
(***************************************************************************)
EXTENDS ActionProcessor

CONSTANT WaitUnits   \* the 15 seconds of the wait, in clock units

ASSUME PlatformAssumption == \A e \in Environments : e.platform = "MQTT"
ASSUME WaitUnitsAssumption == WaitUnits \in Nat

VARIABLES
    connected,         \* client.IsConnected
    subscribed,        \* the broker has the client's subscription
    handling,          \* deliveries the receive handler is at work on
    responseReceived,  \* the event of the send in progress
    waited,            \* time since the wait began
    failing            \* an exception is on its way through the finally block

mqttVars == <<connected, subscribed, handling, responseReceived, waited, failing>>
vars == <<loopVars, commanderVars, mqttVars>>

MqttPoints == {"mqttConnect", "mqttSubscribe", "mqttPublish", "mqttAck", "mqttWait",
               "mqttCleanup", "mqttUnsubscribe", "mqttDisconnect"}
CleaningUp == {"mqttCleanup", "mqttUnsubscribe", "mqttDisconnect"}   \* the finally block

\* A message at the receive handler of the client that sent request "to".
Deliveries == [to : Requests, message : Messages, stage : {"started", "accepted"}]

Init ==
    /\ LoopInit
    /\ CommanderInit
    /\ connected = FALSE
    /\ subscribed = FALSE
    /\ handling = {}
    /\ responseReceived = FALSE
    /\ waited = 0
    /\ failing = FALSE

(***************************************************************************)
(* The loop thread.                                                        *)
(***************************************************************************)
AfterConnectUnsubscribed == "mqttPublish"   \* mutant: subscribing is forgotten

\* SubscribeAsync is called only when RESPONSE_TOPIC is set.
AfterConnect == IF env.responseTopic THEN "mqttSubscribe" ELSE "mqttPublish"

\* A new client, with a new event, connects.
MqttConnect ==
    /\ Goto("mqttConnect", AfterConnect)
    /\ connected' = TRUE
    /\ responseReceived' = FALSE
    /\ UNCHANGED <<env, status, client, request, outcome, lastQuery, lastPublish>>
    /\ UNCHANGED <<commanderVars, subscribed, handling, waited, failing>>

MqttSubscribe ==
    /\ Goto("mqttSubscribe", "mqttPublish")
    /\ connected
    /\ subscribed' = TRUE
    /\ UNCHANGED <<env, status, client, request, outcome, lastQuery, lastPublish>>
    /\ UNCHANGED <<commanderVars, connected, handling, responseReceived, waited, failing>>

\* PublishAsync, QoS 1: the broker stores the request ...
MqttPublish ==
    /\ Goto("mqttPublish", "mqttAck")
    /\ connected
    /\ commands' = commands \cup {Bytes(request)}
    /\ UNCHANGED <<env, status, client, request, outcome, lastQuery, lastPublish>>
    /\ UNCHANGED <<executed, replied, mqttVars>>

\* ... and acknowledges it.
MqttAcked ==
    /\ Goto("mqttAck", "mqttWait")
    /\ connected
    /\ status' = [status EXCEPT !["ConnectionToBroker"] = TRUE]
    /\ lastPublish' = "acked"
    /\ waited' = 0
    /\ UNCHANGED <<env, client, request, outcome, lastQuery>>
    /\ UNCHANGED <<commanderVars, connected, subscribed, handling, responseReceived, failing>>

\* An exception leaves the try block; publishing may have reached the broker.
MqttThrows ==
    /\ pc \in {"mqttConnect", "mqttSubscribe", "mqttPublish", "mqttAck"}
    /\ pc' = "mqttCleanup"
    /\ failing' = TRUE
    /\ lastPublish' = IF pc \in {"mqttPublish", "mqttAck"} THEN "failed" ELSE lastPublish
    /\ UNCHANGED <<env, status, client, request, outcome, lastQuery>>
    /\ UNCHANGED <<commanderVars, connected, subscribed, handling, responseReceived, waited>>

\* The options cannot be built: the try block is never entered.
MqttSetUpThrows ==
    /\ Goto("mqttConnect", "catch")
    /\ UNCHANGED <<env, status, client, request, outcome, lastQuery, lastPublish>>
    /\ UNCHANGED <<commanderVars, mqttVars>>

\* Wait returns true.
MqttAnswered ==
    /\ Goto("mqttWait", "mqttCleanup")
    /\ responseReceived
    /\ UNCHANGED <<env, status, client, request, outcome, lastQuery, lastPublish>>
    /\ UNCHANGED <<commanderVars, mqttVars>>

\* Mutant: the wait has no timeout.
MqttTimeoutMissing == FALSE /\ UNCHANGED vars

\* Wait returns false and the timeout is reported; by then the handler may have
\* reported the answer and not have set the event yet.
MqttTimeout ==
    /\ Goto("mqttWait", "mqttCleanup")
    /\ ~responseReceived /\ waited = WaitUnits
    /\ outcome' = [outcome EXCEPT ![request] = "timeout"]
    /\ UNCHANGED <<env, status, client, request, lastQuery, lastPublish>>
    /\ UNCHANGED <<commanderVars, mqttVars>>

TickAllowed == waited < WaitUnits

\* Time passes; nothing that is received restarts the wait.
MqttTick ==
    /\ pc = "mqttWait" /\ TickAllowed
    /\ waited' = waited + 1
    /\ UNCHANGED <<loopVars, commanderVars, connected, subscribed, handling,
                   responseReceived, failing>>

\* Mutant: the client is not disposed.
ClosingOnlyIfClean == connected' = (pc = "mqttUnsubscribe" /\ connected) /\ subscribed' = FALSE

\* The client, a using variable, is disposed whichever way the method is left.
Closing == connected' = FALSE /\ subscribed' = FALSE

\* The finally block asks whether the client is connected.
MqttCleanup ==
    /\ pc = "mqttCleanup"
    /\ connected
    /\ pc' = IF env.responseTopic THEN "mqttUnsubscribe" ELSE "mqttDisconnect"
    /\ UNCHANGED <<env, status, client, request, outcome, lastQuery, lastPublish>>
    /\ UNCHANGED <<commanderVars, mqttVars>>

MqttUnsubscribe ==
    /\ Goto("mqttUnsubscribe", "mqttDisconnect")
    /\ connected
    /\ subscribed' = FALSE
    /\ UNCHANGED <<env, status, client, request, outcome, lastQuery, lastPublish>>
    /\ UNCHANGED <<commanderVars, connected, handling, responseReceived, waited, failing>>

\* The method is left: after disconnecting, or at once if there is no connection.
MqttLeave ==
    /\ pc = IF connected THEN "mqttDisconnect" ELSE "mqttCleanup"
    /\ pc' = IF failing THEN "catch" ELSE "finally"
    /\ Closing
    /\ failing' = FALSE
    /\ UNCHANGED <<env, status, client, request, outcome, lastQuery, lastPublish>>
    /\ UNCHANGED <<commanderVars, handling, responseReceived, waited>>

\* UnsubscribeAsync or DisconnectAsync throws, for instance because the
\* connection was lost after it was asked for; this replaces any exception the
\* finally block was entered with.
MqttCleanupThrows ==
    /\ pc \in {"mqttUnsubscribe", "mqttDisconnect"}
    /\ pc' = "catch"
    /\ Closing
    /\ failing' = FALSE
    /\ UNCHANGED <<env, status, client, request, outcome, lastQuery, lastPublish>>
    /\ UNCHANGED <<commanderVars, handling, responseReceived, waited>>

(***************************************************************************)
(* The receive handler, on a thread of the client library.                 *)
(***************************************************************************)
\* Mutant: a response is taken for ours whatever its correlation data.
HandledUncorrelated(d) == d.message.kind = "response"

\* With an AIO commander only the transport's correlation data is compared,
\* with that of the send the handler was registered by.
Handled(d) ==
    IF AioOnMqtt THEN d.message.correlation = Bytes(d.to)
                 ELSE AcceptedByHandleResponse(d.message, Bytes(d.to))

\* The handler looks at the message: it drops it, or reports the answer.
MqttHandle(d) ==
    /\ d.stage = "started"
    /\ IF Handled(d)
       THEN /\ status' = [status EXCEPT !["ConnectionToUACloudCommander"] = TRUE]
            /\ outcome' = [outcome EXCEPT ![d.to] =
                             IF AioOnMqtt THEN "succeeded" ELSE Verdict(d.message)]
            /\ handling' = (handling \ {d}) \cup {[d EXCEPT !.stage = "accepted"]}
       ELSE /\ handling' = handling \ {d}
            /\ UNCHANGED <<status, outcome>>
    /\ UNCHANGED <<env, pc, client, request, lastQuery, lastPublish>>
    /\ UNCHANGED <<commanderVars, connected, subscribed, responseReceived, waited, failing>>

SignalsAnyone(d) == TRUE   \* mutant: one event shared by all sends
Signals(d) == d.to = request

\* responseReceived.Set(): the event of the handler's own send.
MqttSignal(d) ==
    /\ d.stage = "accepted"
    /\ responseReceived' = (responseReceived \/ Signals(d))
    /\ handling' = handling \ {d}
    /\ UNCHANGED <<loopVars, commanderVars, connected, subscribed, waited, failing>>

(***************************************************************************)
(* The broker and the commander.                                           *)
(***************************************************************************)
MqttExecute(c) ==
    /\ executed' = executed \cup {c.id}
    /\ UNCHANGED <<loopVars, commands, replied, mqttVars>>

\* The broker delivers a message; a client runs one handler at a time.
MqttDeliver(message) ==
    /\ connected /\ subscribed
    /\ \A d \in handling : d.to # request
    /\ handling' = handling \cup {[to |-> request, message |-> message, stage |-> "started"]}
    /\ UNCHANGED <<loopVars, commands, executed, connected, subscribed, responseReceived,
                   waited, failing>>

\* The commander replies, once or more often, echoing the correlation data; it has
\* called the method if it says so, and may report a failure without having called it.
MqttRespond(c, result) ==
    /\ result = "good" => c.id \in executed
    /\ replied' = replied \cup {c.id}
    /\ MqttDeliver([kind |-> "response", correlation |-> c, result |-> result])

\* A request turns up on the response topic: a shared or misrouted topic.
MqttEcho(c) ==
    /\ env.sharedTopic
    /\ MqttDeliver([kind |-> "request", correlation |-> c, result |-> "bad"])
    /\ UNCHANGED replied

\* A message that has nothing to do with this process; one that is not even JSON is
\* dropped as this one is.
OtherMessage == [kind |-> "response", correlation |-> Bytes(Foreign), result |-> "bad"]

MqttConnectionLost ==
    /\ connected
    /\ connected' = FALSE
    /\ subscribed' = FALSE
    /\ UNCHANGED <<loopVars, commanderVars, handling, responseReceived, waited, failing>>

Environment ==
    \/ \E c \in commands : MqttExecute(c)
    \/ \E c \in commands, result \in {"good", "bad"} : MqttRespond(c, result)
    \/ \E c \in commands : MqttEcho(c)
    \/ MqttDeliver(OtherMessage) /\ UNCHANGED replied
    \/ MqttConnectionLost

(***************************************************************************)
(* The specification.                                                      *)
(***************************************************************************)
Send ==
    \/ MqttConnect \/ MqttSetUpThrows
    \/ MqttSubscribe
    \/ MqttPublish \/ MqttAcked
    \/ MqttThrows
    \/ MqttAnswered \/ MqttTimeout
    \/ MqttCleanup \/ MqttUnsubscribe \/ MqttLeave \/ MqttCleanupThrows

Handler == \E d \in handling : MqttHandle(d) \/ MqttSignal(d)

LoopStep == Loop /\ UNCHANGED <<commanderVars, mqttVars>>

Next == LoopStep \/ Send \/ Handler \/ MqttTick \/ Environment

Spec == Init /\ [][Next]_vars

\* Neither thread is starved and time passes; the broker and the commander owe
\* nothing, and other messages may arrive for ever.
FairSpec == Spec /\ WF_vars(LoopStep \/ Send) /\ WF_vars(Handler) /\ WF_vars(MqttTick)

(***************************************************************************)
(* Properties.                                                             *)
(***************************************************************************)
\* Every variable has its type, and the wait never exceeds its 15 seconds.
TypeOK ==
    /\ CoreTypeOK
    /\ pc \in LoopPoints \cup MqttPoints
    /\ handling \subseteq Deliveries
    /\ connected \in BOOLEAN /\ subscribed \in BOOLEAN
    /\ responseReceived \in BOOLEAN /\ failing \in BOOLEAN
    /\ waited \in 0..WaitUnits

\* A request is reported as answered only if the commander replied to that very
\* request or, with an AIO commander, the request itself came back on a shared
\* topic, however late its handler runs and whatever else is delivered.  UA Cloud
\* Commander's success moreover means that the method was called.
AnswersAreEarned ==
    \A r \in Requests :
        /\ outcome[r] \in Answers => r \in Returned
        /\ outcome[r] = "succeeded" /\ ~AioCommander => r \in executed

\* From the moment the broker may pass the request on until the wait ends, the
\* client, while connected, is subscribed: no answer is missed because it came
\* before the subscription.
SubscribedInTime ==
    pc \in {"mqttAck", "mqttWait"} /\ connected /\ env.responseTopic => subscribed

\* The event wakes the wait only for the request being waited for, so a cycle
\* that ends without an exception has a verdict for its request: a handler left
\* over from an earlier send cannot end the wait.
WaitEndsWithVerdict ==
    /\ responseReceived /\ pc = "mqttWait" => outcome[request] \in Answers
    /\ pc = "finally" => \A r \in Requests : outcome[r] # "pending"

\* Once a failure has been handled, the broker flag is set only if the latest
\* publish was acknowledged.
BrokerFlagIsEarned ==
    pc \in {"sleep", "query", "mqttWait"} /\ status["ConnectionToBroker"]
        => lastPublish = "acked"

\* No connection outlives its cycle, whichever step of it failed.
ConnectionClosed ==
    pc \in {"catch", "finally", "sleep"} => ~connected /\ ~failing

\* A request is in hand while it is being sent and is the only one without a
\* verdict; the event is set, and the cleaning-up is entered without an exception,
\* only when it has one.
RequestInHand ==
    /\ pc \in MqttPoints => request \in Requests
    /\ request \in Requests => outcome[request] # "unsent"
    /\ \A r \in Requests : outcome[r] = "pending" => r = request /\ pc \in MqttPoints \cup {"catch"}
    /\ pc \in CleaningUp /\ ~failing => outcome[request] # "pending"
    /\ pc \in MqttPoints \ (CleaningUp \cup {"mqttConnect"}) /\ responseReceived
          => outcome[request] \in Answers

\* What the commander has was sent by the loop.
CommandsWereSent ==
    /\ \A c \in commands : c.id \in Requests /\ outcome[c.id] # "unsent"
    /\ \A r \in executed \cup replied : outcome[r] # "unsent"

\* However late a handler is: what it could take for an answer has come back for its
\* own send, and what it has taken for one during that send is the send's verdict
\* until the clean-up is reached.
DeliveriesAreEarned ==
    \A d \in handling :
        /\ Handled(d) => d.to \in Returned
        /\ Handled(d) /\ d.message.result = "good" => d.to \in executed
        /\ outcome[d.to] # "unsent"
        /\ d.stage = "accepted" /\ d.to = request /\ pc \in MqttPoints \ CleaningUp
              => outcome[request] \in Answers

\* Where a connection, and an exception on its way, can be met.
ConnectionInHand ==
    /\ connected => pc \in MqttPoints \ {"mqttConnect"}
    /\ failing => pc \in CleaningUp
    /\ pc \in {"mqttPublish", "mqttAck", "mqttWait"} /\ connected /\ env.responseTopic => subscribed

\* A broker flag that is not earned is about to be reset.
FlagFollowsPublish ==
    status["ConnectionToBroker"] /\ lastPublish # "acked" => failing \/ pc = "catch"

\* The inductive invariant behind the properties above.
Inv ==
    /\ TypeOK
    /\ RequestInHand
    /\ CommandsWereSent
    /\ DeliveriesAreEarned
    /\ AnswersAreEarned
    /\ ConnectionInHand
    /\ FlagFollowsPublish

\* The loop always gets back to sleep, whatever fails and however many messages
\* of others arrive.
LoopKeepsRunning == []<>(pc = "sleep")
=============================================================================
