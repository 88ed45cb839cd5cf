--------------------------- MODULE KafkaExchange ---------------------------
(***************************************************************************)
(* SendRequestViaKafka: a producer and a consumer are built for the cycle, *)
(* the request is produced to TOPIC, and RESPONSE_TOPIC is read from its   *)
(* beginning, under a consumer group of its own, until the response to     *)
(* this request turns up or nothing arrives for 15 seconds.  The topic is  *)
(* shared and keeps its messages: it holds answers to earlier requests,    *)
(* other requestors' answers and messages of other kinds.                  *)
(*                                                                         *)
(* The broker and the commander are external and modelled from what the    *)
(* code assumes of them: at-least-once execution, replies that may come    *)
(* late, twice or never, and that report a failure without a call.         *)
(***************************************************************************)
EXTENDS ActionProcessor

CONSTANTS
    WaitUnits,      \* the 15 seconds of one Consume call, in clock units
    MaxResponses    \* bound: messages ever appended to RESPONSE_TOPIC

ASSUME PlatformAssumption == \A e \in Environments : e.platform # "MQTT"
ASSUME WaitUnitsAssumption == WaitUnits \in Nat
ASSUME MaxResponsesAssumption == MaxResponses \in Nat

VARIABLES
    responses,        \* RESPONSE_TOPIC
    correlationData,  \* the local variable the responses are matched with
    position,         \* next message to read; 0 until a partition is assigned
    quiet,            \* time since the current Consume call began
    waited            \* time since the wait began, counted up to WaitUnits + 1

kafkaVars == <<responses, correlationData, position, quiet, waited>>
vars == <<loopVars, commanderVars, kafkaVars>>

KafkaPoints == {"kafkaProducer", "kafkaConsumer", "kafkaProduce", "kafkaWait",
                "kafkaUnsubscribe"}

Init ==
    /\ LoopInit
    /\ CommanderInit
    /\ responses = <<>>
    /\ correlationData = Bytes(Foreign)
    /\ position = 0
    /\ quiet = 0
    /\ waited = 0

(***************************************************************************)
(* The requestor.                                                          *)
(***************************************************************************)
\* Mutant: a response is taken for ours whatever its correlation data.
HandledUncorrelated(message) == message.kind = "response"

\* HandleAioResponse looks at the "Correlation Data" header only.
Handled(message) ==
    IF AioOnKafka THEN message.correlation = correlationData
                  ELSE AcceptedByHandleResponse(message, correlationData)

\* Encoding.UTF8.GetString throws on the null value of a tombstone;
\* HandleAioResponse tolerates it.
Throws(message) == ~AioOnKafka /\ message.kind = "null"

KafkaBuildProducer ==
    /\ Goto("kafkaProducer", "kafkaConsumer")
    /\ client' = [client EXCEPT !["producer"] = "live"]
    /\ UNCHANGED <<env, status, request, outcome, lastQuery, lastPublish>>
    /\ UNCHANGED <<commanderVars, kafkaVars>>

\* Mutant: the correlation data is made once and kept for later requests.
KeptCorrelation ==
    IF correlationData.id \in Requests THEN correlationData
    ELSE IF AioOnKafka THEN Text(request) ELSE Bytes(request)

\* Mutant: the AIO commander is sent the Guid's bytes.
BinaryCorrelation == Bytes(request)

\* The correlation data sent and waited for: an AIO commander gets the Guid's
\* text, because binary headers do not survive the translation to MQTT.
RequestCorrelation == IF AioOnKafka THEN Text(request) ELSE Bytes(request)

\* The consumer is built; Subscribe(null) throws when RESPONSE_TOPIC is not set.
KafkaBuildConsumer ==
    /\ pc = "kafkaConsumer"
    /\ pc' = IF env.responseTopic THEN "kafkaProduce" ELSE "catch"
    /\ client' = [client EXCEPT !["consumer"] = "live"]
    /\ correlationData' = RequestCorrelation
    /\ UNCHANGED <<env, status, request, outcome, lastQuery, lastPublish>>
    /\ UNCHANGED <<commanderVars, responses, position, quiet, waited>>

\* The broker acknowledges the request within MessageTimeoutMs.
KafkaProduce ==
    /\ Goto("kafkaProduce", "kafkaWait")
    /\ commands' = commands \cup {correlationData}
    /\ status' = [status EXCEPT !["ConnectionToBroker"] = TRUE]
    /\ lastPublish' = "acked"
    /\ position' = 0
    /\ quiet' = 0
    /\ waited' = 0
    /\ UNCHANGED <<env, client, request, outcome, lastQuery>>
    /\ UNCHANGED <<executed, replied, responses, correlationData>>

\* ProduceAsync throws; the broker may have stored the request all the same.
KafkaProduceThrows ==
    /\ Goto("kafkaProduce", "catch")
    /\ commands' \in {commands, commands \cup {correlationData}}
    /\ lastPublish' = "failed"
    /\ UNCHANGED <<env, status, client, request, outcome, lastQuery>>
    /\ UNCHANGED <<executed, replied, kafkaVars>>

LatestPosition == Len(responses) + 1   \* mutant: AutoOffsetReset.Latest

\* Where a consumer group without committed offsets starts: AutoOffsetReset.Earliest.
StartPosition == 1

\* The group, new with every request, is assigned the partition during Consume.
KafkaAssign ==
    /\ pc = "kafkaWait" /\ position = 0
    /\ position' = StartPosition
    /\ UNCHANGED <<loopVars, commanderVars, responses, correlationData, quiet, waited>>

Readable == pc = "kafkaWait" /\ position \in 1..Len(responses)

\* Consume returns the response to this request.
KafkaConsumeAnswer ==
    /\ Readable
    /\ ~Throws(responses[position])
    /\ Handled(responses[position])
    /\ pc' = "kafkaUnsubscribe"
    /\ position' = position + 1
    /\ status' = [status EXCEPT !["ConnectionToUACloudCommander"] = TRUE]
    /\ outcome' = [outcome EXCEPT ![request] =
                     IF AioOnKafka THEN "succeeded" ELSE Verdict(responses[position])]
    /\ UNCHANGED <<env, client, request, lastQuery, lastPublish>>
    /\ UNCHANGED <<commanderVars, responses, correlationData, quiet, waited>>

\* Consume returns some other message: the next call waits 15 seconds again.
KafkaConsumeOther ==
    /\ Readable
    /\ ~Throws(responses[position])
    /\ ~Handled(responses[position])
    /\ position' = position + 1
    /\ quiet' = 0
    /\ UNCHANGED <<loopVars, commanderVars, responses, correlationData, waited>>

\* Consume returns a message whose handling throws.
KafkaConsumeNull ==
    /\ Readable
    /\ Throws(responses[position])
    /\ pc' = "catch"
    /\ position' = position + 1
    /\ UNCHANGED <<env, status, client, request, outcome, lastQuery, lastPublish>>
    /\ UNCHANGED <<commanderVars, responses, correlationData, quiet, waited>>

\* Time passes while Consume waits.
KafkaTick ==
    /\ pc = "kafkaWait" /\ quiet < WaitUnits
    /\ quiet' = quiet + 1
    /\ waited' = IF waited > WaitUnits THEN waited ELSE waited + 1
    /\ UNCHANGED <<loopVars, commanderVars, responses, correlationData, position>>

\* Mutant: a null result does not leave the loop.
KafkaTimeoutIgnored ==
    /\ pc = "kafkaWait" /\ quiet = WaitUnits
    /\ quiet' = 0
    /\ UNCHANGED <<loopVars, commanderVars, responses, correlationData, position, waited>>

\* Consume returns null.
KafkaTimeout ==
    /\ pc = "kafkaWait" /\ quiet = WaitUnits
    /\ pc' = "kafkaUnsubscribe"
    /\ outcome' = [outcome EXCEPT ![request] = "timeout"]
    /\ UNCHANGED <<env, status, client, request, lastQuery, lastPublish>>
    /\ UNCHANGED <<commanderVars, kafkaVars>>

KafkaUnsubscribe ==
    /\ Goto("kafkaUnsubscribe", "finally")
    /\ UNCHANGED <<env, status, client, request, outcome, lastQuery, lastPublish>>
    /\ UNCHANGED <<commanderVars, kafkaVars>>

\* Building a client, Subscribe, Consume and Unsubscribe can throw.
KafkaThrows ==
    /\ pc \in KafkaPoints \ {"kafkaProduce"}
    /\ pc' = "catch"
    /\ UNCHANGED <<env, status, client, request, outcome, lastQuery, lastPublish>>
    /\ UNCHANGED <<commanderVars, kafkaVars>>

(***************************************************************************)
(* The commander and everybody else who writes to RESPONSE_TOPIC.          *)
(***************************************************************************)
\* The commander calls the method.  On the way to an AIO commander binary
\* headers are lost, and a request without correlation data is ignored.
KafkaExecute(c) ==
    /\ c \in commands
    /\ AioOnKafka => c.form = "text"
    /\ executed' = executed \cup {c.id}
    /\ UNCHANGED <<loopVars, commands, replied, kafkaVars>>

KafkaAppend(message) ==
    /\ Len(responses) < MaxResponses
    /\ responses' = Append(responses, message)
    /\ UNCHANGED <<loopVars, commands, executed, correlationData, position, quiet, waited>>

\* The commander replies, echoing the correlation data; it has called the method if
\* it says so, and may report a failure without having called it.
KafkaRespond(c, result) ==
    /\ c \in commands
    /\ AioOnKafka => c.form = "text"
    /\ result = "good" => c.id \in executed
    /\ replied' = replied \cup {c.id}
    /\ KafkaAppend([kind |-> "response", correlation |-> c, result |-> result])

\* A request turns up on the response topic: a shared or misrouted topic.
KafkaEcho(c) ==
    /\ env.sharedTopic
    /\ c \in commands
    /\ KafkaAppend([kind |-> "request", correlation |-> c, result |-> "bad"])
    /\ UNCHANGED replied

\* Messages that have nothing to do with this process.
OtherMessages == {[kind |-> k, correlation |-> Bytes(Foreign), result |-> "bad"] :
                    k \in {"response", "malformed", "null"}}

Environment ==
    \/ \E c \in commands : KafkaExecute(c)
    \/ \E c \in commands, result \in {"good", "bad"} : KafkaRespond(c, result)
    \/ \E c \in commands : KafkaEcho(c)
    \/ \E m \in OtherMessages : KafkaAppend(m) /\ UNCHANGED replied

(***************************************************************************)
(* The specification.                                                      *)
(***************************************************************************)
Send ==
    \/ KafkaBuildProducer \/ KafkaBuildConsumer
    \/ KafkaProduce \/ KafkaProduceThrows
    \/ KafkaAssign
    \/ KafkaConsumeAnswer \/ KafkaConsumeOther \/ KafkaConsumeNull
    \/ KafkaTimeout
    \/ KafkaUnsubscribe
    \/ KafkaThrows

LoopStep == Loop /\ UNCHANGED <<commanderVars, kafkaVars>>

Next == LoopStep \/ Send \/ KafkaTick \/ Environment

Spec == Init /\ [][Next]_vars

\* The loop thread is never starved and time passes; the broker and the
\* commander owe nothing.
FairSpec == Spec /\ WF_vars(LoopStep \/ Send) /\ WF_vars(KafkaTick)

(***************************************************************************)
(* Properties.                                                             *)
(***************************************************************************)
\* Every variable has its type, and the reader never runs past the topic's end.
TypeOK ==
    /\ CoreTypeOK
    /\ pc \in LoopPoints \cup KafkaPoints
    /\ responses \in Seq(Messages)
    /\ correlationData \in Correlation
    /\ position \in 0..(Len(responses) + 1)
    /\ quiet \in 0..WaitUnits
    /\ waited \in 0..(WaitUnits + 1)

\* A request is reported as answered only if the commander replied to that very
\* request or, with an AIO commander, the request itself came back on a shared
\* topic: late answers to earlier requests and other requestors' answers are never
\* taken for its answer.  UA Cloud Commander's success moreover means that the
\* method was called.
AnswersAreEarned ==
    \A r \in Requests :
        /\ outcome[r] \in Answers => r \in Returned
        /\ outcome[r] = "succeeded" /\ ~AioCommander => r \in executed

\* While the response is awaited, none of the messages already read was it:
\* however late the partition is assigned, no answer has been passed over.
NoResponseSkipped ==
    pc = "kafkaWait" => \A i \in 1..(position - 1) : ~Handled(responses[i])

\* A request that was acknowledged can be answered: the commander will honour
\* it as it travels, and the echo of its correlation data will be recognised.
RequestCanBeAnswered ==
    pc = "kafkaWait" =>
        \E c \in commands :
            /\ c.id = request
            /\ AioOnKafka => c.form = "text"
            /\ Handled([kind |-> "response", correlation |-> c, result |-> "good"])

\* No step uses a client that is disposed or was never built, and between two
\* cycles no client is left undisposed.
ClientsReleased ==
    /\ pc = "adxQuery" => client["queryProvider"] = "live"
    /\ pc = "influxQuery" => client["influxClient"] = "live"
    /\ pc \in {"kafkaProduce", "kafkaWait", "kafkaUnsubscribe"} =>
          client["producer"] = "live" /\ client["consumer"] = "live"
    /\ pc = "sleep" => \A c \in Clients : client[c] # "live"

\* The status page never shows a commander connection without a broker one.
CommanderImpliesBroker ==
    status["ConnectionToUACloudCommander"] => status["ConnectionToBroker"]

\* Once a failure has been handled, the broker flag is set only if the latest
\* publish was acknowledged.
BrokerFlagIsEarned ==
    pc # "catch" /\ status["ConnectionToBroker"] => lastPublish = "acked"

\* A request is in hand exactly while it is being sent, and is the only one
\* without a verdict.
RequestInHand ==
    /\ pc \in KafkaPoints => request \in Requests
    /\ request \in Requests => outcome[request] # "unsent"
    /\ pc \in LoopPoints \ {"catch", "finally"} => request = NoRequest
    /\ pc \in KafkaPoints \ {"kafkaUnsubscribe"} => outcome[request] = "pending"
    /\ \A r \in Requests : outcome[r] = "pending" =>
          r = request /\ pc \in (KafkaPoints \ {"kafkaUnsubscribe"}) \cup {"catch"}

\* The correlation data waited for is that of the request in hand, and what the
\* commander has was sent by the loop.
CorrelationInHand ==
    /\ pc \in {"kafkaProduce", "kafkaWait", "kafkaUnsubscribe"} =>
          correlationData = RequestCorrelation
    /\ pc = "kafkaWait" => correlationData \in commands /\ status["ConnectionToBroker"]
    /\ \A c \in commands : c.id \in Requests /\ outcome[c.id] # "unsent"
    /\ \A r \in executed \cup replied : outcome[r] # "unsent"

\* What is on the response topic under a correlation id of ours: if a handler could
\* take it for an answer, it counts as one, and if it reports success the method was
\* called.
ResponsesAreEarned ==
    \A i \in 1..Len(responses) :
        LET message == responses[i] IN
        message.correlation.id \in Requests =>
            /\ AioOnKafka \/ message.kind = "response" => message.correlation.id \in Returned
            /\ message.result = "good" => message.correlation.id \in executed

\* The inductive invariant behind the properties above: late answers are kept
\* apart because every answer on the topic carries the correlation data of the
\* request it came back for, and only the request in hand is matched.
Inv ==
    /\ TypeOK
    /\ RequestInHand
    /\ CorrelationInHand
    /\ ResponsesAreEarned
    /\ AnswersAreEarned
    /\ NoResponseSkipped
    /\ CommanderImpliesBroker
    /\ BrokerFlagIsEarned

\* The loop always gets back to sleep, whatever fails: every wait ends.
LoopKeepsRunning == []<>(pc = "sleep")

\* The comment on the wait: it lasts up to 15 seconds.
WaitIsBounded == waited <= WaitUnits

\* The status page: "Connected to ADX" after a query means the query worked.
AdxFlagIsEarned ==
    pc = "sleep" /\ status["ConnectionToADX"] => lastQuery = "answered"
=============================================================================
