-------------------------- MODULE ActionProcessor --------------------------
(***************************************************************************)
(* The trigger loop of ActionProcessor.cs: every 15 seconds it queries the *)
(* telemetry store and, when a high value is found, builds an OPC UA       *)
(* action request and hands it to a transport.  One thread runs the loop;  *)
(* pc is where it stands, at the granularity of its blocking calls.  The   *)
(* transports, KafkaExchange and MqttExchange, extend this module with the *)
(* steps between BuildActionRequest and the finally block.                 *)
(*                                                                         *)
(* Abstracted: the text of queries, topics and payloads; a request is its  *)
(* correlation id, and the telemetry store answers "high" or "not high".   *)
(***************************************************************************)
EXTENDS Naturals, Sequences

CONSTANTS
    Requests,      \* the correlation ids Guid.NewGuid() can return
    Foreign,       \* a correlation id of some other requestor
    NoRequest,     \* no request is being sent
    Environments   \* the environment-variable settings to consider

Settings == [ dataSource    : {"unset", "ADX", "InfluxDB", "Influx"},
              adxConfigured : BOOLEAN,    \* ADX_INSTANCE_URL and ADX_DB_NAME are set
              influxField   : BOOLEAN,    \* INFLUX_FIELD is set
              influxToken   : BOOLEAN,    \* INFLUX_TOKEN is set
              platform      : {"unset", "Kafka", "MQTT", "AIO"},
              kafkaTarget   : {"unset", "UACloudCommander", "AIOCommander"},
              mqttTarget    : {"unset", "UACloudCommander", "AIOCommander"},
              responseTopic : BOOLEAN,    \* RESPONSE_TOPIC is set
              sharedTopic   : BOOLEAN ]   \* what is sent to TOPIC also reaches RESPONSE_TOPIC

ASSUME EnvironmentsAssumption == Environments \subseteq Settings
ASSUME ForeignAssumption == Foreign \notin Requests
ASSUME NoRequestAssumption == NoRequest \notin Requests

VARIABLES
    env,          \* the process's environment variables; fixed while it runs
    pc,           \* where the loop thread stands
    status,       \* the public flags the status page reads
    client,       \* the fields holding disposable clients
    request,      \* the correlation id of the request being sent
    outcome,      \* what the program last reported about each request
    lastQuery,    \* how the latest telemetry query ended (history)
    lastPublish,  \* how the latest publish ended (history)
    commands,     \* requests stored in TOPIC, by the correlation data they carry
    executed,     \* requests whose method the commander has called
    replied       \* requests the commander has replied to, whatever it replied

loopVars == <<env, pc, status, client, request, outcome, lastQuery, lastPublish>>
commanderVars == <<commands, executed, replied>>

Flags == {"Running", "ConnectionToADX", "ConnectionToInflux",
          "ConnectionToBroker", "ConnectionToUACloudCommander"}

Clients == {"queryProvider", "influxClient", "producer", "consumer"}
Lifecycle == {"null", "live", "disposed"}

LoopPoints == {"start", "sleep", "query", "adxQuery", "influxQuery", "catch", "finally"}

Answers == {"succeeded", "failed"}
Outcomes == {"unsent", "pending", "timeout", "error"} \cup Answers

\* Correlation data: the sixteen bytes of a Guid, or its text form, which
\* never compare equal even for the same Guid.
Correlation == [form : {"bytes", "text"}, id : Requests \cup {Foreign}]
Bytes(r) == [form |-> "bytes", id |-> r]
Text(r)  == [form |-> "text", id |-> r]

(***************************************************************************)
(* Reading the environment variables.                                      *)
(***************************************************************************)
UseInflux == env.dataSource \in {"InfluxDB", "Influx"}
UseMqtt == env.platform = "MQTT"
AioOnKafka == env.kafkaTarget = "AIOCommander"
AioOnMqtt == env.mqttTarget \in {"unset", "AIOCommander"}
AioCommander == IF UseMqtt THEN AioOnMqtt ELSE AioOnKafka

(***************************************************************************)
(* Answered requests and the response messages they come from.             *)
(***************************************************************************)
\* A message on the response topic, as far as the handlers tell messages apart; a result
\* that is missing, or has no status, is not good.
Messages == [kind : {"response", "request", "malformed", "null"},
             correlation : Correlation,
             result : {"good", "bad"}]

\* The verdict HandleResponse logs: only an explicit Good status is a success.
Verdict(message) == IF message.result = "good" THEN "succeeded" ELSE "failed"

\* Mutant: the message type is not looked at, so a request passes for a response.
AcceptedWhateverKind(message, correlation) ==
    message.kind \in {"response", "request"} /\ message.correlation = correlation

\* HandleResponse accepts a ua-action-response with the request's correlation
\* data, and nothing else.
AcceptedByHandleResponse(message, correlation) ==
    /\ message.kind = "response"
    /\ message.correlation = correlation

\* The requests something has come back for that counts as their answer: a reply of
\* the commander or, with an AIO commander, whose handlers look at the correlation
\* data only, the request itself on a shared topic.
Returned ==
    replied \cup (IF AioCommander /\ env.sharedTopic THEN {c.id : c \in commands} ELSE {})

\* What an action requestor shows of a request, whatever the transport.
Shown(o) == CASE o = "unsent" -> "unsent"
              [] o = "pending" -> "outstanding"
              [] o \in Answers -> "answered"
              [] OTHER -> "abandoned"

RequestorState == [r \in Requests |-> Shown(outcome[r])]

\* Either transport implements what an action requestor promises.
Requestor == INSTANCE ActionRequestor WITH returned <- Returned, state <- RequestorState

RequestorSpec == Requestor!Spec

\* The types of the variables of this module, but for pc: its values depend on the
\* transport.
CoreTypeOK ==
    /\ env \in Environments
    /\ status \in [Flags -> BOOLEAN]
    /\ client \in [Clients -> Lifecycle]
    /\ request \in Requests \cup {NoRequest}
    /\ outcome \in [Requests -> Outcomes]
    /\ lastQuery \in {"none", "answered", "failed"}
    /\ lastPublish \in {"none", "acked", "failed"}
    /\ commands \subseteq Correlation
    /\ executed \subseteq Requests
    /\ replied \subseteq Requests

(***************************************************************************)
(* The loop.                                                               *)
(***************************************************************************)
LoopInit ==
    /\ env \in Environments
    /\ pc = "start"
    /\ status = [f \in Flags |-> FALSE]
    /\ client = [c \in Clients |-> "null"]
    /\ request = NoRequest
    /\ outcome = [r \in Requests |-> "unsent"]
    /\ lastQuery = "none"
    /\ lastPublish = "none"

CommanderInit == commands = {} /\ executed = {} /\ replied = {}

Goto(from, to) == pc = from /\ pc' = to

\* The background task enters Run.
Run ==
    /\ Goto("start", "sleep")
    /\ status' = [status EXCEPT !["Running"] = TRUE]
    /\ UNCHANGED <<env, client, request, outcome, lastQuery, lastPublish>>

\* Thread.Sleep(15000) returns.
Wake ==
    /\ Goto("sleep", "query")
    /\ UNCHANGED <<env, status, client, request, outcome, lastQuery, lastPublish>>

\* AdxConnectionFactory.Create returns null.
AdxNotConfigured ==
    /\ ~UseInflux /\ ~env.adxConfigured
    /\ Goto("query", "finally")
    /\ client' = [client EXCEPT !["queryProvider"] = "null"]
    /\ status' = [status EXCEPT !["ConnectionToADX"] = FALSE]
    /\ UNCHANGED <<env, request, outcome, lastQuery, lastPublish>>

\* A provider is built; nothing is sent to the cluster yet.
AdxConnect ==
    /\ ~UseInflux /\ env.adxConfigured
    /\ Goto("query", "adxQuery")
    /\ client' = [client EXCEPT !["queryProvider"] = "live"]
    /\ status' = [status EXCEPT !["ConnectionToADX"] = TRUE]
    /\ UNCHANGED <<env, request, outcome, lastQuery, lastPublish>>

\* Building the provider throws before the field is assigned.
AdxConnectThrows ==
    /\ ~UseInflux /\ env.adxConfigured
    /\ Goto("query", "catch")
    /\ UNCHANGED <<env, status, client, request, outcome, lastQuery, lastPublish>>

\* INFLUX_FIELD or INFLUX_TOKEN is missing.
InfluxNotConfigured ==
    /\ UseInflux /\ ~(env.influxField /\ env.influxToken)
    /\ Goto("query", "finally")
    /\ UNCHANGED <<env, status, client, request, outcome, lastQuery, lastPublish>>

\* A client is built only when the field is null.
InfluxConnect ==
    /\ UseInflux /\ env.influxField /\ env.influxToken
    /\ Goto("query", "influxQuery")
    /\ client' = [client EXCEPT !["influxClient"] = IF @ = "null" THEN "live" ELSE @]
    /\ status' = [status EXCEPT !["ConnectionToInflux"] = TRUE]
    /\ UNCHANGED <<env, request, outcome, lastQuery, lastPublish>>

\* Building the client throws; RunInfluxQuery catches it.
InfluxConnectThrows ==
    /\ UseInflux /\ env.influxField /\ env.influxToken
    /\ Goto("query", "finally")
    /\ status' = [status EXCEPT !["ConnectionToInflux"] = FALSE]
    /\ UNCHANGED <<env, client, request, outcome, lastQuery, lastPublish>>

\* The query finds a high value: a request is built and handed to a transport.
HighPressure(r) ==
    /\ pc \in {"adxQuery", "influxQuery"}
    /\ outcome[r] = "unsent"
    /\ request' = r
    /\ outcome' = [outcome EXCEPT ![r] = "pending"]
    /\ lastQuery' = "answered"
    /\ pc' = IF UseMqtt THEN "mqttConnect" ELSE "kafkaProducer"
    /\ UNCHANGED <<env, status, client, lastPublish>>

\* The query finds no high value.
NoHighPressure ==
    /\ pc \in {"adxQuery", "influxQuery"}
    /\ pc' = "finally"
    /\ lastQuery' = "answered"
    /\ UNCHANGED <<env, status, client, request, outcome, lastPublish>>

\* The query throws.  ExecuteAdxQuery swallows the exception and leaves
\* ConnectionToADX alone; RunInfluxQuery resets ConnectionToInflux.
QueryThrows ==
    /\ pc \in {"adxQuery", "influxQuery"}
    /\ pc' = "finally"
    /\ lastQuery' = "failed"
    /\ status' = [status EXCEPT !["ConnectionToInflux"] = @ /\ pc = "adxQuery"]
    /\ UNCHANGED <<env, client, request, outcome, lastPublish>>

\* The flags the catch block of Run resets.
FlagsWithoutCommander == {"ConnectionToADX", "ConnectionToBroker"}      \* mutant
FlagsWithoutBroker == {"ConnectionToADX", "ConnectionToUACloudCommander"} \* mutant
ResetFlags == {"ConnectionToADX", "ConnectionToBroker", "ConnectionToUACloudCommander"}

\* The catch block of Run reports the exception, whatever was reported before of the
\* request in hand, if one is.
Catch ==
    /\ Goto("catch", "finally")
    /\ status' = [f \in Flags |-> status[f] /\ f \notin ResetFlags]
    /\ outcome' = [r \in Requests |-> IF r = request THEN "error" ELSE outcome[r]]
    /\ UNCHANGED <<env, client, request, lastQuery, lastPublish>>

\* Mutant: the InfluxDB client is disposed but not set back to null.
ReleasedKeepingInflux(c) == IF client[c] = "null" THEN "null" ELSE "disposed"

\* What the finally block leaves in each field: disposed, and only the InfluxDB
\* client is set back to null.
Released(c) ==
    IF client[c] = "null" \/ c = "influxClient" THEN "null" ELSE "disposed"

\* The finally block of Run; the cycle's local variables go out of scope.
Finally ==
    /\ Goto("finally", "sleep")
    /\ client' = [c \in Clients |-> Released(c)]
    /\ request' = NoRequest
    /\ UNCHANGED <<env, status, outcome, lastQuery, lastPublish>>

Loop ==
    \/ Run
    \/ Wake
    \/ AdxNotConfigured \/ AdxConnect \/ AdxConnectThrows
    \/ InfluxNotConfigured \/ InfluxConnect \/ InfluxConnectThrows
    \/ \E r \in Requests : HighPressure(r)
    \/ NoHighPressure
    \/ QueryThrows
    \/ Catch
    \/ Finally
=============================================================================
