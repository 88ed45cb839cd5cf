--------------------------- MODULE MCMqttExchange ---------------------------
(* Instances of MqttExchange for TLC. *)
EXTENDS MqttExchange

BaseSettings ==
    [ dataSource |-> "unset", adxConfigured |-> TRUE, influxField |-> TRUE,
      influxToken |-> TRUE, platform |-> "MQTT", kafkaTarget |-> "unset",
      mqttTarget |-> "unset", responseTopic |-> TRUE,
      sharedTopic |-> FALSE ]

\* Both commander kinds behind MQTT with a response topic that gets the requests too,
\* AIO with one of its own, and either store without a response topic.
MqttSettings ==
    {[BaseSettings EXCEPT !.mqttTarget = t, !.sharedTopic = TRUE] :
        t \in {"unset", "UACloudCommander"}}
    \cup {BaseSettings}
    \cup {[BaseSettings EXCEPT !.responseTopic = FALSE, !.dataSource = d] :
        d \in {"ADX", "InfluxDB"}}
=============================================================================
