-------------------------- MODULE MCKafkaExchange --------------------------
(* Instances of KafkaExchange for TLC. *)
EXTENDS KafkaExchange

BaseSettings ==
    [ dataSource |-> "unset", adxConfigured |-> TRUE, influxField |-> TRUE,
      influxToken |-> TRUE, platform |-> "unset", kafkaTarget |-> "unset",
      mqttTarget |-> "unset", responseTopic |-> TRUE,
      sharedTopic |-> FALSE ]

\* Both commander kinds behind Kafka, fed by ADX.
KafkaSettings == {[BaseSettings EXCEPT !.kafkaTarget = t] : t \in {"UACloudCommander", "AIOCommander"}}

\* Those, with a response topic that gets the requests too, and, for AIO, with one of its
\* own; either store, configured or not; and a missing response topic.
AllSettings ==
    {[s EXCEPT !.sharedTopic = TRUE] : s \in KafkaSettings}
    \cup {[BaseSettings EXCEPT !.kafkaTarget = "AIOCommander"]}
    \cup {[BaseSettings EXCEPT !.dataSource = "ADX", !.adxConfigured = FALSE]}
    \cup {[BaseSettings EXCEPT !.dataSource = "InfluxDB", !.influxField = f] : f \in BOOLEAN}
    \cup {[BaseSettings EXCEPT !.responseTopic = FALSE]}
=============================================================================
