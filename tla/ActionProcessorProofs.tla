----------------------- MODULE ActionProcessorProofs -----------------------
(***************************************************************************)
(* What the steps of the trigger loop preserve, whatever the transport     *)
(* between BuildActionRequest and the finally block; the proofs about      *)
(* KafkaExchange and MqttExchange rest on these lemmas.                    *)
(***************************************************************************)
EXTENDS ActionProcessor, TLAPS

USE EnvironmentsAssumption, ForeignAssumption, NoRequestAssumption

LEMMA CoreTypeInit == LoopInit /\ CommanderInit => CoreTypeOK
BY DEF LoopInit, CommanderInit, CoreTypeOK, Flags, Clients, Lifecycle, Outcomes

\* Where a step of the loop may lead: a point of the loop, or the first point of
\* the transport that is configured.
TransportStart == IF UseMqtt THEN "mqttConnect" ELSE "kafkaProducer"

LEMMA LoopTypes ==
    ASSUME CoreTypeOK, Loop, UNCHANGED commanderVars
    PROVE  CoreTypeOK' /\ pc' \in LoopPoints \cup {TransportStart}
<1> USE DEF CoreTypeOK, LoopPoints, Flags, Clients, Lifecycle, Outcomes, Goto, commanderVars
<1>1. CASE Run
  BY <1>1 DEF Run
<1>2. CASE Wake
  BY <1>2 DEF Wake
<1>3. CASE AdxNotConfigured
  BY <1>3 DEF AdxNotConfigured
<1>4. CASE AdxConnect
  BY <1>4 DEF AdxConnect
<1>5. CASE AdxConnectThrows
  BY <1>5 DEF AdxConnectThrows
<1>6. CASE InfluxNotConfigured
  BY <1>6 DEF InfluxNotConfigured
<1>7. CASE InfluxConnect
  BY <1>7 DEF InfluxConnect
<1>8. CASE InfluxConnectThrows
  BY <1>8 DEF InfluxConnectThrows
<1>9. ASSUME NEW r \in Requests, HighPressure(r)
      PROVE  CoreTypeOK' /\ pc' = TransportStart
  BY <1>9 DEF HighPressure, TransportStart
<1>10. CASE NoHighPressure
  BY <1>10 DEF NoHighPressure
<1>11. CASE QueryThrows
  BY <1>11 DEF QueryThrows
<1>12. CASE Catch
  BY <1>12 DEF Catch
<1>13. CASE Finally
  BY <1>13 DEF Finally, Released
<1> QED
  BY <1>1, <1>2, <1>3, <1>4, <1>5, <1>6, <1>7, <1>8, <1>9, <1>10, <1>11, <1>12, <1>13 DEF Loop

\* The environment variables stay as they were when the process started.
LEMMA LoopKeepsEnv == Loop => env' = env
BY DEF Loop, Run, Wake, AdxNotConfigured, AdxConnect, AdxConnectThrows,
       InfluxNotConfigured, InfluxConnect, InfluxConnectThrows, HighPressure,
       NoHighPressure, QueryThrows, Catch, Finally

(***************************************************************************)
(* How a change of an outcome shows in the state of the abstract requestor.*)
(***************************************************************************)
\* A change of one outcome shows as a change of that request's state.
LEMMA ShownChange ==
    ASSUME CoreTypeOK, NEW r \in Requests, NEW o \in Outcomes,
           outcome' = [outcome EXCEPT ![r] = o]
    PROVE  RequestorState' = [RequestorState EXCEPT ![r] = Shown(o)]
BY DEF CoreTypeOK, RequestorState

LEMMA ShownSame ==
    ASSUME outcome' = outcome
    PROVE  RequestorState' = RequestorState
BY DEF RequestorState

LEMMA ShownValues ==
    /\ Shown("unsent") = "unsent"
    /\ Shown("pending") = "outstanding"
    /\ \A o \in Answers : Shown(o) = "answered"
    /\ Shown("timeout") = "abandoned" /\ Shown("error") = "abandoned"
BY DEF Shown, Answers

LEMMA OutcomeValues ==
    /\ {"pending", "timeout", "error"} \subseteq Outcomes
    /\ Answers \subseteq Outcomes
    /\ \A o \in Outcomes : \/ o \in {"unsent", "pending", "timeout", "error"}
                           \/ o \in Answers
BY DEF Outcomes

LEMMA RefinementInit == LoopInit /\ CommanderInit => Requestor!Init
BY ShownValues DEF LoopInit, CommanderInit, Requestor!Init, RequestorState, Returned

(***************************************************************************)
(* What has come back, as requests are sent and replies are made.          *)
(***************************************************************************)
LEMMA ReturnedSame ==
    ASSUME UNCHANGED <<env, commands, replied>>
    PROVE  Returned' = Returned
BY DEF Returned, AioCommander, UseMqtt, AioOnKafka, AioOnMqtt

LEMMA AioSame ==
    ASSUME UNCHANGED env
    PROVE  AioCommander' = AioCommander
BY DEF AioCommander, UseMqtt, AioOnKafka, AioOnMqtt

\* Nothing that has come back goes away.
LEMMA ReturnedGrows ==
    ASSUME UNCHANGED env, commands \subseteq commands', replied \subseteq replied'
    PROVE  Returned \subseteq Returned'
BY AioSame DEF Returned

\* A request that is published has come back at once if it counts as its own answer.
LEMMA ReturnedPublished ==
    ASSUME NEW c, commands' = commands \cup {c}, UNCHANGED <<env, replied>>
    PROVE  Returned' = Returned \/ Returned' = Returned \cup {c.id}
<1> DEFINE shared == AioCommander /\ env.sharedTopic
<1>1. shared' = shared
  BY DEF AioCommander, UseMqtt, AioOnKafka, AioOnMqtt
<1>2. CASE shared
  BY <1>1, <1>2 DEF Returned
<1>3. CASE ~shared
  BY <1>1, <1>3 DEF Returned
<1> QED
  BY <1>2, <1>3

LEMMA ReturnedReplied ==
    ASSUME NEW r, replied' = replied \cup {r}, UNCHANGED <<env, commands>>
    PROVE  Returned' = Returned \cup {r}
BY DEF Returned, AioCommander, UseMqtt, AioOnKafka, AioOnMqtt

(***************************************************************************)
(* The steps of an exchange as steps of the abstract requestor.            *)
(***************************************************************************)
\* Building a request sends it, provided none is outstanding.
LEMMA SendRefines ==
    ASSUME CoreTypeOK, NEW r \in Requests, HighPressure(r), Returned' = Returned,
           \A q \in Requests : outcome[q] # "pending"
    PROVE  Requestor!Next
<1>1. /\ outcome[r] = "unsent"
      /\ outcome' = [outcome EXCEPT ![r] = "pending"]
  BY DEF HighPressure
<1>2. RequestorState' = [RequestorState EXCEPT ![r] = "outstanding"]
  <2>1. RequestorState' = [RequestorState EXCEPT ![r] = Shown("pending")]
    BY <1>1, OutcomeValues, ShownChange
  <2> QED
    BY <2>1, ShownValues
<1>3. RequestorState[r] = "unsent"
  BY <1>1, ShownValues DEF RequestorState
<1>4. \A q \in Requests : RequestorState[q] # "outstanding"
  BY ShownValues, OutcomeValues DEF RequestorState, CoreTypeOK
<1> QED
  BY <1>2, <1>3, <1>4 DEF Requestor!Next, Requestor!Send

\* Reporting an answer that has come back: it answers the request, or repeats an
\* answer that was reported before.
LEMMA AnswerRefines ==
    ASSUME CoreTypeOK, NEW r \in Requests, NEW o \in Answers,
           outcome[r] # "unsent", r \in Returned,
           outcome' = [outcome EXCEPT ![r] = o], Returned' = Returned
    PROVE  Requestor!Next \/ UNCHANGED <<RequestorState, Returned>>
<1>1. RequestorState' = [RequestorState EXCEPT ![r] = "answered"]
  <2>1. RequestorState' = [RequestorState EXCEPT ![r] = Shown(o)]
    BY OutcomeValues, ShownChange
  <2> QED
    BY <2>1, ShownValues
<1>2. CASE outcome[r] \in Answers
  <2>1. RequestorState[r] = "answered"
    BY <1>2, ShownValues DEF RequestorState
  <2> QED
    BY <1>1, <2>1 DEF RequestorState
<1>3. CASE outcome[r] \in {"pending", "timeout", "error"}
  <2>1. RequestorState[r] \in {"outstanding", "abandoned"}
    BY <1>3, ShownValues DEF RequestorState
  <2> QED
    BY <1>1, <2>1 DEF Requestor!Next, Requestor!Answer
<1> QED
  BY <1>2, <1>3, OutcomeValues DEF CoreTypeOK

\* Giving up a request that was sent, or reporting a failure after its answer or a
\* second failure.
LEMMA AbandonRefines ==
    ASSUME CoreTypeOK, NEW r \in Requests, NEW o \in {"timeout", "error"},
           outcome[r] # "unsent",
           outcome' = [outcome EXCEPT ![r] = o], Returned' = Returned
    PROVE  Requestor!Next \/ UNCHANGED <<RequestorState, Returned>>
<1>1. RequestorState' = [RequestorState EXCEPT ![r] = "abandoned"]
  <2>1. RequestorState' = [RequestorState EXCEPT ![r] = Shown(o)]
    BY OutcomeValues, ShownChange
  <2> QED
    BY <2>1, ShownValues
<1>2. CASE outcome[r] \in {"timeout", "error"}
  <2>1. RequestorState[r] = "abandoned"
    BY <1>2, ShownValues DEF RequestorState
  <2> QED
    BY <1>1, <2>1 DEF RequestorState
<1>3. CASE outcome[r] = "pending" \/ outcome[r] \in Answers
  <2>1. RequestorState[r] \in {"outstanding", "answered"}
    BY <1>3, ShownValues DEF RequestorState
  <2> QED
    BY <1>1, <2>1 DEF Requestor!Next, Requestor!Abandon
<1> QED
  BY <1>2, <1>3, OutcomeValues DEF CoreTypeOK

\* The catch block gives up the request in hand and no other.
LEMMA CatchRefines ==
    ASSUME CoreTypeOK, Catch, Returned' = Returned,
           request \in Requests => outcome[request] # "unsent"
    PROVE  Requestor!Next \/ UNCHANGED <<RequestorState, Returned>>
<1>1. CASE request \in Requests
  <2>1. outcome' = [outcome EXCEPT ![request] = "error"]
    BY <1>1 DEF Catch, CoreTypeOK
  <2> QED
    BY <1>1, <2>1, AbandonRefines
<1>2. CASE request \notin Requests
  <2>1. outcome' = outcome
    BY <1>2 DEF Catch, CoreTypeOK
  <2> QED
    BY <2>1, ShownSame
<1> QED
  BY <1>1, <1>2

\* An answer to a request that was sent comes back.
LEMMA ReturnRefines ==
    ASSUME CoreTypeOK, NEW r \in Requests, outcome[r] # "unsent",
           outcome' = outcome, Returned' = Returned \cup {r}
    PROVE  Requestor!Next
<1>1. RequestorState[r] # "unsent"
  BY ShownValues, OutcomeValues DEF RequestorState, CoreTypeOK
<1> QED
  BY <1>1, ShownSame DEF Requestor!Next, Requestor!Return

\* Publishing the request in hand is an answer that comes back, or a stutter.
LEMMA PublishRefines ==
    ASSUME CoreTypeOK, NEW c \in Correlation, c.id \in Requests, outcome[c.id] # "unsent",
           outcome' = outcome, commands' \in {commands, commands \cup {c}},
           UNCHANGED <<env, replied>>
    PROVE  Requestor!Next \/ UNCHANGED <<RequestorState, Returned>>
<1>1. Returned' = Returned \/ Returned' = Returned \cup {c.id}
  BY ReturnedSame, ReturnedPublished
<1>2. CASE Returned' = Returned
  BY <1>2, ShownSame
<1>3. CASE Returned' = Returned \cup {c.id}
  BY <1>3, ReturnRefines
<1> QED
  BY <1>1, <1>2, <1>3

\* Every step of the loop is a step of the abstract requestor or a stutter.
LEMMA LoopRefines ==
    ASSUME CoreTypeOK, Loop, UNCHANGED commanderVars,
           pc \in {"adxQuery", "influxQuery"} => \A q \in Requests : outcome[q] # "pending",
           request \in Requests => outcome[request] # "unsent"
    PROVE  Requestor!Next \/ UNCHANGED <<RequestorState, Returned>>
<1>r. Returned' = Returned
  BY LoopKeepsEnv, ReturnedSame DEF commanderVars
<1>1. ASSUME NEW r \in Requests, HighPressure(r)
      PROVE  Requestor!Next
  BY <1>r, <1>1, SendRefines DEF HighPressure
<1>2. CASE Catch
  BY <1>r, <1>2, CatchRefines
<1>3. CASE \/ Run \/ Wake \/ AdxNotConfigured \/ AdxConnect \/ AdxConnectThrows
           \/ InfluxNotConfigured \/ InfluxConnect \/ InfluxConnectThrows
           \/ NoHighPressure \/ QueryThrows \/ Finally
  <2>1. outcome' = outcome
    BY <1>3 DEF Run, Wake, AdxNotConfigured, AdxConnect, AdxConnectThrows,
       InfluxNotConfigured, InfluxConnect, InfluxConnectThrows, NoHighPressure,
       QueryThrows, Finally
  <2> QED
    BY <1>r, <2>1, ShownSame
<1> QED
  BY <1>1, <1>2, <1>3 DEF Loop
=============================================================================
