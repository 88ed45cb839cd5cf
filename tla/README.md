# UA-CloudAction in TLA+

UA-CloudAction watches a telemetry store for a high pressure and, when it finds
one, has a method called on an OPC UA server: it sends an OPC UA PubSub *action
request* through Kafka or MQTT to a commander (UA Cloud Commander, or the OPC UA
connector of Azure IoT Operations, "AIO") and waits for the correlated response.
Next to that it serves a small web API over the same telemetry store (`browse`,
`read`, `historyread`) and a status page.

This directory holds a TLA+ model of the program, TLC configurations, and proofs
for TLAPS. `PROJECT.json` maps every definition to the lines it models.

## 1. Inventory

| Component | State | Operations | Promises worth checking |
|---|---|---|---|
| Trigger loop (`ActionProcessor.Run`) | flags `Running`, `ConnectionTo*`; four fields with disposable clients | every 15 s: query, send, catch, finally | always gets to its next cycle; clients released; flags earned |
| Pressure detection (`RunAdxQuery`, `RunInfluxQuery`) | none; reads the store | one query per cycle | a high value is acted on once, and not lost to failed queries; only the configured server's counts; the latest value decides |
| Kafka transport (`SendRequestViaKafka`) | producer, consumer, correlation data, position on the response topic | build, produce, consume until answered or silent for 15 s | an answer belongs to its request; none is passed over; the wait ends |
| MQTT transport (`SendRequestViaMqtt`) | client, event, receive handler on another thread | connect, subscribe, publish, wait, clean up | the same, with the handler racing the loop |
| Message handling (`HandleResponse`, `HandleAioResponse`, `Model.cs`) | none | match, report | only the response to this request is accepted |
| Browse cache (`OpcUaDataSourceResolver.Browse`) | one entry per source | look up, enumerate, store | bounded age; failures are not cached |
| Data sources (`AdxDataSource`, `InfluxDataSource`) | one client each, built lazily under a lock | browse tags, read latest, read history | one client; the lock is released |
| Connection factories | none | `Create` | a client, null, or an exception |
| NodeIds and values (`IOpcUaDataSource.cs`) | none | parse, build, convert | a NodeId from `browse` reads the same series |
| Web API controller and DTOs | none | browse, read, historyread | per-node status, argument checks |
| Basic authentication | none | authenticate, challenge | only right credentials reach the limiter and the controller |
| Cookie login (`AuthController`) | the cookie, kept by the framework | log in | – |
| Request pipeline, rate limiter (`Program.cs`) | permits left per client address | order of the middleware; start the loop once | at most the limit per window |
| Status page (`HomeController`) | none | reads the flags | shows what the flags say |
| Client-side form validation (`jquery.validate.unobtrusive.js` on `jquery.validate.js`) | rules per field, error and success lists, remembered remote answers, message containers | parse, type, leave a field, submit, reset, remote answer | what is sent is valid; containers and summary say what the validator says |
| Other client-side assets, packaging | – | – | none |

**Interaction.** One background task runs the loop; request threads run the web
API and the status page. The loop and the web API share no object except the
flags, which the status page reads without synchronisation. The loop builds its
own clients in every cycle; the data sources keep theirs. The MQTT receive
handler is a third thread: it writes a flag and sets an event the loop waits on.

**Hard behaviours.** The response topic is shared, keeps its messages and is read
from the beginning in every cycle, so answers to earlier requests turn up during
later ones, and on a topic shared with the requests these turn up too; a request can be executed although it was given up; MQTT handlers can
finish after their wait, their cycle or their connection; a NodeId is made by one rule and
taken apart by others; a limiter's windows do not begin where the clients' do; a form's
remote answers come after edits, resets and submissions; any call to a broker or
store can throw half way through; browses overlap with a catalogue that changes;
an InfluxDB browse is several queries that fail one by one. `PROJECT.json` lists
each of these as a hazard at its line, with the property that watches it.

## 2. Modules

| Module | Models | State and actions |
|---|---|---|
| `ActionProcessor` | the loop, its queries, the catch and finally blocks | `pc` is where the thread stands, at the granularity of its blocking calls; `client` and `status` are the fields; `outcome` is what the program logs about a request; `commands`/`executed` belong to the external commander |
| `KafkaExchange` | `ActionProcessor` + Kafka transport | `responses` is RESPONSE_TOPIC, never consumed, read through `position`; 0 means that no partition is assigned yet |
| `MqttExchange` | `ActionProcessor` + MQTT transport | `handling` is the set of deliveries a handler is at work on, in two stages: before it looks at the message, and before it sets the event |
| `ActionRequestor` | the abstract promise of either transport | each request is unsent, outstanding, answered or abandoned |
| `PressureTrigger` | the two trigger queries over a sliding window of samples | `sample` by station and age; `Tick` shifts it |
| `BrowseCache` | browse cache, enumeration, lazy clients | one control point per request thread; the lock of a data source is a variable |
| `NodeResolution` | the NodeIds `browse` makes and what `read` and `historyread` find for one, in ADX and in InfluxDB | the store: `metadata` and `raw` per writer, `points` of telemetry, the clock `now`; queries are operators that return a set of outcomes |
| `WebApi` | `NodeResolution` + authentication, authorization, rate limiter, controller, resolver | `permits` and `opened` are the limiter's windows per address; a request is one step; `reply` is the latest response; `served` (who was let through, when) and `current` (how many since the window began) are history |
| `FormValidation` | a form, its validator and its message containers in the browser | `options` and `settings` are the rules parsed and the rules the validator has; `form` is the rest; one action per event handler |
| `*Proofs` | – | the theorems about the module they are named for (section 4) |
| `MC*` | – | constants for TLC |

The exchange modules extend `ActionProcessor` rather than instantiate it, because
the transport runs on the loop's thread and continues its control flow: the
disjunction `LoopStep \/ Send` is that one thread.

Abstractions that matter:

* A request is its correlation id. The id has a *form*, bytes or text, because
  the Kafka path sends the Guid's text to an AIO commander and its bytes to
  others, and the two never compare equal.
* A message on the response topic has a kind (a response, a request, something
  unparsable, or no value at all), correlation data and a status. That is what the
  handlers tell apart. With UA Cloud Commander they look at all three. With an AIO
  commander they compare the correlation data only: a reply that reports a failure
  counts as the answer, and so does the program's own request, which carries the same
  data, where what is sent to TOPIC also reaches RESPONSE_TOPIC (`sharedTopic`).
  `Returned` names the requests something has come back for that the handlers would
  take for the answer: those the commander has `replied` to, and with an AIO commander
  on a shared topic every request. The properties of the answers are stated with it;
  an AIO answer does not show that the
  method was called.
* `outcome` is the program's latest report of a request: the answer, or the failure of
  the cycle, also if the exception comes after the answer.
* The broker and the commander are modelled from what the code assumes: a request
  may be executed late, more than once or never, answered several times, with a
  failure without having been executed, after it was given up, or not at all. Success
  is answered only to what was executed. The code's `Expiry`, AIO's own timeouts and
  network delays are choices of this environment.
* Whether a client library call throws is a choice, wherever it can throw.
* A sample of the pressure is low, high, or `truncated`: above the threshold by less
  than one, which ADX's `toint` takes for 4000 and InfluxDB's comparison for high. It
  has the age at which it was taken and may arrive late. A cycle takes the pause or
  longer, up to `LongestCycle`, which stands for the time of queries and exchanges.
* A NodeId or DataSetName is the record of its parts (application URI, `nsu=`, a bare
  URI, the kind and text of the last part). That is what the parsers, KQL's `extract`
  and the store filters tell apart. A value has a series and a time and no contents.
* A request to the web API is one step, because neither store query nor limiter is
  torn by another request; the two queries of InfluxDB's `read` can each lose their
  metadata. The browse cache, which does overlap, is `BrowseCache`'s subject.
* A text typed into a form is its length, a message the name of its rule. The user
  types, pastes, leaves fields, submits and resets; a script adds a field.
* `replied`, `lastQuery`, `lastPublish`, `waited`, `created`, `refires`, `unseen`
  and `misses` are history variables: no action is guarded by them, except MQTT's
  `waited`, which is the clock of its single wait.

## 3. Runs

| Run | Question | Result |
|---|---|---|
| `kafka_exchange` | two requests, two messages on the topic, both commander kinds, response topics shared or not, either store configured or not: matching, flags, clients, the inductive invariant, the refinement of `ActionRequestor`, and the loop's progress | holds |
| `mqtt_exchange` | two sends with late handlers and a connection that can be lost, response topics shared or not: matching, flags, clean-up, the refinement of `ActionRequestor`, and the loop's progress | holds |
| `trigger_safety` | old samples re-trigger at most four times; failed queries do not lose a high sample that the next working one can still see | holds |
| `browse_cache` | age of cached answers, failures of ADX, one client, every browse is answered | holds |
| `web_api` | listed NodeIds find their own series; what is read is the newest of a series, is in its history and of its namespace; at most twice the limit in a window's length; refused requests use no permit | holds |
| `form_validation` | what is sent is valid; containers, summary and reset agree with the validator | holds |
| `kafka_wait` | "wait for up to 15 seconds" | violated: every other message restarts the wait |
| `kafka_adx_flag` | "Connected to ADX" | violated: a failed query leaves the flag set |
| `trigger_latest` | the latest ADX value decides | violated: any value of the last minute does |
| `web_api_round_trip` | "A NodeId returned by `browse` can be passed directly to `read`" | violated: a tag listed under the default namespace finds nothing in ADX |
| `web_api_latest` | `read` "returns the latest `DataValue` for each node" | violated in InfluxDB: of several writers, the first one's |
| `browse_influx` | only successful enumerations are cached | violated: swallowed query failures pass for success |

Every passing run also checks `Inv`, the inductive invariant of
its module, of which the type invariant is the first conjunct.

The violations are disagreements between the code and what its comments, README or
status page say; `PROJECT.json` quotes both sides. Re-triggering within the minute may
well be what an operator wants, but it is not what the comment says.

Further disagreements the model shows are recorded here rather than checked, each a plain
consequence of one definition:

* `MESSAGING_PLATFORM=AIO`, in the README an alias of `MQTT` (`README.md:35`, `:48`), goes
  to Kafka: `ActionProcessor.cs:343` compares with "MQTT" only (`UseMqtt`).
* With an AIO commander, whatever carries the correlation data is logged as "Command
  successfully executed!" (`ActionProcessor.cs:609`, `:750`), a failure reply too.
* ADX's `toint` (`ActionProcessor.cs:138`) does not find 4000.5 above 4000, which "exceeds
  the threshold" (`:112-114`) and is high for InfluxDB (`Exceeds`).
* When the metadata query of InfluxDB finds no writer, or fails, the trigger is not scoped
  (`InfluxScopes`), as the comment on `GetInfluxWriters` wants it (`ActionProcessor.cs:155-158`),
  and every publisher's pressure counts, which the comment on the scope warns of (`:258-261`).
* InfluxDB's `limit` is per series (`InfluxHistory`), so that a NodeId of several writers
  returns more values than `NumValuesPerNode`, which the README says limits them (`README.md:85`).
* The stores match a namespace by containment (`Has`), so that a NodeId of a namespace that
  begins another one is read from writers of that one too, while a comment says the effective
  namespace "matches" (`AdxDataSource.cs:165-167`).

`RefiresAreBounded` counts the scoped detections since our pressure was last high, by
the newest sample of each station. With a look-back of a minute and a pause of 15 seconds
there are four, when the first query comes a second after the high sample: the model's
unit is half a pause, so that a sample can come between two queries.
`HighSurvivesFailures` is about a sample that arrives when it is taken, and stops
promising anything once the failures so far, each with the longest cycle, could have
carried it out of the window, or, with InfluxDB, once a lower sample of its station
has come, since `last()` sees only the newest.

`BrowsedNodesReadBack` is the part of the round trip that holds: reading a NodeId that
`browse` has listed looks at the very series it was made of, for every NodeId not made
with the default namespace. It exempts a Subject with several raw namespaces, of which
`take_any` may choose one for `browse` and another one for `read`, and a DataSetName in
InfluxDB that begins with `nsu=` and does not end with the field, which is read as the
name of a field. In InfluxDB too the default namespace leads astray: it begins every
other namespace of the OPC Foundation, and a NodeId that carries it is narrowed to the
writers whose metadata contain it.

A NodeId need not stand for one series: a DataSetName stands for all tags of its
writers, and a tag in a namespace for every writer that has it. For such a NodeId
InfluxDB's `read` returns the first writer's latest value and its `historyread` a limit's
worth of each; `web_api_latest` records the first against the README.
`LatestIsFresh` is what remains of it: the newest for a NodeId of one series and
with ADX, and for several a bound on how much older the value may be. `ReadIsInHistory`
relates the two operations, which ask with queries and ranges of their own.

`ReadStaysInNamespace` means by a writer of a namespace one for which that very URI is
recorded. Since the stores match by containment, the property is for NodeIds whose
namespace begins no other recorded one (`Unambiguous`); in InfluxDB it also needs some writer of the namespace
and an answer to the metadata query, without which the code reads by the field alone.

What the form scripts do besides is recorded here, since no document of the repository
promises otherwise: a field added after the validator was built is not validated; two
adapters that set the same rule override each other, so that the order of registration
decides (`PagesAssumption` leaves such pages out); a remote request that fails leaves its field pending, and a submission waits for it;
an error that the server's refusal had put there then stays, since asking again took its
field off the list that typing rechecks (`jquery.validate.js:447`; `Lost` in
`ErrorsAreRechecked`); a submission that an answer takes up is dropped without a word when
the validation then asks again (`:1119`), so that the properties of submissions are about
what is sent and what is shown, not that it is sent in the end; the answer to a request
from before a reset still marks the field; `onReset` leaves the texts of the containers
and the items of the summary.

**Bounds.** `Requests` bounds the number of sends; two suffice for an answer to
one request to meet the wait for another, which is what the properties are about,
and the proofs are for any number. `MaxResponses` bounds the topic: two messages
are a late answer or a foreign message and an answer to the current request, in
either order.
`WaitUnits` is the length of the 15 seconds: 1, the least that can be restarted. `MaxTime` and `LongestBuild` bound the clock of the browse
cache: the time-to-live is 2 and a browse takes up to 2, so an entry can be built,
stored and used, and expire, within four units. `LongestBuild` stands for the HTTP timeouts of the
clients. In the trigger runs the look-back of a minute is 8 units,
the pause of 15 seconds 2, and a slow cycle 3, so that samples fall between queries and
the window's edge between cycles; `MaxAge` is the age at which samples are forgotten, and
must reach just outside the window so that its edge matters. Three samples are a high one,
one that follows it and one of another station.

In `web_api` the telemetry store of a scenario gets two points from two writers of two
tags within three units of time, and is asked once: a request changes nothing in the
store, so one answer in every state of it is all there is to see. Two points are a newer
and an older one, of one series or two, or of two writers; the time ranges of 1 hour, 24
hours and 30 days become 0, 1 and 1, so that a point can lie in each of them or in none.
One writer has each shape of metadata in turn, the other one a namespace that the default
one begins. The scenarios of the limiter have no points, two addresses, a limit of 1 or 2
and windows of 2 units; the four requests of an address exhaust it twice. `MaxTime` is the
clock's bound, `maxPoints` and `maxRequests` are bounds on the environment.

In `form_validation` three pages give each adapter every shape of its limits (a minimum, a
maximum, both), in one of them with `length` and `minlength` on the same field; the limits
are 0, 1 and 2, and texts of 0 to 2 characters are typed into the
first field and of 0 or 1 into the second, so that each limit is met, missed or, by a blank,
passed over; the server rejects a part of what it is asked, for the first field by the
second one's value.

Deadlock is checked in every run of the loop, the trigger and the browse cache: nothing in
them may stop, and the environment's steps never have to happen for the loop to go on. In
`web_api` the bounds end a behaviour, and in `form_validation` the page is left once the
form is sent.

**Fairness.** Kafka: weak fairness of the loop's thread (`Task.Run` gives it a
thread that is never cancelled) and of time during a wait. MQTT: the same for the
handler's thread. Neither assumes anything of the broker or the commander. With
Kafka the loop's progress also rests on the finite number of messages
(`MaxResponses`): every foreign message restarts the wait, so a topic that always
has another message for it within 15 seconds would hold the loop. The MQTT run
needs no such bound, since its wait is one call. Browse: weak fairness of each
request thread's steps, and strong fairness of taking the data source's lock,
because a lock that is held only while a client is built becomes free again and
again, and the runtime's monitor does not pass a waiting thread over for ever.

## 4. Proofs

Every safety invariant and every action property that a passing run checks is a theorem
of its specification, and so is the refinement of `ActionRequestor` by both exchanges. A
proof follows one pattern: a lemma for each action of the module shows that it preserves
`Inv`; `InvStep` puts them together; `Invariance` is `Spec => []Inv`; and each property
follows from `Inv`.

| Module | Theorems besides `Invariance` and `TypeCorrect` |
|---|---|
| `ActionProcessorProofs` | none; the lemmas that both exchanges use: how the loop's steps type, and which step of the requestor each of them is (`SendRefines`, `AnswerRefines`, `AbandonRefines`, `CatchRefines`, `ReturnRefines`, `PublishRefines`, `LoopRefines`) |
| `KafkaExchangeProofs` | `AnswersEarned`, `NothingSkipped`, `CanBeAnswered`, `BrokerFlagEarned`, `CommanderNeedsBroker`, `ClientsAreReleased`, `Refinement` |
| `MqttExchangeProofs` | `AnswersEarned`, `SubscribesInTime`, `WaitsEndWithVerdict`, `BrokerFlagEarned`, `ConnectionsAreClosed`, `Refinement` |
| `PressureTriggerProofs` | `RefiresBounded`, `HighSurvives` |
| `BrowseCacheProofs` | `OneClientIsBuilt`, `AgesAreBounded`, `AdxFailuresNotCached` |
| `NodeResolutionProofs` | none; lemmas about what a query returns and a NodeId resolves to |
| `WebApiProofs` | `PermitsCounted`, `TwicePerWindow`, `BrowsedReadBack`, `LatestFresh`, `ReadInHistory`, `StaysInNamespace` |
| `FormValidationProofs` | `SentValid`, `ContainersShowVerdicts`, `ErrorsRechecked`, `RefusalExplained`, `ResetForgotten` |

They hold for any requests, settings that select the transport, lengths of a wait and
bounds of a topic; any stations, look-back, pause and slowness of cycles; any callers and time-to-live; any
addresses, limits and windows, any writers, metadata, namespaces and tags; any fields,
pages, texts and server.

**Why each property holds.**

* *Kafka.* `AnswersAreEarned` is not inductive by itself: what is read from the topic and
  matches the awaited correlation data must have come back for that request, and a good
  response moreover for one that was executed (`ResponsesAreEarned`), the correlation data must be that of the request in hand
  (`CorrelationInHand`), and a request must be in hand and pending exactly while a step
  of the exchange may settle it (`RequestInHand`). The same conjunct shows, in the
  refinement, that no second request is sent while one is outstanding.
  `ClientsAreReleased` rests on an invariant of its own, `ClientInv`, about what the
  client fields hold at each point of the loop.
* *MQTT.* A handler may outlive its wait, its cycle and its connection, so the invariant
  says of every delivery still being handled that what it could take for an answer has
  come back for its request (a good response for an executed one), and that once accepted,
  its request has its verdict (`DeliveriesAreEarned`); that only sent requests are in the commander's hands
  (`CommandsWereSent`); that the event is set, and the clean-up entered without an
  exception, only with a verdict for the request in hand (`RequestInHand`). Where a
  connection and an exception can be met is `ConnectionInHand`; a broker flag that is not
  earned is on its way to the catch block (`FlagFollowsPublish`).
* *Trigger.* `RefireInv`: after the k-th detection by old samples alone, every high sample
  of ours is more than k cycles old, less what is left of the sleep. It leaves the window
  before k can pass the bound, since it is the same samples that grow older. `UnseenInv`:
  an unseen high sample is no older, by the time the next query comes, than one longest
  cycle for each failure and one more.
* *Browse cache.* `LockInv` ties the lock, the client and the thread that builds it
  together: nobody takes the lock and finds no client twice. `AgeInv` dates what each
  thread is enumerating and what is cached. `AdxInv` says that a failed enumeration of ADX
  has thrown, and therefore is not stored.
* *Limiter.* `TwicePerWindow` needs no sum over a history: a span of a window's length
  that starts after the replenishment holds at most what was counted since, and one that
  starts before it at most that and one limit (`LimitInv`). Replenishing turns the first
  bound into the second, and a request adds one element to `Span` and one to `current`.
* *Web API answers.* A reply is computed in one step, so its properties are lemmas about
  the queries. Latest values exist because a non-empty set of natural times has a least
  age (`LeastElement`); `UnlimitedIsAll` says that a history without a
  limit holds every value of its range, which is no narrower than those `read` asks; `AdxInNamespace` and
  `InfluxInNamespace` follow a namespace through metadata, writers and points;
  `AdxReadsBack` and `InfluxReadsBack` follow a NodeId from the metadata it was made
  of back to its series. The store may change after a reply, so `InvReport` and `InvTick`
  show that the properties outlive that.
* *Form.* `ContainerShowsVerdict` is `Marked`, but to show that it survives a late answer
  takes `Listed`: a server's refusal is added to the lists of the latest validation, all of
  which are shown again, so that none of them may have been overtaken by a later verdict.
  `SentIsValid` takes `Remembered`, because a late answer may itself send the form, and
  fields that are not asked again count as what their remembered answer says. `Rechecked`
  is why a broken rule cannot be left standing: it was noted when it was found, unless it is
  a refusal whose field is being asked about anew. The lemmas follow the code: one about each
  of `check`, `element`, `checkForm`, `showErrors` and the handlers, each with a small
  contract, so that a handler's proof never opens the functions it calls.

**Assumptions.** Only the named `ASSUME`s of the modules, all of which TLC evaluates in the
runs. Settings are settings and select the module's transport; `Foreign`, `NoRequest`,
`NoStation`, `NoWriter`, `Free` and `Null` are none of the values they stand apart from; bounds, times
and ranges are naturals, the narrow range of `read` is not the longer one, a cycle takes
at least the pause, and the look-back, the pause and `LongestBuild` are positive; the
model remembers samples for at least as long as the trigger looks back (`TimesAssumption`). Four come from the
code or its framework:

* `StationsAssumption`: the configured server has a writer. Without one no pressure of ours
  exists to trigger anything.
* `ScenariosAssumption`: the data source is one of the two, since the resolver takes any other
  name for ADX; a limit is positive, since `Program.cs` falls back to 60; metadata is
  a finite record, and there are no raw metadata namespaces in InfluxDB, whose queries read
  none: a namespace recorded there would count for `ReadStaysInNamespace` and not be found.
* `FieldsAssumption`: additional fields are fields of the form.
* `PagesAssumption`: limits are numbers, and no two attributes of a field claim the same
  rule. With two of them the later adapter replaces the rule of the earlier one and
  `SentIsValid` is false, which is recorded in section 3 and as a hazard.

**Only model-checked.** `LoopKeepsRunning` of both exchanges and `EveryBrowseEnds`: they
rest on fairness, and TLAPS has no support for `ENABLED`. The violations are TLC's, too: they
are counterexamples.

## 5. What is not modelled, and the plan

Not modelled: payload layout beyond what is compared, TLS and credentials, layout of
pages, packaging, bootstrap and jQuery, the conversion of values. The cookie login is a
pair of stateless handlers that compare two strings. The status page's unsynchronised
reads are not a model of their own: each flag is a single word, and the page may mix two
cycles. `historyread` with start and end times, the JSON array a namespace may be, and
form inputs other than texts are left out of their modules.

Next:

1. `CloudAction`: trigger and exchange together, so that a method call can be traced
   back to a sample of the configured server.
2. The part of `jquery.validate.unobtrusive.js` that reads the attributes of inputs other
   than texts, as far as they set rules of their own.
3. An abstract specification of the rate limiter's promise, which the web API is shown to
   implement for each address.

## 6. Running

    tlc -config KafkaExchange.cfg MCKafkaExchange     # any row of PROJECT.json's runs
    tlapm KafkaExchangeProofs.tla                     # and every other *Proofs module
