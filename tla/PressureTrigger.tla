-------------------------- MODULE PressureTrigger --------------------------
(***************************************************************************)
(* What RunAdxQuery and RunInfluxQuery take for a high pressure.  Stations *)
(* write samples to the telemetry store; once per cycle the processor      *)
(* looks at the samples of the last minute: with ADX for any high sample   *)
(* of the configured server, with InfluxDB for a series whose last sample  *)
(* is high.                                                                *)
(*                                                                         *)
(* Abstracted: a value is "low", "high" (above the threshold, and so is    *)
(* its integer part) or "truncated" (above the threshold, but toint makes  *)
(* it 4000 or, beyond 32 bits, null); time is in units of which the        *)
(* look-back window has Window and the pause between two queries Cycle.    *)
(***************************************************************************)
EXTENDS Naturals, FiniteSets

CONSTANTS
    Stations,       \* the series that have a pressure, by station
    Ours,           \* those whose metadata name the configured server
    Window,         \* the look-back window
    MaxAge,         \* bound: samples older than this are forgotten
    Cycle,          \* from one query to the next, at least: the 15 seconds of the pause
    LongestCycle,   \* ... and at most, with the time the query and the exchange take
    MaxSamples,     \* bound: samples in the store at a time
    NoStation,      \* no station's high sample is waiting to be looked at
    Sources         \* the settings of DATA_SOURCE to consider

ASSUME StationsAssumption == Ours \subseteq Stations /\ Ours # {}
ASSUME TimesAssumption ==
    /\ Window \in Nat \ {0} /\ Cycle \in Nat \ {0}
    /\ LongestCycle \in Nat /\ LongestCycle >= Cycle
    /\ MaxAge \in Nat /\ MaxAge >= Window
ASSUME MaxSamplesAssumption == MaxSamples \in Nat
ASSUME NoStationAssumption == NoStation \notin Stations
ASSUME SourcesAssumption == Sources \subseteq {"ADX", "InfluxDB"}

VARIABLES
    source,     \* DATA_SOURCE
    sample,     \* per station and age, the sample taken then
    sleep,      \* until the next query
    detected,   \* the result of a query of this instant
    refires,    \* scoped detections since our pressure was last high (history)
    unseen,     \* a station of ours with a high sample that came on time and that no
                \* working query has looked at yet (history)
    misses      \* the failed queries since that sample came, while they matter (history)

vars == <<source, sample, sleep, detected, refires, unseen, misses>>

Ages == 0..MaxAge
Samples == {"none", "low", "truncated", "high"}

Init ==
    /\ source \in Sources
    /\ sample = [s \in Stations |-> [a \in Ages |-> "none"]]
    /\ sleep = Cycle
    /\ detected = "none"
    /\ refires = 0
    /\ unseen = NoStation
    /\ misses = 0

(***************************************************************************)
(* The queries.                                                            *)
(***************************************************************************)
AnyAge(a) == a \in Ages            \* mutant: the filter on the time is left out
InLastCycle(a) == a < Cycle        \* mutant: a look-back as long as the pause

\* The look-back of both queries, by the time the sample was taken.
InWindow(a) == a < Window

\* The comparison with the threshold: by the integer part with ADX, of the number
\* itself with InfluxDB.
Exceeds(v) == v = "high" \/ (v = "truncated" /\ source = "InfluxDB")

\* A station's newest sample in the window is found high; one of them is.
Newest(s, a) == InWindow(a) /\ \A b \in Ages : b < a => sample[s][b] = "none"
HighNow(s) == \E a \in Ages : Newest(s, a) /\ Exceeds(sample[s][a])
HighInWindow(s) == \E a \in Ages : InWindow(a) /\ Exceeds(sample[s][a])

\* The ADX query: the rows of the last minute of the stations in scope,
\* restricted to toint(Value) > 4000; any row will do.
AdxHigh(stations) == \E s \in stations : HighInWindow(s)

\* The Flux query: the last value of each series in scope.
InfluxHigh(stations) == \E s \in stations : HighNow(s)

\* The ADX query joins with the metadata of the configured server ...
AdxScope == Ours

\* ... and the InfluxDB query filters by the writers found in the metadata; if
\* none are found, or the query for them fails, the filter is left out.
InfluxScopes == {Ours, Stations}

(***************************************************************************)
(* Steps.                                                                  *)
(***************************************************************************)
Answer(stations, high) ==
    /\ detected' = IF high THEN "high" ELSE "low"
    /\ refires' = IF \E s \in Ours : HighNow(s) THEN 0
                  ELSE IF high /\ stations = Ours THEN refires + 1 ELSE refires
    /\ unseen' = NoStation
    /\ misses' = 0

\* What follows a query: whatever it leads to, and the pause.
Pause == sleep' \in Cycle..LongestCycle

\* The loop's query of this cycle.
Query ==
    /\ sleep = 0
    /\ Pause
    /\ \/ source = "ADX" /\ Answer(AdxScope, AdxHigh(AdxScope))
       \/ source = "InfluxDB" /\ \E w \in InfluxScopes : Answer(w, InfluxHigh(w))
    /\ UNCHANGED <<source, sample>>

\* While no more queries than these have failed, an unseen sample is still in the
\* window when the next query comes.
WithinReach(failures) == (failures + 1) * LongestCycle < Window

\* The query fails and counts as no high value.
QueryFails ==
    /\ sleep = 0
    /\ Pause
    /\ detected' = "failed"
    /\ misses' = IF unseen \in Ours /\ WithinReach(misses) THEN misses + 1 ELSE misses
    /\ UNCHANGED <<source, sample, refires, unseen>>

\* A sample arrives, perhaps some time after it was taken.
Publish(s, a, v) ==
    /\ sample[s][a] = "none"
    /\ Cardinality({at \in Stations \X Ages : sample[at[1]][at[2]] # "none"}) < MaxSamples
    /\ sample' = [sample EXCEPT ![s][a] = v]
    /\ detected' = "none"
    /\ refires' = IF s \in Ours /\ Exceeds(v) THEN 0 ELSE refires
    /\ IF s \in Ours /\ a = 0 /\ Exceeds(v) THEN unseen' = s /\ misses' = 0
       ELSE /\ unseen' = IF source = "InfluxDB" /\ s = unseen /\ ~Exceeds(v)
                         THEN NoStation ELSE unseen
            /\ UNCHANGED misses
    /\ UNCHANGED <<source, sleep>>

\* Time passes, and the window with it.
Tick ==
    /\ sleep > 0
    /\ sleep' = sleep - 1
    /\ sample' = [s \in Stations |->
                    [a \in Ages |-> IF a = 0 THEN "none" ELSE sample[s][a - 1]]]
    /\ detected' = "none"
    /\ UNCHANGED <<source, refires, unseen, misses>>

Next ==
    \/ Query \/ QueryFails
    \/ \E s \in Stations, a \in Ages, v \in Samples \ {"none"} : Publish(s, a, v)
    \/ Tick

Spec == Init /\ [][Next]_vars

(***************************************************************************)
(* Properties.                                                             *)
(***************************************************************************)
\* Every variable has its type, and every query, a failed one too, is followed
\* by the whole pause of the loop.
TypeOK ==
    /\ source \in Sources
    /\ sample \in [Stations -> [Ages -> Samples]]
    /\ sleep \in 0..LongestCycle
    /\ detected \in {"none", "low", "high", "failed"}
    /\ detected # "none" => sleep >= Cycle
    /\ refires \in Nat
    /\ unseen \in Ours \cup {NoStation}
    /\ misses \in Nat

\* Once the pressure of our stations is no longer high, the samples they left in
\* the window trigger the method at most once per cycle until they have left it.
RefiresAreBounded == refires <= (Window + Cycle - 2) \div Cycle

\* Queries that fail do not lose a high pressure: a high sample that came on time is
\* found by the first query that works again, as long as the failures and the time the
\* cycles took leave it in the window, and, with InfluxDB, as long as no lower sample
\* of its station has come since.
HighSurvivesFailures ==
    [][Query /\ unseen \in Ours /\ WithinReach(misses) => detected' = "high"]_vars

\* Why the re-fires are bounded: from one scoped detection to the next the samples grow
\* one cycle older, so that after the k-th the newest high one has been in the window
\* for k cycles.
RefireInv ==
    /\ refires * Cycle <= Window + Cycle - 2
    /\ refires > 0 => \A s \in Ours, a \in Ages :
                         Exceeds(sample[s][a]) => refires * Cycle < a + sleep

\* Why failures do not lose a sample: what is unseen grows older by no more than the
\* longest cycle with each of them.
UnseenInv ==
    unseen \in Ours /\ WithinReach(misses) =>
        \E a \in Ages :
            /\ a + sleep <= (misses + 1) * LongestCycle
            /\ Exceeds(sample[unseen][a])
            /\ source = "InfluxDB" => \A b \in Ages : b < a => sample[unseen][b] = "none"

\* The inductive invariant behind the properties above.
Inv == TypeOK /\ RefireInv /\ UnseenInv

\* The comment on the ADX query: the latest value decides.
LatestValueDecides == detected = "high" => \E s \in Ours : HighNow(s)
=============================================================================
