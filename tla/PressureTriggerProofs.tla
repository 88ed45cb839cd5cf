----------------------- MODULE PressureTriggerProofs -----------------------
(***************************************************************************)
(* What the queries take for a high pressure, for any stations, any        *)
(* look-back and any pause between two queries.                            *)
(***************************************************************************)
EXTENDS PressureTrigger, TLAPS

(***************************************************************************)
(* Counting cycles.                                                        *)
(***************************************************************************)
LEMMA OneMoreCycle ==
    ASSUME NEW k \in Nat
    PROVE  k * Cycle \in Nat /\ (k + 1) * Cycle = k * Cycle + Cycle
BY TimesAssumption

LEMMA OneMoreFailure ==
    ASSUME NEW k \in Nat
    PROVE  /\ (k + 1) * LongestCycle \in Nat
           /\ (k + 1 + 1) * LongestCycle = (k + 1) * LongestCycle + LongestCycle
BY TimesAssumption

LEMMA SumOfBounds ==
    ASSUME NEW a \in Nat, NEW b \in Nat, NEW m \in Nat, NEW n \in Nat, a <= m, b <= n
    PROVE  a + b <= m + n
OBVIOUS

LEMMA CyclesWithin ==
    ASSUME NEW k \in Nat, NEW n \in Nat, k * Cycle <= n
    PROVE  k <= n \div Cycle
BY TimesAssumption

\* A station is high now only if a sample in the window is, and it is when the sample
\* of this instant is.
LEMMA HighSamples ==
    ASSUME NEW s \in Stations
    PROVE  /\ HighNow(s) => HighInWindow(s)
           /\ Exceeds(sample[s][0]) => HighNow(s)
BY TimesAssumption DEF HighNow, HighInWindow, Newest, InWindow, Ages

(***************************************************************************)
(* The inductive invariant.                                                *)
(***************************************************************************)
LEMMA InvInit == Init => Inv
<1> SUFFICES ASSUME Init PROVE Inv
  OBVIOUS
<1>1. TypeOK
  BY StationsAssumption, TimesAssumption DEF Init, TypeOK, Samples
<1>2. RefireInv
  BY TimesAssumption DEF Init, RefireInv
<1>3. UnseenInv
  BY NoStationAssumption, StationsAssumption DEF Init, UnseenInv
<1> QED
  BY <1>1, <1>2, <1>3 DEF Inv

\* A query that worked: it looked at the stations of the configured server at least,
\* and at no others with ADX.
LEMMA InvAnswer ==
    ASSUME Inv, sleep = 0, Pause, UNCHANGED <<source, sample>>,
           NEW stations \in SUBSET Stations, NEW high \in BOOLEAN,
           Answer(stations, high),
           Ours \subseteq stations,
           high => \E s \in stations : HighInWindow(s)
    PROVE  Inv'
<1>1. TypeOK'
  <2>1. sleep' \in 0..LongestCycle /\ sleep' >= Cycle
    BY TimesAssumption DEF Pause
  <2> QED
    BY <2>1, NoStationAssumption DEF Inv, TypeOK, Answer
<1>2. RefireInv'
  <2> USE DEF Exceeds
  <2>a. sleep' \in Nat /\ sleep' >= Cycle
    BY TimesAssumption DEF Pause
  <2>1. refires \in Nat /\ refires * Cycle \in Nat
    BY OneMoreCycle DEF Inv, TypeOK
  <2>2. CASE refires' = 0
    BY <2>2, TimesAssumption DEF RefireInv
  <2>3. CASE refires' = refires
    BY <2>a, <2>1, <2>3, TimesAssumption DEF Inv, RefireInv, Ages
  <2>4. CASE /\ refires' = refires + 1
             /\ high /\ stations = Ours /\ ~\E s \in Ours : HighNow(s)
    <3>1. \A s \in Ours, a \in Ages : Exceeds(sample[s][a]) => refires * Cycle < a
      <4> SUFFICES ASSUME NEW s \in Ours, NEW a \in Ages, Exceeds(sample[s][a])
                   PROVE  refires * Cycle < a
        OBVIOUS
      <4>1. CASE refires = 0
        BY <2>4, <4>1, HighSamples, StationsAssumption, TimesAssumption DEF Inv, Ages
      <4>2. CASE refires > 0
        BY <4>2 DEF Inv, RefireInv, Ages
      <4> QED
        BY <2>1, <4>1, <4>2
    <3>2. PICK s \in Ours, a \in Ages : a < Window /\ Exceeds(sample[s][a])
      BY <2>4 DEF HighInWindow, InWindow
    <3>3. refires' * Cycle = refires * Cycle + Cycle
      BY <2>1, <2>4, OneMoreCycle
    <3>4. refires' * Cycle <= Window + Cycle - 2
      BY <2>1, <3>1, <3>2, <3>3, TimesAssumption DEF Ages
    <3>5. \A u \in Ours, b \in Ages : Exceeds(sample[u][b])' => refires' * Cycle < b + sleep'
      BY <2>a, <2>1, <3>1, <3>3, TimesAssumption DEF Ages
    <3> QED
      BY <3>4, <3>5 DEF RefireInv
  <2> QED
    BY <2>2, <2>3, <2>4 DEF Answer
<1>3. UnseenInv'
  BY NoStationAssumption, StationsAssumption DEF Answer, UnseenInv
<1> QED
  BY <1>1, <1>2, <1>3 DEF Inv

LEMMA InvQuery ==
    ASSUME Inv, Query
    PROVE  Inv'
<1>1. sleep = 0 /\ Pause /\ UNCHANGED <<source, sample>>
  BY DEF Query
<1>2. \A s \in Ours : s \in Stations /\ (HighNow(s) => HighInWindow(s))
  BY HighSamples, StationsAssumption
<1>3. CASE source = "ADX" /\ Answer(AdxScope, AdxHigh(AdxScope))
  <2>1. AdxHigh(AdxScope) \in BOOLEAN /\ AdxScope = Ours /\ Ours \in SUBSET Stations
    BY StationsAssumption DEF AdxHigh, AdxScope
  <2>2. AdxHigh(AdxScope) <=> \E s \in Ours : HighInWindow(s)
    BY DEF AdxHigh, AdxScope
  <2> QED
    BY <1>1, <1>2, <1>3, <2>1, <2>2, InvAnswer
<1>4. ASSUME NEW w \in InfluxScopes, source = "InfluxDB", Answer(w, InfluxHigh(w))
      PROVE  Inv'
  <2>1. InfluxHigh(w) \in BOOLEAN /\ w \in SUBSET Stations /\ Ours \subseteq w
    BY StationsAssumption DEF InfluxHigh, InfluxScopes
  <2>2. InfluxHigh(w) <=> \E s \in w : HighNow(s)
    BY DEF InfluxHigh
  <2>3. \A s \in w : HighNow(s) => HighInWindow(s)
    BY <2>1, HighSamples
  <2> QED
    BY <1>1, <1>4, <2>1, <2>2, <2>3, InvAnswer
<1> QED
  BY <1>3, <1>4 DEF Query

LEMMA InvFails ==
    ASSUME Inv, QueryFails
    PROVE  Inv'
<1>1. refires * Cycle \in Nat
  BY OneMoreCycle DEF Inv, TypeOK
<1>2. sleep = 0 /\ sleep' \in 0..LongestCycle /\ sleep' >= Cycle
  BY TimesAssumption DEF QueryFails, Pause
<1>3. TypeOK'
  BY <1>2 DEF Inv, TypeOK, QueryFails
<1>4. RefireInv'
  BY <1>1, <1>2, TimesAssumption DEF Inv, RefireInv, QueryFails, Exceeds, Ages
<1>5. UnseenInv'
  <2> SUFFICES ASSUME unseen \in Ours, WithinReach(misses')
               PROVE  \E a \in Ages :
                        /\ a + sleep' <= (misses' + 1) * LongestCycle
                        /\ Exceeds(sample[unseen][a])
                        /\ source = "InfluxDB" =>
                              \A b \in Ages : b < a => sample[unseen][b] = "none"
    BY DEF UnseenInv, WithinReach, QueryFails, Exceeds
  <2>1. misses \in Nat /\ WithinReach(misses) /\ misses' = misses + 1
    BY DEF QueryFails, Inv, TypeOK
  <2>2. PICK a \in Ages :
            /\ a + sleep <= (misses + 1) * LongestCycle
            /\ Exceeds(sample[unseen][a])
            /\ source = "InfluxDB" => \A b \in Ages : b < a => sample[unseen][b] = "none"
    BY <2>1 DEF Inv, UnseenInv
  <2>3. a + sleep' <= (misses' + 1) * LongestCycle
    <3> DEFINE reach == (misses + 1) * LongestCycle
    <3>1. (misses' + 1) * LongestCycle = reach + LongestCycle
      BY <2>1, OneMoreFailure
    <3>2. reach \in Nat /\ a + sleep <= reach
      BY <2>1, <2>2, OneMoreFailure
    <3> HIDE DEF reach
    <3>3. a \in Nat /\ a <= reach
      <4>1. a \in Nat
        BY TimesAssumption DEF Ages
      <4> QED
        BY <1>2, <3>2, <4>1
    <3>4. LongestCycle \in Nat /\ sleep' \in Nat /\ sleep' <= LongestCycle
      BY <1>2, TimesAssumption
    <3>5. a + sleep' <= reach + LongestCycle
      BY <3>2, <3>3, <3>4, SumOfBounds
    <3> QED
      BY <3>1, <3>5
  <2> QED
    BY <2>2, <2>3
<1> QED
  BY <1>3, <1>4, <1>5 DEF Inv

LEMMA InvPublish ==
    ASSUME Inv, NEW s \in Stations, NEW a \in Ages, NEW v \in Samples \ {"none"},
           Publish(s, a, v)
    PROVE  Inv'
<1>1. TypeOK'
  <2>1. unseen' \in Ours \cup {NoStation} /\ misses' \in Nat
    BY DEF Inv, TypeOK, Publish
  <2> QED
    BY <2>1 DEF Inv, TypeOK, Publish, Samples
<1>2. \A u \in Stations, b \in Ages :
          sample'[u][b] = IF u = s /\ b = a THEN v ELSE sample[u][b]
  BY DEF Inv, TypeOK, Publish
<1>3. source' = source /\ sleep' = sleep
  BY DEF Publish
<1>4. RefireInv'
  <2>1. CASE s \in Ours /\ Exceeds(v)
    BY <2>1, TimesAssumption DEF RefireInv, Publish
  <2>2. CASE ~(s \in Ours /\ Exceeds(v))
    <3>1. \A u \in Ours, b \in Ages : Exceeds(sample[u][b])' => Exceeds(sample[u][b])
      BY <1>2, <1>3, <2>2, StationsAssumption DEF Exceeds
    <3> QED
      BY <1>3, <2>2, <3>1 DEF Inv, RefireInv, Publish
  <2> QED
    BY <2>1, <2>2
<1>5. UnseenInv'
  <2> SUFFICES ASSUME unseen' \in Ours, WithinReach(misses')
               PROVE  \E b \in Ages :
                        /\ b + sleep <= (misses' + 1) * LongestCycle
                        /\ Exceeds(sample'[unseen'][b])
                        /\ source = "InfluxDB" =>
                              \A c \in Ages : c < b => sample'[unseen'][c] = "none"
    BY <1>3 DEF UnseenInv, WithinReach, Exceeds
  <2>1. CASE s \in Ours /\ a = 0 /\ Exceeds(v)
    <3>1. unseen' = s /\ misses' = 0 /\ 0 \in Ages
      BY <2>1, TimesAssumption DEF Publish, Ages
    <3>2. 0 + sleep <= (0 + 1) * LongestCycle
      BY TimesAssumption DEF Inv, TypeOK
    <3>3. Exceeds(sample'[s][0]) /\ \A c \in Ages : ~(c < 0)
      BY <1>2, <2>1 DEF Ages
    <3> QED
      BY <3>1, <3>2, <3>3
  <2>2. CASE ~(s \in Ours /\ a = 0 /\ Exceeds(v))
    <3>1. misses' = misses /\ unseen' = unseen /\ unseen \in Stations /\ unseen # NoStation
      BY <2>2, NoStationAssumption, StationsAssumption DEF Publish
    <3>2. source = "InfluxDB" /\ s = unseen => Exceeds(v)
      BY <2>2, <3>1 DEF Publish
    <3>3. PICK b \in Ages :
              /\ b + sleep <= (misses + 1) * LongestCycle
              /\ Exceeds(sample[unseen][b])
              /\ source = "InfluxDB" => \A c \in Ages : c < b => sample[unseen][c] = "none"
      BY <3>1 DEF Inv, UnseenInv
    <3>4. ~(s = unseen /\ b = a)
      BY <3>3 DEF Publish, Exceeds
    <3>5. CASE source = "InfluxDB" /\ s = unseen /\ a < b
      <4>1. a + sleep <= (misses + 1) * LongestCycle
        BY <3>3, <3>5, OneMoreFailure, TimesAssumption DEF Inv, TypeOK, Ages
      <4>2. \A c \in Ages : c < a => c < b /\ c # a
        BY <3>5 DEF Ages
      <4> QED
        BY <1>2, <3>1, <3>2, <3>3, <3>5, <4>1, <4>2
    <3>6. CASE ~(source = "InfluxDB" /\ s = unseen /\ a < b)
      BY <1>2, <3>1, <3>3, <3>4, <3>6
    <3> QED
      BY <3>5, <3>6
  <2> QED
    BY <2>1, <2>2
<1> QED
  BY <1>1, <1>4, <1>5 DEF Inv

LEMMA InvTick ==
    ASSUME Inv, Tick
    PROVE  Inv'
<1>1. /\ sleep \in Nat /\ sleep > 0 /\ sleep' = sleep - 1 /\ refires' = refires /\ detected' = "none"
      /\ source' = source /\ unseen' = unseen /\ misses' = misses
  BY TimesAssumption DEF Inv, TypeOK, Tick
<1>2. \A s \in Stations, a \in Ages :
          sample'[s][a] = IF a = 0 THEN "none" ELSE sample[s][a - 1]
  BY DEF Tick
<1>3. \A a \in Ages : a # 0 => a - 1 \in Ages
  BY TimesAssumption DEF Ages
<1>4. TypeOK'
  <2>1. sample' \in [Stations -> [Ages -> Samples]]
    BY <1>3 DEF Inv, TypeOK, Tick, Samples
  <2>2. source' \in Sources /\ refires' \in Nat
    BY DEF Inv, TypeOK, Tick
  <2>3. sleep' \in 0..LongestCycle
    BY <1>1, TimesAssumption DEF Inv, TypeOK
  <2> QED
    BY <1>1, <2>1, <2>2, <2>3 DEF Inv, TypeOK
<1>5. RefireInv'
  <2>1. refires * Cycle \in Nat
    BY OneMoreCycle DEF Inv, TypeOK
  <2>2. ASSUME refires > 0, NEW s \in Ours, NEW a \in Ages, Exceeds(sample'[s][a])
        PROVE  refires * Cycle < a + sleep'
    <3>1. a # 0 /\ a - 1 \in Ages /\ Exceeds(sample[s][a - 1])
      BY <1>2, <1>3, <2>2, StationsAssumption DEF Exceeds
    <3>2. refires * Cycle < (a - 1) + sleep
      BY <2>2, <3>1 DEF Inv, RefireInv
    <3> QED
      BY <1>1, <2>1, <3>1, <3>2 DEF Ages
  <2> QED
    BY <1>1, <2>2 DEF Inv, RefireInv, Exceeds
<1>6. UnseenInv'
  <2> SUFFICES ASSUME unseen \in Ours, WithinReach(misses)
               PROVE  \E a \in Ages :
                        /\ a + sleep' <= (misses + 1) * LongestCycle
                        /\ Exceeds(sample'[unseen][a])
                        /\ source = "InfluxDB" =>
                              \A b \in Ages : b < a => sample'[unseen][b] = "none"
    BY <1>1 DEF UnseenInv, WithinReach, Exceeds
  <2>1. PICK a \in Ages :
            /\ a + sleep <= (misses + 1) * LongestCycle
            /\ Exceeds(sample[unseen][a])
            /\ source = "InfluxDB" => \A b \in Ages : b < a => sample[unseen][b] = "none"
    BY DEF Inv, UnseenInv
  <2>2. misses \in Nat /\ unseen \in Stations
    BY StationsAssumption DEF Inv, TypeOK
  <2>3. (misses + 1) * LongestCycle \in Nat /\ (misses + 1) * LongestCycle < Window
    BY <2>2, OneMoreFailure DEF WithinReach
  <2>4. a + 1 \in Ages /\ (a + 1) - 1 = a /\ a + 1 # 0
    BY <1>1, <2>1, <2>3, TimesAssumption DEF Ages
  <2>5. (a + 1) + sleep' <= (misses + 1) * LongestCycle
    BY <1>1, <2>1, <2>3 DEF Ages
  <2>6. Exceeds(sample'[unseen][a + 1])
    BY <1>2, <2>1, <2>2, <2>4
  <2>7. \A b \in Ages : b < a + 1 /\ b # 0 => b - 1 < a
    BY DEF Ages
  <2>8. source = "InfluxDB" => \A b \in Ages : b < a + 1 => sample'[unseen][b] = "none"
    BY <1>2, <1>3, <2>1, <2>2, <2>7
  <2> QED
    BY <2>4, <2>5, <2>6, <2>8
<1> QED
  BY <1>4, <1>5, <1>6 DEF Inv

LEMMA InvStep == Inv /\ [Next]_vars => Inv'
<1> SUFFICES ASSUME Inv, [Next]_vars PROVE Inv'
  OBVIOUS
<1>1. CASE UNCHANGED vars
  BY <1>1 DEF vars, Inv, TypeOK, RefireInv, UnseenInv, WithinReach, Exceeds
<1> QED
  BY <1>1, InvQuery, InvFails, InvPublish, InvTick DEF Next

(***************************************************************************)
(* The properties.                                                         *)
(***************************************************************************)
\* Every reachable state satisfies the inductive invariant.
THEOREM Invariance == Spec => []Inv
<1>1. Inv /\ [Next]_vars => Inv'
  BY InvStep
<1> QED
  BY InvInit, <1>1, PTL DEF Spec

\* Every variable keeps its type, and a whole pause follows every query.
THEOREM TypeCorrect == Spec => []TypeOK
<1>1. Inv => TypeOK
  BY DEF Inv
<1> QED
  BY Invariance, <1>1, PTL

\* What is left in the window of a pressure that is no longer high triggers the method
\* at most as many times as there are cycles in the window, for any window and pause.
THEOREM RefiresBounded == Spec => []RefiresAreBounded
<1>1. Inv => RefiresAreBounded
  <2> SUFFICES ASSUME Inv PROVE RefiresAreBounded
    OBVIOUS
  <2>1. refires \in Nat /\ Window + Cycle - 2 \in Nat /\ refires * Cycle <= Window + Cycle - 2
    BY TimesAssumption DEF Inv, TypeOK, RefireInv
  <2> QED
    BY <2>1, CyclesWithin DEF RefiresAreBounded
<1> QED
  BY Invariance, <1>1, PTL

\* Failed queries do not lose a high pressure: the first query that works finds it, for
\* any look-back, as long as the look-back is longer than the cycles since the sample.
THEOREM HighSurvives == Spec => HighSurvivesFailures
<1>1. ASSUME Inv, Query, unseen \in Ours, WithinReach(misses)
      PROVE  detected' = "high"
  <2>1. PICK a \in Ages :
            /\ a + sleep <= (misses + 1) * LongestCycle
            /\ Exceeds(sample[unseen][a])
            /\ source = "InfluxDB" => \A b \in Ages : b < a => sample[unseen][b] = "none"
    BY <1>1 DEF Inv, UnseenInv
  <2>2. InWindow(a)
    BY <1>1, <2>1, OneMoreFailure, TimesAssumption
    DEF Query, WithinReach, InWindow, Inv, TypeOK, Ages
  <2>3. CASE source = "ADX"
    BY <1>1, <2>1, <2>2, <2>3 DEF Query, Answer, AdxHigh, AdxScope, HighInWindow
  <2>4. CASE source = "InfluxDB"
    <3>1. HighNow(unseen)
      BY <2>1, <2>2, <2>4 DEF HighNow, Newest
    <3>2. \A w \in InfluxScopes : InfluxHigh(w)
      BY <1>1, <3>1, StationsAssumption DEF InfluxHigh, InfluxScopes
    <3> QED
      BY <1>1, <2>4, <3>2 DEF Query, Answer
  <2> QED
    BY <1>1, <2>3, <2>4 DEF Query
<1>2. Inv /\ [Next]_vars =>
          [Query /\ unseen \in Ours /\ WithinReach(misses) => detected' = "high"]_vars
  BY <1>1
<1> QED
  BY Invariance, <1>2, PTL DEF Spec, HighSurvivesFailures
=============================================================================
