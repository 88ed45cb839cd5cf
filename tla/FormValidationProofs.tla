------------------------ MODULE FormValidationProofs ------------------------
(***************************************************************************)
(* Proofs about FormValidation: a form is sent only with valid values, its *)
(* containers show the validator's latest verdicts, errors are looked at   *)
(* again, refusals are explained and a reset forgets.                      *)
(***************************************************************************)
EXTENDS FormValidation, WellFoundedInduction, TLAPS

(***************************************************************************)
(* The rules of a field and the verdict on it.                             *)
(***************************************************************************)
LEMMA RulesAre ==
    Rules = {"required", "minlength", "maxlength", "rangelength", "__dummy__", "remote"}
BY DEF Rules

\* Every rule has its place in the order.
LEMMA OrderedRules ==
    ASSUME NEW f
    PROVE  /\ DOMAIN RuleOrder(f) = 1..6
           /\ \A r \in Rules : \E i \in 1..6 : RuleOrder(f)[i] = r
<1>1. \/ RuleOrder(f) =
            <<"required", "rangelength", "maxlength", "minlength", "__dummy__", "remote">>
      \/ RuleOrder(f) =
            <<"required", "rangelength", "minlength", "maxlength", "__dummy__", "remote">>
  BY DEF RuleOrder
<1>2. DOMAIN RuleOrder(f) = 1..6
  BY <1>1
<1>3. CASE RuleOrder(f) =
              <<"required", "rangelength", "maxlength", "minlength", "__dummy__", "remote">>
  <2>1. /\ RuleOrder(f)[1] = "required" /\ RuleOrder(f)[2] = "rangelength"
        /\ RuleOrder(f)[3] = "maxlength" /\ RuleOrder(f)[4] = "minlength"
        /\ RuleOrder(f)[5] = "__dummy__" /\ RuleOrder(f)[6] = "remote"
    BY <1>3
  <2> QED
    BY <1>2, <2>1 DEF Rules
<1>4. CASE RuleOrder(f) =
              <<"required", "rangelength", "minlength", "maxlength", "__dummy__", "remote">>
  <2>1. /\ RuleOrder(f)[1] = "required" /\ RuleOrder(f)[2] = "rangelength"
        /\ RuleOrder(f)[3] = "minlength" /\ RuleOrder(f)[4] = "maxlength"
        /\ RuleOrder(f)[5] = "__dummy__" /\ RuleOrder(f)[6] = "remote"
    BY <1>4
  <2> QED
    BY <1>2, <2>1 DEF Rules
<1> QED
  BY <1>1, <1>3, <1>4

LEMMA LeastElement ==
    ASSUME NEW S \in SUBSET Nat, S # {}
    PROVE  \E n \in S : \A m \in S : n <= m
<1> DEFINE R == OpToRel(<, Nat)
<1>1. PICK n \in S : \A m \in S : <<m, n>> \notin R
  <2>1. IsWellFoundedOn(R, Nat)
    BY NatLessThanWellFounded
  <2> HIDE DEF R
  <2> QED
    BY <2>1, WFMin
<1>2. \A m \in S : ~(m < n)
  BY <1>1 DEF OpToRel
<1> QED
  BY <1>2

\* The first of some rules is one of them.
LEMMA FirstRuleIn ==
    ASSUME NEW f, NEW S \in SUBSET Rules, S # {}
    PROVE  FirstRule(f, S) \in S
<1> DEFINE order == RuleOrder(f)
           I == {i \in DOMAIN order : order[i] \in S}
<1>0. DOMAIN order = 1..6 /\ \A r \in Rules : \E i \in 1..6 : order[i] = r
  BY OrderedRules
<1> HIDE DEF order
<1>1. I \in SUBSET Nat
  BY <1>0
<1>2. I # {}
  BY <1>0
<1>3. Min(I) \in I
  <2> HIDE DEF I
  <2>1. \E n \in I : \A m \in I : n <= m
    BY <1>1, <1>2, LeastElement
  <2> QED
    BY <2>1 DEF Min
<1>4. order[Min(I)] \in S
  BY <1>3
<1> QED
  BY <1>4 DEF FirstRule, order

\* What one adapter does to the rules.
LEMMA Limited ==
    ASSUME NEW rules, NEW params, NEW lo, NEW hi, NEW both, DOMAIN params \subseteq {"min", "max"}
    PROVE  LET result == addMinMax(rules, params, lo, hi, both)
           IN \/ DOMAIN params = {} /\ result = rules
              \/ DOMAIN params = {"min"} /\ result = With(rules, lo, params["min"])
              \/ DOMAIN params = {"max"} /\ result = With(rules, hi, params["max"])
              \/ DOMAIN params = {"min", "max"}
                    /\ result = With(rules, both, <<params["min"], params["max"]>>)
<1>1. \/ DOMAIN params = {} \/ DOMAIN params = {"min"} \/ DOMAIN params = {"max"}
      \/ DOMAIN params = {"min", "max"}
  OBVIOUS
<1>2. {"min"} # {"max"} /\ {"min"} # {"min", "max"} /\ {"max"} # {"min", "max"}
  OBVIOUS
<1> HIDE DEF With
<1>3. CASE DOMAIN params = {}
  BY <1>3 DEF addMinMax, setValidationValues
<1>4. CASE DOMAIN params = {"min"}
  BY <1>2, <1>4 DEF addMinMax, setValidationValues
<1>5. CASE DOMAIN params = {"max"}
  BY <1>2, <1>5 DEF addMinMax, setValidationValues
<1>6. CASE DOMAIN params = {"min", "max"}
  BY <1>2, <1>6 DEF addMinMax, setValidationValues
<1> QED
  BY <1>1, <1>3, <1>4, <1>5, <1>6

\* The attributes that limit the length of a text.
LimitsOf(field) == DOMAIN attrs[field] \cap {"length", "minlength", "maxlength"}

\* Among some rules there is one for the least length, and one for the greatest.
LowerLimit(rules, n) ==
    \/ "minlength" \in DOMAIN rules /\ rules["minlength"] = n
    \/ "rangelength" \in DOMAIN rules /\ \E m \in Nat : rules["rangelength"] = <<n, m>>
UpperLimit(rules, n) ==
    \/ "maxlength" \in DOMAIN rules /\ rules["maxlength"] = n
    \/ "rangelength" \in DOMAIN rules /\ \E m \in Nat : rules["rangelength"] = <<m, n>>

\* Some rules have the limits of one of the attributes of a field.
HasLimits(rules, params) ==
    /\ "min" \in DOMAIN params => LowerLimit(rules, params["min"])
    /\ "max" \in DOMAIN params => UpperLimit(rules, params["max"])

LEMMA LimitsShape ==
    ASSUME attrs \in Pages, NEW f \in Fields, NEW a \in LimitsOf(f)
    PROVE  /\ DOMAIN attrs[f][a] \subseteq {"min", "max"}
           /\ \A b \in DOMAIN attrs[f][a] : attrs[f][a][b] \in Nat
           /\ a = "minlength" => "max" \notin DOMAIN attrs[f][a]
           /\ a = "maxlength" => "min" \notin DOMAIN attrs[f][a]
           /\ a = "length" =>
                /\ DOMAIN attrs[f][a] = {"min"} => "minlength" \notin LimitsOf(f)
                /\ DOMAIN attrs[f][a] = {"max"} => "maxlength" \notin LimitsOf(f)
<1>1. PICK D \in SUBSET {"min", "max"} : attrs[f][a] \in [D -> Nat]
  BY PagesAssumption DEF LimitsOf
<1>2. DOMAIN attrs[f][a] = D
  BY <1>1
<1> QED
  BY <1>1, <1>2, PagesAssumption DEF LimitsOf

\* A rule that was not there takes no limit away.
LEMMA LimitsStay ==
    ASSUME NEW rules, NEW params, HasLimits(rules, params), NEW k, k \notin DOMAIN rules, NEW v
    PROVE  HasLimits(With(rules, k, v), params)
BY DEF With, HasLimits, LowerLimit, UpperLimit

\* The rules of a field: those that its attributes ask for, each with its limit.
LEMMA ParsedRules ==
    ASSUME attrs \in Pages, NEW f \in Fields
    PROVE  /\ DOMAIN parseElement(f) \subseteq Rules
           /\ "__dummy__" \in DOMAIN parseElement(f)
           /\ "required" \in DOMAIN attrs[f] => "required" \in DOMAIN parseElement(f)
           /\ "remote" \in DOMAIN attrs[f] => "remote" \in DOMAIN parseElement(f)
           /\ "remote" \in DOMAIN parseElement(f) => parseElement(f)["remote"] = Additional[f]
           /\ \A a \in LimitsOf(f) : HasLimits(parseElement(f), attrs[f][a])
<1> DEFINE A == attrs[f]
           apply(rules, a) == IF a \in DOMAIN A THEN adapt(rules, a, f, A[a]) ELSE rules
           L1 == apply(<<>>, "length")
           L2 == apply(L1, "minlength")
           L3 == apply(L2, "maxlength")
           L4 == apply(L3, "required")
           L5 == apply(L4, "remote")
<1>1. /\ DOMAIN L1 \subseteq {"minlength", "maxlength", "rangelength"}
      /\ "length" \in DOMAIN A => HasLimits(L1, A["length"])
      /\ "minlength" \in DOMAIN L1 => "length" \in DOMAIN A /\ DOMAIN A["length"] = {"min"}
      /\ "maxlength" \in DOMAIN L1 => "length" \in DOMAIN A /\ DOMAIN A["length"] = {"max"}
  <2>1. CASE "length" \notin DOMAIN A
    <3>1. L1 = <<>>
      BY <2>1
    <3> QED
      BY <2>1, <3>1
  <2>2. CASE "length" \in DOMAIN A
    <3> DEFINE q == A["length"]
    <3>1. L1 = addMinMax(<<>>, q, "minlength", "maxlength", "rangelength")
      BY <2>2 DEF adapt
    <3>2. DOMAIN q \subseteq {"min", "max"} /\ \A b \in DOMAIN q : q[b] \in Nat
      BY <2>2, LimitsShape DEF LimitsOf
    <3> HIDE DEF q, L1
    <3>3. \/ DOMAIN q = {} /\ L1 = <<>>
          \/ DOMAIN q = {"min"} /\ L1 = With(<<>>, "minlength", q["min"])
          \/ DOMAIN q = {"max"} /\ L1 = With(<<>>, "maxlength", q["max"])
          \/ DOMAIN q = {"min", "max"} /\ L1 = With(<<>>, "rangelength", <<q["min"], q["max"]>>)
      BY <3>1, <3>2, Limited
    <3>4. DOMAIN L1 \subseteq {"minlength", "maxlength", "rangelength"}
      BY <3>3 DEF With
    <3>5. HasLimits(L1, q)
      BY <3>2, <3>3 DEF HasLimits, LowerLimit, UpperLimit, With
    <3>6. /\ "minlength" \in DOMAIN L1 => DOMAIN q = {"min"}
          /\ "maxlength" \in DOMAIN L1 => DOMAIN q = {"max"}
      BY <3>3 DEF With
    <3> QED
      BY <2>2, <3>4, <3>5, <3>6 DEF q
  <2> QED
    BY <2>1, <2>2
<1>2. /\ DOMAIN L2 \subseteq {"minlength", "maxlength", "rangelength"}
      /\ "length" \in DOMAIN A => HasLimits(L2, A["length"])
      /\ "minlength" \in DOMAIN A => HasLimits(L2, A["minlength"])
      /\ "maxlength" \in DOMAIN L2 => "length" \in DOMAIN A /\ DOMAIN A["length"] = {"max"}
  <2>1. CASE "minlength" \notin DOMAIN A
    <3>1. L2 = L1
      BY <2>1
    <3> QED
      BY <1>1, <2>1, <3>1
  <2>2. CASE "minlength" \in DOMAIN A
    <3> DEFINE q == A["minlength"]
    <3>1. L2 = addMinMax(L1, q, "minlength", "undefined", "undefined")
      BY <2>2 DEF adapt
    <3>2. DOMAIN q \subseteq {"min", "max"} /\ "max" \notin DOMAIN q
      BY <2>2, LimitsShape DEF LimitsOf
    <3>3. "minlength" \notin DOMAIN L1
      BY <1>1, <2>2, LimitsShape DEF LimitsOf
    <3> HIDE DEF q, L1, L2
    <3>4. \/ DOMAIN q = {} /\ L2 = L1
          \/ DOMAIN q = {"min"} /\ L2 = With(L1, "minlength", q["min"])
      <4>1. DOMAIN q = {} \/ DOMAIN q = {"min"}
        BY <3>2
      <4>2. {} # {"min"} /\ {"min"} # {"max"} /\ {"min"} # {"min", "max"}
            /\ {} # {"max"} /\ {} # {"min", "max"}
        OBVIOUS
      <4>3. LET result == addMinMax(L1, q, "minlength", "undefined", "undefined")
            IN \/ DOMAIN q = {} /\ result = L1
               \/ DOMAIN q = {"min"} /\ result = With(L1, "minlength", q["min"])
               \/ DOMAIN q = {"max"} /\ result = With(L1, "undefined", q["max"])
               \/ DOMAIN q = {"min", "max"} /\ result = With(L1, "undefined", <<q["min"], q["max"]>>)
        BY <3>2, Limited
      <4> QED
        BY <3>1, <4>1, <4>2, <4>3
    <3>5. /\ DOMAIN L2 \subseteq {"minlength", "maxlength", "rangelength"}
          /\ "maxlength" \in DOMAIN L2 => "length" \in DOMAIN A /\ DOMAIN A["length"] = {"max"}
      BY <1>1, <3>4 DEF With
    <3>6. "length" \in DOMAIN A => HasLimits(L2, A["length"])
      BY <1>1, <3>3, <3>4, LimitsStay
    <3>7. HasLimits(L2, q)
      BY <3>4 DEF HasLimits, LowerLimit, UpperLimit, With
    <3> QED
      BY <3>5, <3>6, <3>7 DEF q
  <2> QED
    BY <2>1, <2>2
<1>3. /\ DOMAIN L3 \subseteq {"minlength", "maxlength", "rangelength"}
      /\ \A a \in LimitsOf(f) : HasLimits(L3, A[a])
  <2>1. CASE "maxlength" \notin DOMAIN A
    <3>1. L3 = L2
      BY <2>1
    <3> HIDE DEF L3, L2
    <3> QED
      BY <1>2, <2>1, <3>1 DEF LimitsOf
  <2>2. CASE "maxlength" \in DOMAIN A
    <3> DEFINE q == A["maxlength"]
    <3>1. L3 = addMinMax(L2, q, "minlength", "maxlength", "undefined")
      BY <2>2 DEF adapt
    <3>2. DOMAIN q \subseteq {"min", "max"} /\ "min" \notin DOMAIN q
      BY <2>2, LimitsShape DEF LimitsOf
    <3> HIDE DEF L2, L3
    <3>3. "maxlength" \notin DOMAIN L2
      BY <1>2, <2>2, LimitsShape DEF LimitsOf
    <3> HIDE DEF q
    <3>4. \/ DOMAIN q = {} /\ L3 = L2
          \/ DOMAIN q = {"max"} /\ L3 = With(L2, "maxlength", q["max"])
      <4>1. DOMAIN q = {} \/ DOMAIN q = {"max"}
        BY <3>2
      <4>2. {} # {"max"} /\ {"max"} # {"min"} /\ {"max"} # {"min", "max"}
            /\ {} # {"min"} /\ {} # {"min", "max"}
        OBVIOUS
      <4>3. LET result == addMinMax(L2, q, "minlength", "maxlength", "undefined")
            IN \/ DOMAIN q = {} /\ result = L2
               \/ DOMAIN q = {"min"} /\ result = With(L2, "minlength", q["min"])
               \/ DOMAIN q = {"max"} /\ result = With(L2, "maxlength", q["max"])
               \/ DOMAIN q = {"min", "max"} /\ result = With(L2, "undefined", <<q["min"], q["max"]>>)
        BY <3>2, Limited
      <4> QED
        BY <3>1, <4>1, <4>2, <4>3
    <3>5. DOMAIN L3 \subseteq {"minlength", "maxlength", "rangelength"}
      BY <1>2, <3>4 DEF With
    <3>6. /\ "length" \in DOMAIN A => HasLimits(L3, A["length"])
          /\ "minlength" \in DOMAIN A => HasLimits(L3, A["minlength"])
      BY <1>2, <3>3, <3>4, LimitsStay
    <3>7. HasLimits(L3, q)
      BY <3>4 DEF HasLimits, LowerLimit, UpperLimit, With
    <3> QED
      BY <3>5, <3>6, <3>7 DEF q, LimitsOf
  <2> QED
    BY <2>1, <2>2
<1>4. /\ L4 = IF "required" \in DOMAIN A THEN With(L3, "required", TRUE) ELSE L3
      /\ L5 = IF "remote" \in DOMAIN A THEN With(L4, "remote", Additional[f]) ELSE L4
      /\ parseElement(f) = With(L5, "__dummy__", TRUE)
  BY DEF adapt, setValidationValues, parseElement, Adapted
<1> HIDE DEF A, L3, L4, L5
<1>5. /\ DOMAIN L4 \subseteq {"minlength", "maxlength", "rangelength", "required"}
      /\ "required" \in DOMAIN A => "required" \in DOMAIN L4
  BY <1>3, <1>4 DEF With
<1>6. \A a \in LimitsOf(f) : HasLimits(L4, A[a])
  <2>1. "required" \notin DOMAIN L3
    BY <1>3
  <2> QED
    BY <1>3, <1>4, <2>1, LimitsStay
<1>7. /\ DOMAIN L5 \subseteq {"minlength", "maxlength", "rangelength", "required", "remote"}
      /\ "required" \in DOMAIN A => "required" \in DOMAIN L5
      /\ "remote" \in DOMAIN A => "remote" \in DOMAIN L5
      /\ "remote" \in DOMAIN L5 => L5["remote"] = Additional[f]
  BY <1>4, <1>5 DEF With
<1>8. \A a \in LimitsOf(f) : HasLimits(L5, A[a])
  <2>1. "remote" \notin DOMAIN L4
    BY <1>5
  <2> QED
    BY <1>4, <1>6, <2>1, LimitsStay
<1>9. \A a \in LimitsOf(f) : HasLimits(parseElement(f), A[a])
  <2>1. "__dummy__" \notin DOMAIN L5
    BY <1>7
  <2> QED
    BY <1>4, <1>8, <2>1, LimitsStay
<1>10. /\ DOMAIN parseElement(f) = DOMAIN L5 \cup {"__dummy__"}
       /\ \A r \in DOMAIN L5 : r # "__dummy__" => parseElement(f)[r] = L5[r]
  BY <1>4 DEF With
<1> QED
  BY <1>7, <1>9, <1>10, RulesAre DEF A

\* The validator's rules are the ones that the attributes ask for.
Attached ==
    /\ attrs \in Pages
    /\ DOMAIN settings \subseteq Fields
    /\ \A f \in DOMAIN settings : settings[f] = parseElement(f)

LEMMA SettingsAre ==
    ASSUME Attached, NEW f \in DOMAIN settings
    PROVE  /\ DOMAIN settings[f] \subseteq Rules
           /\ "__dummy__" \in DOMAIN settings[f]
           /\ "remote" \in DOMAIN settings[f] => settings[f]["remote"] = Additional[f]
BY ParsedRules DEF Attached

\* The verdict on a field is a broken rule, or that it passed, or that the server
\* has to be asked.  If it passed, it satisfies every rule, and an answer that the
\* rules ask for is remembered for the very data of the form.
LEMMA CheckResult ==
    ASSUME Attached, NEW p, NEW f \in DOMAIN settings, p.value[f] \in Nat
    PROVE  /\ check(p, f) \in Rules \cup {"passed", "pending"}
           /\ check(p, f) = "passed" =>
                /\ \A r \in DOMAIN settings[f] : Satisfies(r, settings[f][r], p.value[f])
                /\ p.value[f] > 0 /\ "remote" \in DOMAIN settings[f] =>
                      p.previous[f].old = {DataOf(p, f)} /\ p.previous[f].valid
           /\ check(p, f) = "pending" => "remote" \in DOMAIN settings[f]
<1> DEFINE R == settings[f]
           broken == {r \in DOMAIN R : ~Satisfies(r, R[r], p.value[f])}
<1>1. DOMAIN R \subseteq Rules /\ "__dummy__" \in DOMAIN R
  BY SettingsAre
<1>2. CASE broken # {}
  <2>1. check(p, f) = FirstRule(f, broken)
    BY <1>2 DEF check
  <2>2. FirstRule(f, broken) \in Rules
    BY <1>1, <1>2, FirstRuleIn
  <2> QED
    BY <2>1, <2>2, RulesAre
<1>3. CASE broken = {} /\ p.value[f] = 0
  BY <1>1, <1>3 DEF check
<1>4. CASE broken = {} /\ p.value[f] > 0
  <2>1. CASE "remote" \notin DOMAIN R
    BY <1>4, <2>1 DEF check
  <2>2. CASE "remote" \in DOMAIN R /\ p.previous[f].old # {DataOf(p, f)}
    BY <1>4, <2>2 DEF check
  <2>3. CASE "remote" \in DOMAIN R /\ p.previous[f].old = {DataOf(p, f)}
    BY <1>4, <2>3, RulesAre DEF check
  <2> QED
    BY <2>1, <2>2, <2>3
<1> QED
  BY <1>2, <1>3, <1>4

\* A field without rules is skipped; a verdict looks at the texts and at what is
\* remembered of the field.
LEMMA CheckReads ==
    ASSUME NEW p, NEW q, NEW f, q.value = p.value, q.previous[f] = p.previous[f]
    PROVE  /\ f \notin DOMAIN settings => check(p, f) = "skipped"
           /\ check(q, f) = check(p, f)
<1>1. DataOf(q, f) = DataOf(p, f)
  BY DEF DataOf
<1> QED
  BY <1>1 DEF check

LEMMA VerdictsDiffer == "passed" \notin Rules /\ "pending" \notin Rules /\ "skipped" \notin Rules
                        /\ "none" \notin Rules /\ "empty" \notin Rules
BY RulesAre

(***************************************************************************)
(* The form as a record.                                                   *)
(***************************************************************************)
ErrorMaps == UNION {[S -> Rules] : S \in SUBSET Fields}
Previous == [Fields -> [old : SUBSET Datas, valid : BOOLEAN]]
Requests == [Fields -> SUBSET [data : Datas, detached : BOOLEAN]]

\* A record is a form if each of its fields has its type.
LEMMA FormIs ==
    ASSUME NEW p \in Forms, NEW q, DOMAIN q = DOMAIN p, q = [x \in DOMAIN q |-> q[x]],
           q.present \in SUBSET Fields, q.value \in [Fields -> Texts],
           q.container \in [Fields -> {"valid", "error"}],
           q.text \in [Fields -> Rules \cup {"empty"}],
           q.summary \in [class : {"valid", "errors"}, list : SUBSET Fields],
           q.errorMap \in ErrorMaps, q.successList \in SUBSET Fields,
           q.submitted \in SUBSET Fields, q.invalid \in SUBSET Fields,
           q.previous \in Previous, q.request \in Requests, q.pending \in SUBSET Fields,
           q.formSubmitted \in BOOLEAN, q.sent \in BOOLEAN,
           q.verdict \in [Fields -> Rules \cup {"none", "passed"}]
    PROVE  q \in Forms
BY DEF Forms, ErrorMaps, Previous, Requests

LEMMA FormTypes ==
    ASSUME NEW p \in Forms
    PROVE  /\ p.present \in SUBSET Fields /\ p.value \in [Fields -> Texts]
           /\ p.container \in [Fields -> {"valid", "error"}]
           /\ p.text \in [Fields -> Rules \cup {"empty"}]
           /\ p.summary \in [class : {"valid", "errors"}, list : SUBSET Fields]
           /\ p.errorMap \in ErrorMaps /\ p.successList \in SUBSET Fields
           /\ p.submitted \in SUBSET Fields /\ p.invalid \in SUBSET Fields
           /\ p.previous \in Previous /\ p.request \in Requests /\ p.pending \in SUBSET Fields
           /\ p.formSubmitted \in BOOLEAN /\ p.sent \in BOOLEAN
           /\ p.verdict \in [Fields -> Rules \cup {"none", "passed"}]
BY DEF Forms, ErrorMaps, Previous, Requests

LEMMA CheckedFields ==
    ASSUME NEW p \in Forms, NEW fields \in SUBSET Fields
    PROVE  LET q == CheckAll(p, fields)
               failed == {f \in fields : check(p, f) \in Rules}
               waiting == {f \in fields : check(p, f) = "pending"}
           IN /\ DOMAIN q = DOMAIN p
              /\ q.present = p.present /\ q.value = p.value
              /\ q.container = p.container /\ q.text = p.text /\ q.summary = p.summary
              /\ q.errorMap = [f \in failed |-> check(p, f)]
              /\ q.successList = {f \in fields : check(p, f) = "passed"}
              /\ q.submitted = p.submitted \cup failed /\ q.invalid = p.invalid
              /\ q.previous = [f \in Fields |->
                    IF f \in waiting THEN [p.previous[f] EXCEPT !.old = {DataOf(p, f)}]
                                     ELSE p.previous[f]]
              /\ q.request = [f \in Fields |->
                    IF f \in waiting THEN {[data |-> DataOf(p, f), detached |-> FALSE]}
                                     ELSE p.request[f]]
              /\ q.pending = p.pending \cup waiting
              /\ q.formSubmitted = p.formSubmitted /\ q.sent = p.sent
              /\ q.verdict = [f \in Fields |->
                    CASE f \in failed -> check(p, f)
                      [] f \in (fields \cap DOMAIN settings) \ (failed \cup waiting) -> "passed"
                      [] OTHER -> p.verdict[f]]
BY DEF CheckAll, Forms

LEMMA CheckedIsRecord ==
    ASSUME NEW p, NEW fields
    PROVE  CheckAll(p, fields) = [x \in DOMAIN CheckAll(p, fields) |-> CheckAll(p, fields)[x]]
BY DEF CheckAll

\* A form at rest, but for what its containers show.
Sound(p) ==
    /\ p \in Forms /\ DOMAIN settings \cup DOMAIN options \subseteq p.present
    /\ \A f \in Fields : p.value[f] \in Lengths(f)
    /\ \A f \in Fields : p.request[f] # {} => f \in p.pending
    /\ Listed(p) /\ Rechecked(p) /\ Remembered(p)

\* The containers still to be marked are those of the fields in the lists.
MarkedButListed(p) ==
    \A f \in Fields \ (DOMAIN p.errorMap \cup p.successList) :
        /\ p.container[f] = "error" <=> p.verdict[f] \in Rules
        /\ p.container[f] = "error" /\ f \in Replace => p.text[f] = p.verdict[f]

\* What is shown is no part of what Sound says.
LEMMA SoundKept ==
    ASSUME NEW p, Sound(p), NEW q \in Forms,
           q.present = p.present, q.value = p.value, q.request = p.request,
           q.pending = p.pending, q.errorMap = p.errorMap, q.successList = p.successList,
           q.verdict = p.verdict, q.submitted = p.submitted, q.invalid = p.invalid,
           q.previous = p.previous
    PROVE  Sound(q)
<1>1. Listed(q) /\ Rechecked(q)
  BY DEF Sound, Listed, Rechecked
<1>2. Remembered(q)
  BY DEF Sound, Remembered
<1> QED
  BY <1>1, <1>2 DEF Sound

LEMMA ValuesAreNat ==
    ASSUME NEW p, Sound(p)
    PROVE  \A f \in Fields : p.value[f] \in Nat
BY FieldsAssumption DEF Sound, Lengths

\* The data that the server is asked about.
LEMMA DataTypes ==
    ASSUME Attached, NEW p, Sound(p), NEW f \in DOMAIN settings, check(p, f) = "pending"
    PROVE  DataOf(p, f) \in Datas
<1> DEFINE asked == Additional[f] \cup {f}
<1>0. f \in Fields /\ p.value[f] \in Nat
  BY ValuesAreNat DEF Attached
<1>1. settings[f]["remote"] = Additional[f] /\ asked \in SUBSET Fields
  <2>1. "remote" \in DOMAIN settings[f]
    BY <1>0, CheckResult
  <2> QED
    BY <1>0, <2>1, SettingsAre, FieldsAssumption
<1>2. \A g \in Fields : p.value[g] \in Texts
  BY DEF Sound, Texts
<1>3. DataOf(p, f) = [g \in asked |-> p.value[g]]
  BY <1>1 DEF DataOf
<1> HIDE DEF asked
<1>4. DataOf(p, f) \in [asked -> Texts]
  BY <1>1, <1>2, <1>3
<1> QED
  BY <1>1, <1>4 DEF Datas

\* Checking some fields gives every one of them a new verdict that is in the lists,
\* or a request to the server that is the only one remembered.
LEMMA CheckAllSound ==
    ASSUME Attached, NEW p, Sound(p), Marked(p), NEW fields \in SUBSET Fields
    PROVE  Sound(CheckAll(p, fields)) /\ MarkedButListed(CheckAll(p, fields))
<1> DEFINE q == CheckAll(p, fields)
           failed == {f \in fields : check(p, f) \in Rules}
           waiting == {f \in fields : check(p, f) = "pending"}
<1>0. p \in Forms
  BY DEF Sound
<1>1. \A f \in fields : f \notin DOMAIN settings => check(p, f) = "skipped"
  BY CheckReads
<1>2. \A f \in fields \cap DOMAIN settings : check(p, f) \in Rules \cup {"passed", "pending"}
  BY CheckResult, ValuesAreNat
<1>3. failed \subseteq DOMAIN settings /\ waiting \subseteq DOMAIN settings
  BY <1>1, VerdictsDiffer
<1>4. /\ DOMAIN q = DOMAIN p
      /\ q.present = p.present /\ q.value = p.value
      /\ q.container = p.container /\ q.text = p.text /\ q.summary = p.summary
      /\ q.errorMap = [f \in failed |-> check(p, f)]
      /\ q.successList = {f \in fields : check(p, f) = "passed"}
      /\ q.submitted = p.submitted \cup failed /\ q.invalid = p.invalid
      /\ q.previous = [f \in Fields |->
            IF f \in waiting THEN [p.previous[f] EXCEPT !.old = {DataOf(p, f)}] ELSE p.previous[f]]
      /\ q.request = [f \in Fields |->
            IF f \in waiting THEN {[data |-> DataOf(p, f), detached |-> FALSE]} ELSE p.request[f]]
      /\ q.pending = p.pending \cup waiting
      /\ q.formSubmitted = p.formSubmitted /\ q.sent = p.sent
      /\ q.verdict = [f \in Fields |->
            CASE f \in failed -> check(p, f)
              [] f \in (fields \cap DOMAIN settings) \ (failed \cup waiting) -> "passed"
              [] OTHER -> p.verdict[f]]
  BY <1>0, CheckedFields
<1>r. q = [x \in DOMAIN q |-> q[x]]
  BY CheckedIsRecord
<1>t. /\ failed \subseteq fields /\ \A f \in failed : check(p, f) \in Rules
      /\ waiting \subseteq fields /\ \A f \in waiting : DataOf(p, f) \in Datas
  BY <1>3, DataTypes
<1>p. p.previous \in Previous /\ p.request \in Requests
      /\ p.verdict \in [Fields -> Rules \cup {"none", "passed"}]
  BY <1>0, FormTypes
<1> HIDE DEF q
<1>5. q \in Forms
  <2> HIDE DEF failed, waiting
  <2>1. q.errorMap \in ErrorMaps
    <3>1. q.errorMap \in [failed -> Rules]
      BY <1>4, <1>t
    <3> QED
      BY <3>1, <1>t DEF ErrorMaps
  <2>2. q.previous \in Previous
    BY <1>4, <1>t, <1>p DEF Previous
  <2>3. q.request \in Requests
    BY <1>4, <1>t, <1>p DEF Requests
  <2>4. q.verdict \in [Fields -> Rules \cup {"none", "passed"}]
    BY <1>4, <1>t, <1>p
  <2>5. q.successList \in SUBSET Fields
    BY <1>4
  <2>6. q.submitted \in SUBSET Fields /\ q.pending \in SUBSET Fields
    BY <1>0, <1>4, <1>t, FormTypes
  <2>7. /\ q.present \in SUBSET Fields /\ q.value \in [Fields -> Texts]
        /\ q.container \in [Fields -> {"valid", "error"}]
        /\ q.text \in [Fields -> Rules \cup {"empty"}]
        /\ q.summary \in [class : {"valid", "errors"}, list : SUBSET Fields]
        /\ q.invalid \in SUBSET Fields /\ q.formSubmitted \in BOOLEAN /\ q.sent \in BOOLEAN
    BY <1>0, <1>4, FormTypes
  <2> QED
    BY <1>0, <1>4, <1>r, <2>1, <2>2, <2>3, <2>4, <2>5, <2>6, <2>7, FormIs
<1>6. \A f \in waiting :
        /\ q.previous[f].old = {DataOf(p, f)}
        /\ q.request[f] = {[data |-> DataOf(p, f), detached |-> FALSE]}
  <2> HIDE DEF waiting
  <2>1. \A f \in Fields : p.previous[f] \in [old : SUBSET Datas, valid : BOOLEAN]
    BY <1>p DEF Previous
  <2> QED
    BY <1>4, <1>t, <2>1
<1>7. \A f \in Fields \ waiting :
        q.previous[f] = p.previous[f] /\ q.request[f] = p.request[f]
  <2> HIDE DEF waiting
  <2> QED
    BY <1>4
<1>8. \A f \in Fields :
        /\ f \in failed => q.verdict[f] = check(p, f)
        /\ f \in q.successList => q.verdict[f] = "passed"
        /\ f \notin failed \cup q.successList => q.verdict[f] = p.verdict[f]
  <2> SUFFICES ASSUME NEW f \in Fields
               PROVE  /\ f \in failed => q.verdict[f] = check(p, f)
                      /\ f \in q.successList => q.verdict[f] = "passed"
                      /\ f \notin failed \cup q.successList => q.verdict[f] = p.verdict[f]
    OBVIOUS
  <2>2. CASE f \in failed
    <3>1. f \notin q.successList
      BY <1>4, <2>2, VerdictsDiffer
    <3> QED
      BY <1>4, <2>2, <3>1
  <2>3. CASE f \notin failed /\ f \in q.successList
    <3>1. f \in (fields \cap DOMAIN settings) \ (failed \cup waiting)
      BY <1>1, <1>4, <2>3
    <3> QED
      BY <1>4, <2>3, <3>1
  <2>4. CASE f \notin failed /\ f \notin q.successList
    <3>1. f \notin (fields \cap DOMAIN settings) \ (failed \cup waiting)
      BY <1>2, <1>4, <2>4
    <3> QED
      BY <1>4, <2>4, <3>1
  <2> QED
    BY <2>2, <2>3, <2>4
<1>9. DOMAIN q.errorMap = failed /\ \A f \in failed : q.errorMap[f] = check(p, f)
  BY <1>4
<1> HIDE DEF failed, waiting
<1>10. Listed(q)
  BY <1>8, <1>9 DEF Listed
<1>11. MarkedButListed(q)
  BY <1>4, <1>8, <1>9 DEF MarkedButListed, Marked
<1>12. Rechecked(q)
  BY <1>3, <1>4, <1>8, VerdictsDiffer DEF Sound, Rechecked
<1>13. Remembered(q)
  <2> SUFFICES ASSUME NEW f \in Fields
               PROVE  /\ f \notin DOMAIN settings =>
                            q.previous[f] = [old |-> {}, valid |-> TRUE] /\ q.request[f] = {}
                      /\ \A r \in q.request[f] :
                            /\ q.request[f] = {r}
                            /\ q.previous[f].old = IF r.detached THEN {} ELSE {r.data}
                      /\ f \notin q.pending /\ q.previous[f].valid =>
                            q.previous[f].old \cap Rejected = {}
    BY DEF Remembered
  <2>0. q.pending = p.pending \cup waiting
    BY <1>4
  <2>1. CASE f \in waiting
    <3>1. q.request[f] = {[data |-> DataOf(p, f), detached |-> FALSE]}
          /\ q.previous[f].old = {DataOf(p, f)}
      BY <1>6, <2>1
    <3> QED
      BY <1>3, <2>0, <2>1, <3>1
  <2>2. CASE f \notin waiting
    <3>1. q.previous[f] = p.previous[f] /\ q.request[f] = p.request[f]
      BY <1>7, <2>2
    <3> QED
      BY <2>0, <3>1 DEF Sound, Remembered
  <2> QED
    BY <2>1, <2>2
<1>14. \A f \in Fields : q.request[f] # {} => f \in q.pending
  BY <1>4, <1>7 DEF Sound
<1>15. DOMAIN settings \cup DOMAIN options \subseteq q.present /\ \A f \in Fields : q.value[f] \in Lengths(f)
  BY <1>4 DEF Sound
<1>16. Sound(q)
  BY <1>5, <1>10, <1>12, <1>13, <1>14, <1>15 DEF Sound
<1> QED
  BY <1>11, <1>16 DEF q

\* Showing the outcome changes the containers and their texts, nothing else.
LEMMA ShownFields ==
    ASSUME NEW p \in Forms
    PROVE  LET q == showErrors(p)
           IN /\ DOMAIN q = DOMAIN p
              /\ q.present = p.present /\ q.value = p.value /\ q.summary = p.summary
              /\ q.errorMap = p.errorMap /\ q.successList = p.successList
              /\ q.submitted = p.submitted /\ q.invalid = p.invalid
              /\ q.previous = p.previous /\ q.request = p.request /\ q.pending = p.pending
              /\ q.formSubmitted = p.formSubmitted /\ q.sent = p.sent /\ q.verdict = p.verdict
              /\ q.container = [f \in Fields |->
                    IF f \in p.successList THEN "valid"
                    ELSE IF f \in DOMAIN p.errorMap THEN "error" ELSE p.container[f]]
              /\ q.text = [f \in Fields |->
                    IF f \in p.successList \cap Replace THEN "empty"
                    ELSE IF f \in DOMAIN p.errorMap \cap Replace THEN p.errorMap[f] ELSE p.text[f]]
<1> DEFINE p1 == onError(p, p.errorMap)
           labels == [f \in p.successList |-> "empty"]
           p2 == onError(p1, labels)
           q == onSuccess(p2, p.successList)
<1>1. /\ DOMAIN p1 = DOMAIN p
      /\ p1.present = p.present /\ p1.value = p.value /\ p1.summary = p.summary
      /\ p1.errorMap = p.errorMap /\ p1.successList = p.successList
      /\ p1.submitted = p.submitted /\ p1.invalid = p.invalid
      /\ p1.previous = p.previous /\ p1.request = p.request /\ p1.pending = p.pending
      /\ p1.formSubmitted = p.formSubmitted /\ p1.sent = p.sent /\ p1.verdict = p.verdict
      /\ p1.container = [f \in Fields |->
            IF f \in DOMAIN p.errorMap THEN "error" ELSE p.container[f]]
      /\ p1.text = [f \in Fields |->
            IF f \in DOMAIN p.errorMap \cap Replace THEN p.errorMap[f] ELSE p.text[f]]
  BY DEF onError, Forms
<1>2. DOMAIN labels = p.successList
  OBVIOUS
<1> HIDE DEF p1, labels
<1>3. /\ DOMAIN p2 = DOMAIN p1
      /\ p2.present = p1.present /\ p2.value = p1.value /\ p2.summary = p1.summary
      /\ p2.errorMap = p1.errorMap /\ p2.successList = p1.successList
      /\ p2.submitted = p1.submitted /\ p2.invalid = p1.invalid
      /\ p2.previous = p1.previous /\ p2.request = p1.request /\ p2.pending = p1.pending
      /\ p2.formSubmitted = p1.formSubmitted /\ p2.sent = p1.sent /\ p2.verdict = p1.verdict
      /\ p2.container = [f \in Fields |->
            IF f \in p.successList THEN "error" ELSE p1.container[f]]
      /\ p2.text = [f \in Fields |->
            IF f \in p.successList \cap Replace THEN labels[f] ELSE p1.text[f]]
  BY <1>1, <1>2 DEF onError, Forms
<1> HIDE DEF p2
<1>4. /\ DOMAIN q = DOMAIN p2
      /\ q.present = p2.present /\ q.value = p2.value /\ q.summary = p2.summary
      /\ q.errorMap = p2.errorMap /\ q.successList = p2.successList
      /\ q.submitted = p2.submitted /\ q.invalid = p2.invalid
      /\ q.previous = p2.previous /\ q.request = p2.request /\ q.pending = p2.pending
      /\ q.formSubmitted = p2.formSubmitted /\ q.sent = p2.sent /\ q.verdict = p2.verdict
      /\ q.container = [f \in Fields |->
            IF f \in p.successList THEN "valid" ELSE p2.container[f]]
      /\ q.text = [f \in Fields |->
            IF f \in p.successList \cap Replace THEN "empty" ELSE p2.text[f]]
  BY <1>1, <1>3 DEF onSuccess, Forms
<1> HIDE DEF q
<1>5. q.container = [f \in Fields |->
            IF f \in p.successList THEN "valid"
            ELSE IF f \in DOMAIN p.errorMap THEN "error" ELSE p.container[f]]
  BY <1>1, <1>3, <1>4
<1>6. q.text = [f \in Fields |->
            IF f \in p.successList \cap Replace THEN "empty"
            ELSE IF f \in DOMAIN p.errorMap \cap Replace THEN p.errorMap[f] ELSE p.text[f]]
  BY <1>1, <1>3, <1>4
<1>7. showErrors(p) = q
  BY DEF showErrors, p1, p2, labels, q
<1> QED
  BY <1>1, <1>3, <1>4, <1>5, <1>6, <1>7

LEMMA ShownIsRecord ==
    ASSUME NEW p
    PROVE  showErrors(p) = [x \in DOMAIN showErrors(p) |-> showErrors(p)[x]]
BY DEF showErrors, onSuccess

LEMMA ErrorMapTypes ==
    ASSUME NEW p \in Forms
    PROVE  DOMAIN p.errorMap \subseteq Fields /\ \A f \in DOMAIN p.errorMap : p.errorMap[f] \in Rules
<1>1. PICK S \in SUBSET Fields : p.errorMap \in [S -> Rules]
  BY FormTypes DEF ErrorMaps
<1> QED
  BY <1>1

\* Once the lists are shown, every container agrees with the verdict on its field.
LEMMA ShowSettles ==
    ASSUME NEW p, Sound(p), MarkedButListed(p)
    PROVE  Sound(showErrors(p)) /\ Marked(showErrors(p))
<1> DEFINE q == showErrors(p)
<1>0. p \in Forms
  BY DEF Sound
<1>1. /\ DOMAIN q = DOMAIN p
      /\ q.present = p.present /\ q.value = p.value /\ q.summary = p.summary
      /\ q.errorMap = p.errorMap /\ q.successList = p.successList
      /\ q.submitted = p.submitted /\ q.invalid = p.invalid
      /\ q.previous = p.previous /\ q.request = p.request /\ q.pending = p.pending
      /\ q.formSubmitted = p.formSubmitted /\ q.sent = p.sent /\ q.verdict = p.verdict
  BY <1>0, ShownFields
<1>2. /\ q.container = [f \in Fields |->
            IF f \in p.successList THEN "valid"
            ELSE IF f \in DOMAIN p.errorMap THEN "error" ELSE p.container[f]]
      /\ q.text = [f \in Fields |->
            IF f \in p.successList \cap Replace THEN "empty"
            ELSE IF f \in DOMAIN p.errorMap \cap Replace THEN p.errorMap[f] ELSE p.text[f]]
  BY <1>0, ShownFields
<1>3. q = [x \in DOMAIN q |-> q[x]]
  BY ShownIsRecord
<1> HIDE DEF q
<1>4. \A f \in DOMAIN p.errorMap : p.errorMap[f] \in Rules
  BY <1>0, ErrorMapTypes
<1>5. q \in Forms
  <2>1. /\ p.container \in [Fields -> {"valid", "error"}]
        /\ p.text \in [Fields -> Rules \cup {"empty"}]
    BY <1>0, FormTypes
  <2>2. q.container \in [Fields -> {"valid", "error"}]
    BY <1>2, <2>1
  <2>3. q.text \in [Fields -> Rules \cup {"empty"}]
    BY <1>2, <1>4, <2>1
  <2>4. /\ q.present \in SUBSET Fields /\ q.value \in [Fields -> Texts]
        /\ q.summary \in [class : {"valid", "errors"}, list : SUBSET Fields]
        /\ q.errorMap \in ErrorMaps /\ q.successList \in SUBSET Fields
        /\ q.submitted \in SUBSET Fields /\ q.invalid \in SUBSET Fields
        /\ q.previous \in Previous /\ q.request \in Requests /\ q.pending \in SUBSET Fields
        /\ q.formSubmitted \in BOOLEAN /\ q.sent \in BOOLEAN
        /\ q.verdict \in [Fields -> Rules \cup {"none", "passed"}]
    BY <1>0, <1>1, FormTypes
  <2> QED
    BY <1>0, <1>1, <1>3, <2>2, <2>3, <2>4, FormIs
<1>6. Sound(q)
  BY <1>1, <1>5, SoundKept
<1>7. Marked(q)
  <2> SUFFICES ASSUME NEW f \in Fields
               PROVE  /\ q.container[f] = "error" <=> p.verdict[f] \in Rules
                      /\ q.container[f] = "error" /\ f \in Replace => q.text[f] = p.verdict[f]
    BY <1>1 DEF Marked
  <2>0. Listed(p)
    BY DEF Sound
  <2>1. CASE f \in p.successList
    BY <1>2, <2>0, <2>1, VerdictsDiffer DEF Listed
  <2>2. CASE f \notin p.successList /\ f \in DOMAIN p.errorMap
    BY <1>2, <1>4, <2>0, <2>2 DEF Listed
  <2>3. CASE f \notin p.successList /\ f \notin DOMAIN p.errorMap
    BY <1>2, <2>3 DEF MarkedButListed
  <2> QED
    BY <2>1, <2>2, <2>3
<1> QED
  BY <1>6, <1>7 DEF q

\* The summary is no part of what is at stake.
LEMMA SummarySettles ==
    ASSUME NEW p, Sound(p)
    PROVE  /\ Sound(onErrors(p))
           /\ MarkedButListed(p) => MarkedButListed(onErrors(p))
           /\ Marked(p) => Marked(onErrors(p))
           /\ onErrors(p).sent = p.sent /\ onErrors(p).formSubmitted = p.formSubmitted
           /\ onErrors(p).pending = p.pending /\ onErrors(p).value = p.value
           /\ onErrors(p).previous = p.previous /\ onErrors(p).errorMap = p.errorMap
           /\ onErrors(p).successList = p.successList
           /\ ~valid(p) => onErrors(p).summary = [class |-> "errors", list |-> DOMAIN p.errorMap]
<1> DEFINE q == onErrors(p)
           e == [p EXCEPT !.summary = [class |-> "errors", list |-> DOMAIN p.errorMap]]
<1>1. CASE valid(p)
  BY <1>1 DEF onErrors
<1>2. CASE ~valid(p)
  <2>0. p \in Forms /\ DOMAIN p.errorMap \subseteq Fields
    BY ErrorMapTypes DEF Sound
  <2>1. q = e
    BY <1>2 DEF onErrors
  <2>2. /\ e.present = p.present /\ e.value = p.value /\ e.container = p.container
        /\ e.text = p.text /\ e.errorMap = p.errorMap /\ e.successList = p.successList
        /\ e.submitted = p.submitted /\ e.invalid = p.invalid
        /\ e.previous = p.previous /\ e.request = p.request /\ e.pending = p.pending
        /\ e.formSubmitted = p.formSubmitted /\ e.sent = p.sent /\ e.verdict = p.verdict
        /\ e.summary = [class |-> "errors", list |-> DOMAIN p.errorMap]
        /\ e \in Forms
    BY <2>0 DEF Forms
  <2> HIDE DEF e, q
  <2>3. Sound(e)
    BY <2>2, SoundKept
  <2>4. /\ MarkedButListed(p) => MarkedButListed(e)
        /\ Marked(p) => Marked(e)
    BY <2>2 DEF MarkedButListed, Marked
  <2> QED
    BY <2>1, <2>2, <2>3, <2>4 DEF q
<1> QED
  BY <1>1, <1>2

(***************************************************************************)
(* What each handler does to a form at rest.                               *)
(***************************************************************************)
Settled(p) == Sound(p) /\ Marked(p)

\* The whole form is checked: every field that has rules.
LEMMA ElementsAre ==
    ASSUME Attached, NEW p, Sound(p)
    PROVE  elements(p) = DOMAIN settings
<1>1. \A f \in DOMAIN settings : settings[f] # <<>>
  BY SettingsAre
<1> QED
  BY <1>1 DEF elements, Sound

\* Validating the form leaves it at rest.  If it is valid and nothing is awaited,
\* all its fields have passed; if it is not, the summary lists what failed.
LEMMA FormValidated ==
    ASSUME Attached, NEW p, Settled(p)
    PROVE  LET q == validateForm(p)
           IN /\ Settled(q)
              /\ q.sent = p.sent /\ q.formSubmitted = p.formSubmitted
              /\ valid(q) /\ q.pending = {} => \A f \in DOMAIN settings : check(q, f) = "passed"
              /\ ~valid(q) => /\ q.summary = [class |-> "errors", list |-> DOMAIN q.errorMap]
                              /\ \A f \in DOMAIN q.errorMap : q.container[f] = "error"
<1> DEFINE fields == elements(p)
           p1 == CheckAll(p, fields)
           p2 == [p1 EXCEPT !.invalid = DOMAIN p1.errorMap]
           p3 == onErrors(p2)
           q == showErrors(p3)
<1>0. Sound(p) /\ Marked(p) /\ p \in Forms /\ fields = DOMAIN settings /\ fields \subseteq Fields
  BY ElementsAre DEF Settled, Sound, Attached
<1>1. Sound(p1) /\ MarkedButListed(p1) /\ p1 \in Forms
  BY <1>0, CheckAllSound DEF Sound
<1>2. /\ p1.value = p.value
      /\ p1.errorMap = [f \in {g \in fields : check(p, g) \in Rules} |-> check(p, f)]
      /\ p1.successList = {f \in fields : check(p, f) = "passed"}
      /\ p1.submitted = p.submitted \cup {g \in fields : check(p, g) \in Rules}
      /\ p1.previous = [f \in Fields |->
            IF f \in {g \in fields : check(p, g) = "pending"}
            THEN [p.previous[f] EXCEPT !.old = {DataOf(p, f)}] ELSE p.previous[f]]
      /\ p1.pending = p.pending \cup {g \in fields : check(p, g) = "pending"}
      /\ p1.formSubmitted = p.formSubmitted /\ p1.sent = p.sent
  BY <1>0, CheckedFields
<1> HIDE DEF p1
<1>3. DOMAIN p1.errorMap \subseteq Fields
  BY <1>1, ErrorMapTypes
<1>4. /\ p2.present = p1.present /\ p2.value = p1.value /\ p2.container = p1.container
      /\ p2.text = p1.text /\ p2.errorMap = p1.errorMap /\ p2.successList = p1.successList
      /\ p2.submitted = p1.submitted /\ p2.invalid = DOMAIN p1.errorMap
      /\ p2.previous = p1.previous /\ p2.request = p1.request /\ p2.pending = p1.pending
      /\ p2.formSubmitted = p1.formSubmitted /\ p2.sent = p1.sent /\ p2.verdict = p1.verdict
      /\ p2 \in Forms
  BY <1>1, <1>3 DEF Forms
<1> HIDE DEF p2
<1>5. \A f \in DOMAIN settings : check(p, f) \in Rules \cup {"passed", "pending"}
  BY <1>0, CheckResult, ValuesAreNat
<1>6. Rechecked(p2)
  <2>1. \A f \in DOMAIN settings : f \in p1.successList \/ f \in p1.submitted \cup p1.pending
    BY <1>0, <1>2, <1>5
  <2>2. \A f \in Fields : f \in p1.successList => p1.verdict[f] = "passed"
    BY <1>1 DEF Sound, Listed
  <2>3. \A f \in Fields : p1.verdict[f] \in Rules =>
            f \in DOMAIN settings /\ (f \in p1.submitted \/ p1.verdict[f] = "remote")
    BY <1>1 DEF Sound, Rechecked
  <2> QED
    BY <1>4, <2>1, <2>2, <2>3, VerdictsDiffer DEF Rechecked
<1>7. Sound(p2) /\ MarkedButListed(p2)
  <2>1. Listed(p2) /\ MarkedButListed(p2)
    BY <1>1, <1>4 DEF Sound, Listed, MarkedButListed
  <2>2. Remembered(p2)
    BY <1>1, <1>4 DEF Sound, Remembered
  <2> QED
    BY <1>1, <1>4, <1>6, <2>1, <2>2 DEF Sound
<1>8. /\ Sound(p3) /\ MarkedButListed(p3)
      /\ p3.sent = p2.sent /\ p3.formSubmitted = p2.formSubmitted
      /\ p3.pending = p2.pending /\ p3.value = p2.value
      /\ p3.previous = p2.previous /\ p3.errorMap = p2.errorMap
      /\ p3.successList = p2.successList
      /\ ~valid(p2) => p3.summary = [class |-> "errors", list |-> DOMAIN p2.errorMap]
  BY <1>7, SummarySettles
<1> HIDE DEF p3
<1>9. /\ Settled(q)
      /\ q.sent = p3.sent /\ q.formSubmitted = p3.formSubmitted /\ q.pending = p3.pending
      /\ q.value = p3.value /\ q.previous = p3.previous /\ q.errorMap = p3.errorMap
      /\ q.summary = p3.summary
      /\ q.container = [f \in Fields |->
            IF f \in p3.successList THEN "valid"
            ELSE IF f \in DOMAIN p3.errorMap THEN "error" ELSE p3.container[f]]
  <2>1. p3 \in Forms
    BY <1>8 DEF Sound
  <2> QED
    BY <1>8, <2>1, ShowSettles, ShownFields DEF Settled
<1> HIDE DEF q
<1>10. ASSUME valid(q), q.pending = {}, NEW f \in DOMAIN settings
       PROVE  check(q, f) = "passed"
  <2>1. check(p, f) \notin Rules
    BY <1>0, <1>2, <1>4, <1>8, <1>9, <1>10 DEF valid
  <2>2. \A g \in fields : check(p, g) # "pending"
    BY <1>0, <1>2, <1>4, <1>8, <1>9, <1>10
  <2>3. q.value = p.value /\ q.previous[f] = p.previous[f]
    BY <1>0, <1>2, <1>4, <1>8, <1>9, <2>2
  <2>4. check(p, f) = "passed"
    BY <1>0, <1>5, <2>1, <2>2
  <2> QED
    BY <2>3, <2>4, CheckReads
<1>11. ASSUME ~valid(q)
       PROVE  /\ q.summary = [class |-> "errors", list |-> DOMAIN q.errorMap]
              /\ \A f \in DOMAIN q.errorMap : q.container[f] = "error"
  <2>1. ~valid(p2) /\ q.summary = [class |-> "errors", list |-> DOMAIN q.errorMap]
    BY <1>8, <1>9, <1>11 DEF valid
  <2>2. \A f \in DOMAIN q.errorMap : f \in Fields /\ f \notin p3.successList
    <3>1. DOMAIN p1.errorMap = {g \in fields : check(p, g) \in Rules}
      BY <1>2
    <3> QED
      BY <1>0, <1>2, <1>4, <1>8, <1>9, <3>1, VerdictsDiffer
  <2> QED
    BY <1>9, <2>1, <2>2
<1>12. q = validateForm(p)
  BY DEF validateForm, q, p3, p2, p1, fields
<1>13. q.sent = p.sent /\ q.formSubmitted = p.formSubmitted
  BY <1>2, <1>4, <1>8, <1>9
<1> QED
  BY <1>9, <1>10, <1>11, <1>12, <1>13

LEMMA FieldValidated ==
    ASSUME Attached, NEW p, Settled(p), NEW f \in Fields
    PROVE  Settled(validateElement(p, f)) /\ validateElement(p, f).sent = p.sent
<1> DEFINE p1 == CheckAll(p, {f})
           p2 == [p1 EXCEPT !.invalid = @ \cup {f}]
<1>0. Sound(p) /\ Marked(p) /\ p \in Forms /\ {f} \in SUBSET Fields
  BY DEF Settled, Sound
<1>1. Sound(p1) /\ MarkedButListed(p1) /\ p1 \in Forms
  BY <1>0, CheckAllSound DEF Sound
<1>2. p1.sent = p.sent
  BY <1>0, CheckedFields
<1> HIDE DEF p1
<1>3. /\ p2.present = p1.present /\ p2.value = p1.value /\ p2.container = p1.container
      /\ p2.text = p1.text /\ p2.errorMap = p1.errorMap /\ p2.successList = p1.successList
      /\ p2.submitted = p1.submitted /\ p2.invalid = p1.invalid \cup {f}
      /\ p2.previous = p1.previous /\ p2.request = p1.request /\ p2.pending = p1.pending
      /\ p2.sent = p1.sent /\ p2.verdict = p1.verdict
      /\ p2 \in Forms
  BY <1>1 DEF Forms
<1> HIDE DEF p2
<1>4. Sound(p2) /\ MarkedButListed(p2)
  <2>1. Rechecked(p2)
    BY <1>1, <1>3 DEF Sound, Rechecked
  <2>2. Listed(p2) /\ MarkedButListed(p2)
    BY <1>1, <1>3 DEF Sound, Listed, MarkedButListed
  <2>3. Remembered(p2)
    BY <1>1, <1>3 DEF Sound, Remembered
  <2> QED
    BY <1>1, <1>3, <2>1, <2>2, <2>3 DEF Sound
<1>5. Settled(showErrors(p2)) /\ showErrors(p2).sent = p2.sent
  BY <1>3, <1>4, ShowSettles, ShownFields DEF Settled
<1> QED
  BY <1>2, <1>3, <1>5 DEF validateElement, p2, p1

\* Whether a form waits for answers or has been sent is no part of being at rest.
LEMMA FlagsSettle ==
    ASSUME NEW p, Settled(p), NEW b \in BOOLEAN
    PROVE  /\ Settled([p EXCEPT !.sent = b]) /\ Settled([p EXCEPT !.formSubmitted = b])
           /\ LET q == [p EXCEPT !.sent = b]
              IN q.sent = b /\ q.value = p.value /\ q.previous = p.previous /\ q.pending = p.pending
                 /\ q.formSubmitted = p.formSubmitted
           /\ LET q == [p EXCEPT !.formSubmitted = b]
              IN q.sent = p.sent /\ q.value = p.value /\ q.previous = p.previous
                 /\ q.pending = p.pending /\ q.formSubmitted = b
<1> DEFINE s == [p EXCEPT !.sent = b]
           w == [p EXCEPT !.formSubmitted = b]
<1>0. p \in Forms /\ Sound(p) /\ Marked(p)
  BY DEF Settled, Sound
<1>1. /\ s.present = p.present /\ s.value = p.value /\ s.container = p.container
      /\ s.text = p.text /\ s.errorMap = p.errorMap /\ s.successList = p.successList
      /\ s.submitted = p.submitted /\ s.invalid = p.invalid
      /\ s.previous = p.previous /\ s.request = p.request /\ s.pending = p.pending
      /\ s.verdict = p.verdict /\ s.sent = b /\ s.formSubmitted = p.formSubmitted
      /\ s \in Forms
  BY <1>0 DEF Forms
<1>2. /\ w.present = p.present /\ w.value = p.value /\ w.container = p.container
      /\ w.text = p.text /\ w.errorMap = p.errorMap /\ w.successList = p.successList
      /\ w.submitted = p.submitted /\ w.invalid = p.invalid
      /\ w.previous = p.previous /\ w.request = p.request /\ w.pending = p.pending
      /\ w.verdict = p.verdict /\ w.sent = p.sent /\ w.formSubmitted = b
      /\ w \in Forms
  BY <1>0 DEF Forms
<1> HIDE DEF s, w
<1>3. Settled(s)
  <2>1. Sound(s)
    BY <1>0, <1>1, SoundKept
  <2> QED
    BY <1>0, <1>1, <2>1 DEF Settled, Marked
<1>4. Settled(w)
  <2>1. Sound(w)
    BY <1>0, <1>2, SoundKept
  <2> QED
    BY <1>0, <1>2, <2>1 DEF Settled, Marked
<1> QED
  BY <1>1, <1>2, <1>3, <1>4 DEF s, w

\* What a refused submission leaves.
Explained(p) ==
    \/ p.sent
    \/ p.pending # {} /\ p.formSubmitted
    \/ /\ p.summary = [class |-> "errors", list |-> DOMAIN p.errorMap]
       /\ p.summary.list # {}
       /\ \A f \in p.summary.list : p.container[f] = "error"

LEMMA Submitted ==
    ASSUME Attached, NEW p, Settled(p), ~p.sent
    PROVE  Settled(onSubmit(p)) /\ SentPassed(onSubmit(p)) /\ Explained(onSubmit(p))
<1> DEFINE q == validateForm(p)
<1>1. /\ Settled(q)
      /\ q.sent = p.sent
      /\ valid(q) /\ q.pending = {} => \A f \in DOMAIN settings : check(q, f) = "passed"
      /\ ~valid(q) => /\ q.summary = [class |-> "errors", list |-> DOMAIN q.errorMap]
                      /\ \A f \in DOMAIN q.errorMap : q.container[f] = "error"
  BY FormValidated
<1>2. CASE ~valid(q)
  <2>1. onSubmit(p) = q
    BY <1>2 DEF onSubmit
  <2> HIDE DEF q
  <2>2. DOMAIN q.errorMap # {} /\ q.summary.list = DOMAIN q.errorMap
    BY <1>1, <1>2 DEF valid
  <2> QED
    BY <1>1, <1>2, <2>1, <2>2 DEF SentPassed, Explained
<1>3. CASE valid(q) /\ q.pending # {}
  <2> DEFINE w == [q EXCEPT !.formSubmitted = TRUE]
  <2>1. onSubmit(p) = w
    BY <1>3 DEF onSubmit
  <2> HIDE DEF q
  <2>2. Settled(w) /\ w.sent = q.sent /\ w.pending = q.pending /\ w.formSubmitted
    BY <1>1, FlagsSettle
  <2> HIDE DEF w
  <2> QED
    BY <1>1, <1>3, <2>1, <2>2 DEF SentPassed, Explained
<1>4. CASE valid(q) /\ q.pending = {}
  <2> DEFINE s == [q EXCEPT !.sent = TRUE]
  <2>1. onSubmit(p) = s
    BY <1>4 DEF onSubmit
  <2> HIDE DEF q
  <2>2. Settled(s) /\ s.sent /\ s.value = q.value /\ s.previous = q.previous /\ s.pending = {}
    BY <1>1, <1>4, FlagsSettle
  <2> HIDE DEF s
  <2>3. \A f \in DOMAIN settings : check(s, f) = "passed"
    BY <1>1, <1>4, <2>2, CheckReads
  <2> QED
    BY <2>1, <2>2, <2>3 DEF SentPassed, Explained
<1> QED
  BY <1>2, <1>3, <1>4

\* An answer: its field gets the server's verdict, no other field loses its own.
LEMMA AnswerSettles ==
    ASSUME NEW p, Settled(p), NEW f \in Fields, NEW r \in p.request[f], NEW answer \in BOOLEAN,
           answer <=> r.data \notin Rejected
    PROVE  LET a == answered(p, f, answer)
           IN /\ Settled(a) /\ a.sent = p.sent
              /\ a.request[f] = {} /\ f \in a.invalid
              /\ a.previous[f].valid => a.previous[f].old \cap Rejected = {}
<1> DEFINE listed == IF answer
                     THEN [p EXCEPT !.errorMap = <<>>, !.successList = {f}]
                     ELSE [p EXCEPT !.errorMap = With(@, f, "remote"), !.successList = @ \ {f}]
           s == showErrors(listed)
           a == [s EXCEPT !.request[f] = {},
                          !.previous[f].valid = IF r.detached THEN @ ELSE answer,
                          !.verdict[f] = IF answer THEN "passed" ELSE "remote",
                          !.invalid = @ \cup {f}]
<1>0. Sound(p) /\ Marked(p) /\ p \in Forms
  BY DEF Settled, Sound
<1>1. /\ p.request[f] = {r} /\ p.previous[f].old = IF r.detached THEN {} ELSE {r.data}
      /\ f \in DOMAIN settings /\ f \in p.pending
  BY <1>0 DEF Sound, Remembered
<1>2. answered(p, f, answer) = a
  <2>1. (CHOOSE q \in p.request[f] : TRUE) = r
    BY <1>1
  <2> HIDE DEF listed
  <2>2. shown(p, f, answer) =
            [s EXCEPT !.request[f] = {},
                      !.previous[f].valid = IF r.detached THEN @ ELSE answer,
                      !.verdict[f] = IF answer THEN "passed" ELSE "remote"]
    BY <2>1 DEF shown, listed
  <2> QED
    BY <2>2 DEF answered
<1>3. /\ listed \in Forms
      /\ listed.present = p.present /\ listed.value = p.value /\ listed.container = p.container
      /\ listed.text = p.text /\ listed.summary = p.summary
      /\ listed.submitted = p.submitted /\ listed.invalid = p.invalid
      /\ listed.previous = p.previous /\ listed.request = p.request
      /\ listed.pending = p.pending /\ listed.formSubmitted = p.formSubmitted
      /\ listed.sent = p.sent /\ listed.verdict = p.verdict
      /\ listed.errorMap = IF answer THEN <<>> ELSE With(p.errorMap, f, "remote")
      /\ listed.successList = IF answer THEN {f} ELSE p.successList \ {f}
  <2>1. CASE answer
    <3>1. <<>> \in UNION {[S -> Rules] : S \in SUBSET Fields}
      <4>1. <<>> \in [{} -> Rules]
        OBVIOUS
      <4> QED
        BY <4>1
    <3>2. listed = [p EXCEPT !.errorMap = <<>>, !.successList = {f}]
      BY <2>1
    <3> HIDE DEF listed
    <3> QED
      BY <1>0, <2>1, <3>1, <3>2 DEF Forms
  <2>2. CASE ~answer
    <3> DEFINE m == With(p.errorMap, f, "remote")
    <3>1. m \in UNION {[S -> Rules] : S \in SUBSET Fields}
      <4>0. p.errorMap \in ErrorMaps
        BY <1>0, FormTypes
      <4>1. PICK S \in SUBSET Fields : p.errorMap \in [S -> Rules]
        BY <4>0 DEF ErrorMaps
      <4>2. DOMAIN p.errorMap = S /\ \A g \in S : p.errorMap[g] \in Rules
        BY <4>1
      <4>3. m = [g \in S \cup {f} |-> IF g = f THEN "remote" ELSE p.errorMap[g]]
        BY <4>2 DEF With
      <4> HIDE DEF m
      <4>4. m \in [S \cup {f} -> Rules]
        BY <4>2, <4>3, RulesAre
      <4> QED
        BY <4>4
    <3>2. listed = [p EXCEPT !.errorMap = m, !.successList = @ \ {f}]
      BY <2>2
    <3> HIDE DEF listed, m
    <3>3. /\ listed \in Forms
          /\ listed.present = p.present /\ listed.value = p.value /\ listed.container = p.container
          /\ listed.text = p.text /\ listed.summary = p.summary
          /\ listed.submitted = p.submitted /\ listed.invalid = p.invalid
          /\ listed.previous = p.previous /\ listed.request = p.request
          /\ listed.pending = p.pending /\ listed.formSubmitted = p.formSubmitted
          /\ listed.sent = p.sent /\ listed.verdict = p.verdict
          /\ listed.errorMap = m /\ listed.successList = p.successList \ {f}
      BY <1>0, <3>1, <3>2 DEF Forms
    <3>4. m = With(p.errorMap, f, "remote")
      BY DEF m
    <3>5. /\ listed.errorMap = IF answer THEN <<>> ELSE With(p.errorMap, f, "remote")
          /\ listed.successList = IF answer THEN {f} ELSE p.successList \ {f}
      BY <2>2, <3>3, <3>4
    <3> QED
      BY <3>3, <3>5
  <2> QED
    BY <2>1, <2>2
<1> HIDE DEF listed
<1>4. /\ DOMAIN s = DOMAIN listed
      /\ s.present = p.present /\ s.value = p.value /\ s.summary = p.summary
      /\ s.errorMap = listed.errorMap /\ s.successList = listed.successList
      /\ s.submitted = p.submitted /\ s.invalid = p.invalid
      /\ s.previous = p.previous /\ s.request = p.request /\ s.pending = p.pending
      /\ s.formSubmitted = p.formSubmitted /\ s.sent = p.sent /\ s.verdict = p.verdict
      /\ s.container = [g \in Fields |->
            IF g \in listed.successList THEN "valid"
            ELSE IF g \in DOMAIN listed.errorMap THEN "error" ELSE p.container[g]]
      /\ s.text = [g \in Fields |->
            IF g \in listed.successList \cap Replace THEN "empty"
            ELSE IF g \in DOMAIN listed.errorMap \cap Replace THEN listed.errorMap[g]
            ELSE p.text[g]]
  BY <1>3, ShownFields
<1>5. DOMAIN listed = DOMAIN p
  BY <1>0, <1>3 DEF Forms
<1>6. s = [x \in DOMAIN s |-> s[x]]
  BY ShownIsRecord
<1> HIDE DEF s
<1>7. s \in Forms
  <2>1. \A g \in DOMAIN listed.errorMap : listed.errorMap[g] \in Rules
    BY <1>3, ErrorMapTypes
  <2>2. /\ p.container \in [Fields -> {"valid", "error"}]
        /\ p.text \in [Fields -> Rules \cup {"empty"}]
    BY <1>0, FormTypes
  <2>3. s.container \in [Fields -> {"valid", "error"}]
    BY <1>4, <2>2
  <2>4. s.text \in [Fields -> Rules \cup {"empty"}]
    BY <1>4, <2>1, <2>2
  <2>5. s.errorMap \in ErrorMaps /\ s.successList \in SUBSET Fields
    BY <1>3, <1>4, FormTypes
  <2>6. /\ s.present \in SUBSET Fields /\ s.value \in [Fields -> Texts]
        /\ s.summary \in [class : {"valid", "errors"}, list : SUBSET Fields]
        /\ s.submitted \in SUBSET Fields /\ s.invalid \in SUBSET Fields
        /\ s.previous \in Previous /\ s.request \in Requests /\ s.pending \in SUBSET Fields
        /\ s.formSubmitted \in BOOLEAN /\ s.sent \in BOOLEAN
        /\ s.verdict \in [Fields -> Rules \cup {"none", "passed"}]
    BY <1>0, <1>4, FormTypes
  <2> QED
    BY <1>0, <1>4, <1>5, <1>6, <2>3, <2>4, <2>5, <2>6, FormIs
<1>8. /\ a \in Forms
      /\ a.present = s.present /\ a.value = s.value /\ a.summary = s.summary
      /\ a.container = s.container /\ a.text = s.text
      /\ a.errorMap = s.errorMap /\ a.successList = s.successList
      /\ a.submitted = s.submitted /\ a.invalid = s.invalid \cup {f}
      /\ a.previous = [s.previous EXCEPT ![f].valid = IF r.detached THEN @ ELSE answer]
      /\ a.request = [s.request EXCEPT ![f] = {}] /\ a.pending = s.pending
      /\ a.formSubmitted = s.formSubmitted /\ a.sent = s.sent
      /\ a.verdict = [s.verdict EXCEPT ![f] = IF answer THEN "passed" ELSE "remote"]
  <2>1. \A g \in Fields : s.previous[g] \in [old : SUBSET Datas, valid : BOOLEAN]
    BY <1>7, FormTypes DEF Previous
  <2>2. [s.previous EXCEPT ![f].valid = IF r.detached THEN @ ELSE answer] \in Previous
    BY <1>7, <2>1, FormTypes DEF Previous
  <2>3. [s.request EXCEPT ![f] = {}] \in Requests
    BY <1>7, FormTypes DEF Requests
  <2>4. [s.verdict EXCEPT ![f] = IF answer THEN "passed" ELSE "remote"]
            \in [Fields -> Rules \cup {"none", "passed"}]
    BY <1>7, FormTypes, RulesAre
  <2>5. /\ DOMAIN a = DOMAIN s
        /\ a.present = s.present /\ a.value = s.value /\ a.summary = s.summary
        /\ a.container = s.container /\ a.text = s.text
        /\ a.errorMap = s.errorMap /\ a.successList = s.successList
        /\ a.submitted = s.submitted /\ a.invalid = s.invalid \cup {f}
        /\ a.previous = [s.previous EXCEPT ![f].valid = IF r.detached THEN @ ELSE answer]
        /\ a.request = [s.request EXCEPT ![f] = {}] /\ a.pending = s.pending
        /\ a.formSubmitted = s.formSubmitted /\ a.sent = s.sent
        /\ a.verdict = [s.verdict EXCEPT ![f] = IF answer THEN "passed" ELSE "remote"]
    BY <1>7 DEF Forms
  <2>6. a = [x \in DOMAIN a |-> a[x]]
    OBVIOUS
  <2> HIDE DEF a
  <2>7. a.invalid \in SUBSET Fields
    BY <1>7, <2>5, FormTypes
  <2>8. /\ a.present \in SUBSET Fields /\ a.value \in [Fields -> Texts]
        /\ a.container \in [Fields -> {"valid", "error"}]
        /\ a.text \in [Fields -> Rules \cup {"empty"}]
        /\ a.summary \in [class : {"valid", "errors"}, list : SUBSET Fields]
        /\ a.errorMap \in ErrorMaps /\ a.successList \in SUBSET Fields
        /\ a.submitted \in SUBSET Fields /\ a.pending \in SUBSET Fields
        /\ a.formSubmitted \in BOOLEAN /\ a.sent \in BOOLEAN
    BY <1>7, <2>5, FormTypes
  <2>9. a \in Forms
    BY <1>7, <2>2, <2>3, <2>4, <2>5, <2>6, <2>7, <2>8, FormIs
  <2> QED
    BY <2>5, <2>9
<1> HIDE DEF a
<1>9. /\ a.verdict[f] = IF answer THEN "passed" ELSE "remote"
      /\ \A g \in Fields \ {f} : a.verdict[g] = p.verdict[g]
      /\ a.request[f] = {} /\ \A g \in Fields \ {f} : a.request[g] = p.request[g]
      /\ a.previous[f].old = p.previous[f].old
      /\ a.previous[f].valid = IF r.detached THEN p.previous[f].valid ELSE answer
      /\ \A g \in Fields \ {f} : a.previous[g] = p.previous[g]
  <2>1. \A g \in Fields : p.previous[g] \in [old : SUBSET Datas, valid : BOOLEAN]
    BY <1>0, FormTypes DEF Previous
  <2>2. /\ p.previous \in Previous /\ p.request \in Requests
        /\ p.verdict \in [Fields -> Rules \cup {"none", "passed"}]
    BY <1>0, FormTypes
  <2>3. p.previous[f] \in [old : SUBSET Datas, valid : BOOLEAN]
    BY <2>1
  <2>4. a.previous = [p.previous EXCEPT ![f].valid = IF r.detached THEN @ ELSE answer]
        /\ a.request = [p.request EXCEPT ![f] = {}]
        /\ a.verdict = [p.verdict EXCEPT ![f] = IF answer THEN "passed" ELSE "remote"]
    BY <1>4, <1>8
  <2>5. a.request[f] = {} /\ \A g \in Fields \ {f} : a.request[g] = p.request[g]
    BY <2>2, <2>4 DEF Requests
  <2>6. /\ a.verdict[f] = IF answer THEN "passed" ELSE "remote"
        /\ \A g \in Fields \ {f} : a.verdict[g] = p.verdict[g]
    BY <2>2, <2>4
  <2>7. /\ a.previous[f].old = p.previous[f].old
        /\ a.previous[f].valid = IF r.detached THEN p.previous[f].valid ELSE answer
        /\ \A g \in Fields \ {f} : a.previous[g] = p.previous[g]
    BY <2>2, <2>3, <2>4 DEF Previous
  <2> QED
    BY <2>5, <2>6, <2>7
<1>10. /\ a.present = p.present /\ a.value = p.value /\ a.sent = p.sent
       /\ a.pending = p.pending
       /\ a.submitted = p.submitted /\ a.invalid = p.invalid \cup {f}
       /\ a.errorMap = listed.errorMap /\ a.successList = listed.successList
  BY <1>4, <1>8
<1>11. IF answer THEN DOMAIN a.errorMap = {} /\ a.successList = {f}
       ELSE /\ DOMAIN a.errorMap = DOMAIN p.errorMap \cup {f} /\ f \notin a.successList
            /\ a.successList \subseteq p.successList
            /\ a.errorMap[f] = "remote"
            /\ \A g \in DOMAIN p.errorMap \ {f} : a.errorMap[g] = p.errorMap[g]
  <2>1. CASE answer
    BY <1>3, <1>10, <2>1
  <2>2. CASE ~answer
    BY <1>3, <1>10, <2>2 DEF With
  <2> QED
    BY <2>1, <2>2
<1>12. a.previous[f].valid => a.previous[f].old \cap Rejected = {}
  <2>1. CASE r.detached
    BY <1>1, <1>9, <2>1
  <2>2. CASE ~r.detached
    BY <1>1, <1>9, <2>2
  <2> QED
    BY <2>1, <2>2
<1>13. Listed(a)
  BY <1>0, <1>9, <1>11 DEF Sound, Listed
<1>14. Rechecked(a)
  <2>1. \A g \in Fields \ {f} : p.verdict[g] \in Rules =>
            /\ g \in DOMAIN settings
            /\ g \in p.submitted \/ (p.verdict[g] = "remote" /\ g \in p.invalid \cup p.pending)
    BY <1>0 DEF Sound, Rechecked
  <2> QED
    BY <1>1, <1>9, <1>10, <2>1, VerdictsDiffer DEF Rechecked
<1>15. Remembered(a)
  <2> SUFFICES ASSUME NEW g \in Fields
               PROVE  /\ g \notin DOMAIN settings =>
                            a.previous[g] = [old |-> {}, valid |-> TRUE] /\ a.request[g] = {}
                      /\ \A q \in a.request[g] :
                            /\ a.request[g] = {q}
                            /\ a.previous[g].old = IF q.detached THEN {} ELSE {q.data}
                      /\ g \notin a.pending /\ a.previous[g].valid =>
                            a.previous[g].old \cap Rejected = {}
    BY DEF Remembered
  <2>1. CASE g = f
    BY <1>1, <1>9, <1>12, <2>1
  <2>2. CASE g # f
    <3>1. a.previous[g] = p.previous[g] /\ a.request[g] = p.request[g] /\ a.pending = p.pending
      BY <1>9, <1>10, <2>2
    <3> QED
      BY <1>0, <3>1 DEF Sound, Remembered
  <2> QED
    BY <2>1, <2>2
<1>16. \A g \in Fields : a.request[g] # {} => g \in a.pending
  BY <1>0, <1>9, <1>10 DEF Sound
<1>17. Sound(a)
  BY <1>0, <1>8, <1>10, <1>13, <1>14, <1>15, <1>16 DEF Sound
<1>18. /\ \A g \in Fields : a.container[g] =
            IF g \in a.successList THEN "valid"
            ELSE IF g \in DOMAIN a.errorMap THEN "error" ELSE p.container[g]
       /\ \A g \in Replace : a.text[g] =
            IF g \in a.successList THEN "empty"
            ELSE IF g \in DOMAIN a.errorMap THEN a.errorMap[g] ELSE p.text[g]
  BY <1>4, <1>8, <1>10, FieldsAssumption
<1>19. Marked(a)
  <2> SUFFICES ASSUME NEW g \in Fields
               PROVE  /\ a.container[g] = "error" <=> a.verdict[g] \in Rules
                      /\ a.container[g] = "error" /\ g \in Replace => a.text[g] = a.verdict[g]
    BY DEF Marked
  <2>1. CASE g \in a.successList
    <3>1. a.verdict[g] = "passed"
      BY <1>13, <2>1 DEF Listed
    <3> QED
      BY <1>18, <2>1, <3>1, VerdictsDiffer
  <2>2. CASE g \notin a.successList /\ g \in DOMAIN a.errorMap
    <3>1. a.verdict[g] = a.errorMap[g] /\ a.errorMap[g] \in Rules
      BY <1>8, <1>13, <2>2, ErrorMapTypes DEF Listed
    <3> QED
      BY <1>18, <2>2, <3>1
  <2>3. CASE g \notin a.successList /\ g \notin DOMAIN a.errorMap
    <3>1. g # f
      BY <1>11, <2>3
    <3>2. a.verdict[g] = p.verdict[g] /\ a.container[g] = p.container[g]
          /\ (g \in Replace => a.text[g] = p.text[g])
      BY <1>9, <1>18, <2>3, <3>1
    <3> QED
      BY <1>0, <3>2 DEF Marked
  <2> QED
    BY <2>1, <2>2, <2>3
<1> QED
  BY <1>2, <1>9, <1>10, <1>12, <1>17, <1>19 DEF Settled

\* The last answer takes up the submission that waited for it.
LEMMA Stopped ==
    ASSUME Attached, NEW p, Settled(p), ~p.sent, NEW f \in Fields, NEW answer \in BOOLEAN,
           p.request[f] = {}, f \in p.invalid,
           p.previous[f].valid => p.previous[f].old \cap Rejected = {}
    PROVE  Settled(stopRequest(p, f, answer)) /\ SentPassed(stopRequest(p, f, answer))
<1> DEFINE s == [p EXCEPT !.pending = @ \ {f}]
           q == validateForm(s)
<1>0. Sound(p) /\ Marked(p) /\ p \in Forms
  BY DEF Settled, Sound
<1>1. /\ s.present = p.present /\ s.value = p.value /\ s.container = p.container
      /\ s.text = p.text /\ s.errorMap = p.errorMap /\ s.successList = p.successList
      /\ s.submitted = p.submitted /\ s.invalid = p.invalid
      /\ s.previous = p.previous /\ s.request = p.request /\ s.pending = p.pending \ {f}
      /\ s.verdict = p.verdict /\ s.sent = p.sent
      /\ s \in Forms
  BY <1>0 DEF Forms
<1>2. stopRequest(p, f, answer) =
        CASE s.pending # {} \/ ~s.formSubmitted -> s
          [] s.pending = {} /\ s.formSubmitted /\ answer ->
                IF valid(q) THEN [onSubmit(q) EXCEPT !.formSubmitted = FALSE] ELSE q
          [] OTHER -> [onErrors(s) EXCEPT !.formSubmitted = FALSE]
  BY DEF stopRequest
<1> HIDE DEF s
<1>3. Settled(s)
  <2>1. Listed(s) /\ Marked(s)
    BY <1>0, <1>1 DEF Sound, Listed, Marked
  <2>2. Rechecked(s)
    BY <1>0, <1>1 DEF Sound, Rechecked
  <2>3. Remembered(s)
    <3>1. \A g \in Fields : g \notin s.pending /\ s.previous[g].valid =>
              s.previous[g].old \cap Rejected = {}
      BY <1>0, <1>1 DEF Sound, Remembered
    <3> QED
      BY <1>0, <1>1, <3>1 DEF Sound, Remembered
  <2>4. /\ DOMAIN settings \cup DOMAIN options \subseteq s.present /\ \A g \in Fields : s.value[g] \in Lengths(g)
        /\ \A g \in Fields : s.request[g] # {} => g \in s.pending
    BY <1>0, <1>1 DEF Sound
  <2> QED
    BY <1>1, <2>1, <2>2, <2>3, <2>4 DEF Settled, Sound
<1>4. Settled(q) /\ ~q.sent
  BY <1>1, <1>3, FormValidated
<1> HIDE DEF q
<1>5. CASE s.pending # {} \/ ~s.formSubmitted
  BY <1>1, <1>2, <1>3, <1>5 DEF SentPassed
<1>6. CASE s.pending = {} /\ s.formSubmitted /\ answer /\ ~valid(q)
  <2>1. stopRequest(p, f, answer) = q
    BY <1>2, <1>6
  <2> QED
    BY <1>4, <2>1 DEF SentPassed
<1>7. CASE s.pending = {} /\ s.formSubmitted /\ answer /\ valid(q)
  <2> DEFINE o == onSubmit(q)
             w == [o EXCEPT !.formSubmitted = FALSE]
  <2>1. stopRequest(p, f, answer) = w
    BY <1>2, <1>7
  <2>2. Settled(o) /\ SentPassed(o)
    BY <1>4, Submitted
  <2> HIDE DEF o
  <2>3. /\ Settled(w) /\ w.sent = o.sent /\ w.value = o.value /\ w.previous = o.previous
        /\ w.pending = o.pending
    BY <2>2, FlagsSettle
  <2> HIDE DEF w
  <2>4. \A g : check(w, g) = check(o, g)
    BY <2>3, CheckReads
  <2>5. SentPassed(w)
    BY <2>2, <2>3, <2>4 DEF SentPassed
  <2> QED
    BY <2>1, <2>3, <2>5
<1>8. CASE s.pending = {} /\ s.formSubmitted /\ ~answer
  <2> DEFINE o == onErrors(s)
             w == [o EXCEPT !.formSubmitted = FALSE]
  <2>1. stopRequest(p, f, answer) = w
    BY <1>2, <1>8
  <2>2. Settled(o) /\ o.sent = s.sent
    BY <1>3, SummarySettles DEF Settled
  <2> HIDE DEF o
  <2>3. Settled(w) /\ w.sent = o.sent
    BY <2>2, FlagsSettle
  <2> HIDE DEF w
  <2> QED
    BY <1>1, <2>1, <2>2, <2>3 DEF SentPassed
<1> QED
  BY <1>5, <1>6, <1>7, <1>8

\* A reset leaves the form as it was before anything was validated, but for the
\* texts and for what is still on its way.
LEMMA ResetSettles ==
    ASSUME Attached, NEW p, Settled(p), ~p.sent
    PROVE  LET q == [onReset(p) EXCEPT !.value = [f \in Fields |-> 0]]
           IN /\ Settled(q) /\ SentPassed(q)
              /\ q = [BlankForm EXCEPT
                        !.present = p.present, !.text = p.text,
                        !.summary.list = p.summary.list, !.pending = p.pending,
                        !.request = [f \in Fields |->
                            {[r EXCEPT !.detached = TRUE] : r \in p.request[f]}],
                        !.formSubmitted = p.formSubmitted]
<1> DEFINE requests == [f \in Fields |->
                 IF f \in elements(p) THEN {[r EXCEPT !.detached = TRUE] : r \in p.request[f]}
                                      ELSE p.request[f]]
           cutOff == [f \in Fields |-> {[r EXCEPT !.detached = TRUE] : r \in p.request[f]}]
           q == [onReset(p) EXCEPT !.value = [f \in Fields |-> 0]]
<1>0. Sound(p) /\ Marked(p) /\ p \in Forms /\ elements(p) = DOMAIN settings
      /\ DOMAIN settings \subseteq Fields
  BY ElementsAre DEF Settled, Sound, Attached
<1>1. /\ DOMAIN q = DOMAIN p
      /\ q.present = p.present /\ q.value = [f \in Fields |-> 0]
      /\ q.container = [f \in Fields |-> "valid"] /\ q.text = p.text
      /\ q.summary = [p.summary EXCEPT !.class = "valid"]
      /\ q.errorMap = <<>> /\ q.successList = {} /\ q.submitted = {} /\ q.invalid = {}
      /\ q.previous = [f \in Fields |->
            IF f \in elements(p) THEN [old |-> {}, valid |-> TRUE] ELSE p.previous[f]]
      /\ q.request = requests /\ q.pending = p.pending
      /\ q.formSubmitted = p.formSubmitted /\ q.sent = p.sent
      /\ q.verdict = [f \in Fields |-> "none"]
  BY <1>0 DEF onReset, Forms
<1>2. q = [x \in DOMAIN q |-> q[x]]
  OBVIOUS
<1> HIDE DEF q
<1>3. q.previous = [f \in Fields |-> [old |-> {}, valid |-> TRUE]]
  <2>1. \A f \in Fields \ DOMAIN settings : p.previous[f] = [old |-> {}, valid |-> TRUE]
    BY <1>0 DEF Sound, Remembered
  <2> QED
    BY <1>0, <1>1, <2>1
<1>3a. q.request = cutOff
  <2>1. \A f \in Fields \ DOMAIN settings :
            /\ p.request[f] = {}
            /\ {[r EXCEPT !.detached = TRUE] : r \in p.request[f]} = {}
    BY <1>0 DEF Sound, Remembered
  <2> QED
    BY <1>0, <1>1, <2>1
<1> DEFINE b == [BlankForm EXCEPT
                        !.present = p.present, !.text = p.text,
                        !.summary.list = p.summary.list, !.pending = p.pending,
                        !.request = cutOff,
                        !.formSubmitted = p.formSubmitted]
<1>4. q = b
  <2>1. DOMAIN q = {"present", "value", "container", "text", "summary", "errorMap",
                    "successList", "submitted", "invalid", "previous", "request",
                    "pending", "formSubmitted", "sent", "verdict"}
    BY <1>0, <1>1 DEF Forms
  <2> HIDE DEF cutOff
  <2>2. b = [x \in DOMAIN b |-> b[x]]
    OBVIOUS
  <2>7. DOMAIN b = DOMAIN BlankForm
    OBVIOUS
  <2>8. DOMAIN BlankForm = DOMAIN q
    BY <2>1 DEF BlankForm
  <2>3. /\ b.present = p.present /\ b.value = [f \in Fields |-> 0]
        /\ b.container = [f \in Fields |-> "valid"] /\ b.text = p.text
        /\ b.summary = [class |-> "valid", list |-> p.summary.list]
        /\ b.errorMap = <<>> /\ b.successList = {} /\ b.submitted = {} /\ b.invalid = {}
        /\ b.previous = [f \in Fields |-> [old |-> {}, valid |-> TRUE]]
        /\ b.request = cutOff /\ b.pending = p.pending
        /\ b.formSubmitted = p.formSubmitted /\ b.sent = FALSE
        /\ b.verdict = [f \in Fields |-> "none"]
    BY DEF BlankForm
  <2> HIDE DEF b
  <2>4. q.summary = [class |-> "valid", list |-> p.summary.list]
    <3>1. p.summary \in [class : {"valid", "errors"}, list : SUBSET Fields]
      BY <1>0, FormTypes
    <3> QED
      BY <1>1, <3>1
  <2>5. q.sent = FALSE
    <3>1. p.sent \in BOOLEAN
      BY <1>0, FormTypes
    <3> QED
      BY <1>1, <3>1
  <2>6. \A x \in DOMAIN q : q[x] = b[x]
    <3>1. /\ q.present = b.present /\ q.value = b.value /\ q.container = b.container
          /\ q.text = b.text /\ q.summary = b.summary /\ q.errorMap = b.errorMap
          /\ q.successList = b.successList /\ q.submitted = b.submitted
          /\ q.invalid = b.invalid /\ q.previous = b.previous /\ q.request = b.request
          /\ q.pending = b.pending /\ q.formSubmitted = b.formSubmitted
          /\ q.sent = b.sent /\ q.verdict = b.verdict
      BY <1>1, <1>3, <1>3a, <2>3, <2>4, <2>5
    <3> QED
      BY <2>1, <3>1
  <2> QED
    BY <1>2, <2>2, <2>6, <2>7, <2>8
<1>5. \A f \in Fields : \A r \in q.request[f] :
          q.request[f] = {r} /\ r.detached /\ f \in DOMAIN settings
  <2> SUFFICES ASSUME NEW f \in Fields, NEW r \in q.request[f]
               PROVE  q.request[f] = {r} /\ r.detached /\ f \in DOMAIN settings
    OBVIOUS
  <2>1. f \in DOMAIN settings
    BY <1>0, <1>1 DEF Sound, Remembered
  <2>2. q.request[f] = {[g EXCEPT !.detached = TRUE] : g \in p.request[f]}
    BY <1>0, <1>1, <2>1
  <2>3. PICK g \in p.request[f] : r = [g EXCEPT !.detached = TRUE]
    BY <2>2
  <2>4. p.request[f] = {g}
    BY <1>0 DEF Sound, Remembered
  <2>5. g \in [data : Datas, detached : BOOLEAN]
    <3>1. p.request \in Requests
      BY <1>0, FormTypes
    <3> QED
      BY <3>1 DEF Requests
  <2> QED
    BY <2>1, <2>2, <2>3, <2>4, <2>5
<1>6. q.request \in Requests
  <2>1. p.request \in Requests
    BY <1>0, FormTypes
  <2>2. \A f \in Fields : \A r \in p.request[f] :
            [r EXCEPT !.detached = TRUE] \in [data : Datas, detached : BOOLEAN]
    <3> SUFFICES ASSUME NEW f \in Fields, NEW r \in p.request[f]
                 PROVE  [r EXCEPT !.detached = TRUE] \in [data : Datas, detached : BOOLEAN]
      OBVIOUS
    <3>1. r \in [data : Datas, detached : BOOLEAN]
      BY <2>1 DEF Requests
    <3> QED
      BY <3>1
  <2>3. \A f \in Fields : {[r EXCEPT !.detached = TRUE] : r \in p.request[f]}
                            \in SUBSET [data : Datas, detached : BOOLEAN]
    BY <2>2
  <2>4. \A f \in Fields : p.request[f] \in SUBSET [data : Datas, detached : BOOLEAN]
    BY <2>1 DEF Requests
  <2> QED
    BY <1>1, <2>3, <2>4 DEF Requests
<1>7. q \in Forms
  <2>1. q.previous \in Previous
    BY <1>3 DEF Previous
  <2>2. q.errorMap \in ErrorMaps
    <3>1. <<>> \in [{} -> Rules]
      OBVIOUS
    <3>2. <<>> \in ErrorMaps
      BY <3>1 DEF ErrorMaps
    <3> QED
      BY <1>1, <3>2
  <2>3. q.value \in [Fields -> Texts] /\ q.container \in [Fields -> {"valid", "error"}]
        /\ q.verdict \in [Fields -> Rules \cup {"none", "passed"}]
    BY <1>1, FieldsAssumption DEF Texts, Lengths
  <2>4. /\ q.present \in SUBSET Fields /\ q.text \in [Fields -> Rules \cup {"empty"}]
        /\ q.summary \in [class : {"valid", "errors"}, list : SUBSET Fields]
        /\ q.successList \in SUBSET Fields /\ q.submitted \in SUBSET Fields
        /\ q.invalid \in SUBSET Fields /\ q.pending \in SUBSET Fields
        /\ q.formSubmitted \in BOOLEAN /\ q.sent \in BOOLEAN
    BY <1>0, <1>1, FormTypes
  <2> QED
    BY <1>0, <1>1, <1>2, <1>6, <2>1, <2>2, <2>3, <2>4, FormIs
<1>8. Marked(q) /\ Listed(q) /\ Rechecked(q)
  BY <1>1, VerdictsDiffer DEF Marked, Listed, Rechecked
<1>9. Remembered(q)
  BY <1>3, <1>5 DEF Remembered
<1>10. /\ DOMAIN settings \cup DOMAIN options \subseteq q.present
       /\ \A f \in Fields : q.value[f] \in Lengths(f)
       /\ \A f \in Fields : q.request[f] # {} => f \in q.pending
  <2>1. \A f \in Fields : q.request[f] # {} => p.request[f] # {}
    BY <1>1
  <2> QED
    BY <1>0, <1>1, <2>1, FieldsAssumption DEF Sound, Lengths
<1>11. Settled(q) /\ SentPassed(q)
  BY <1>1, <1>7, <1>8, <1>9, <1>10 DEF Settled, Sound, SentPassed
<1> QED
  BY <1>4, <1>11 DEF b, q

\* Typing changes a text, a lost answer ends a request, a script adds a field:
\* none of them changes a verdict.
LEMMA TextSettles ==
    ASSUME NEW p, Settled(p), NEW f \in Fields, NEW length \in Lengths(f)
    PROVE  LET q == [p EXCEPT !.value[f] = length] IN Settled(q) /\ q.sent = p.sent
<1> DEFINE q == [p EXCEPT !.value[f] = length]
<1>0. Sound(p) /\ Marked(p) /\ p \in Forms
  BY DEF Settled, Sound
<1>1. p.value \in [Fields -> Texts] /\ length \in Texts
  BY <1>0, FormTypes DEF Texts
<1>2. /\ q.present = p.present /\ q.value = [p.value EXCEPT ![f] = length]
      /\ q.container = p.container /\ q.text = p.text
      /\ q.errorMap = p.errorMap /\ q.successList = p.successList
      /\ q.submitted = p.submitted /\ q.invalid = p.invalid /\ q.previous = p.previous
      /\ q.request = p.request /\ q.pending = p.pending /\ q.verdict = p.verdict
      /\ q.sent = p.sent /\ q \in Forms
  BY <1>0, <1>1 DEF Forms
<1> HIDE DEF q
<1>3. \A g \in Fields : q.value[g] \in Lengths(g)
  BY <1>0, <1>1, <1>2 DEF Sound
<1>4. Listed(q) /\ Rechecked(q) /\ Marked(q)
  BY <1>0, <1>2 DEF Sound, Listed, Rechecked, Marked
<1>5. Remembered(q)
  BY <1>0, <1>2 DEF Sound, Remembered
<1> QED
  BY <1>0, <1>2, <1>3, <1>4, <1>5 DEF Settled, Sound, q

LEMMA LossSettles ==
    ASSUME NEW p, Settled(p), NEW f \in Fields
    PROVE  LET q == [p EXCEPT !.request[f] = {}] IN Settled(q) /\ q.sent = p.sent
<1> DEFINE q == [p EXCEPT !.request[f] = {}]
<1>0. Sound(p) /\ Marked(p) /\ p \in Forms
  BY DEF Settled, Sound
<1>1. p.request \in Requests
  BY <1>0, FormTypes
<1>2. [p.request EXCEPT ![f] = {}] \in Requests
  BY <1>1 DEF Requests
<1>3. /\ q.present = p.present /\ q.value = p.value
      /\ q.container = p.container /\ q.text = p.text
      /\ q.errorMap = p.errorMap /\ q.successList = p.successList
      /\ q.submitted = p.submitted /\ q.invalid = p.invalid /\ q.previous = p.previous
      /\ q.request = [p.request EXCEPT ![f] = {}]
      /\ q.pending = p.pending /\ q.verdict = p.verdict
      /\ q.sent = p.sent /\ q \in Forms
  BY <1>0, <1>2 DEF Forms, Requests
<1> HIDE DEF q
<1>4. q.request[f] = {} /\ \A g \in Fields \ {f} : q.request[g] = p.request[g]
  BY <1>1, <1>3 DEF Requests
<1>5. Listed(q) /\ Rechecked(q) /\ Marked(q)
  BY <1>0, <1>3 DEF Sound, Listed, Rechecked, Marked
<1>6. Remembered(q)
  <2>1. q.previous = p.previous /\ q.pending = p.pending
        /\ \A g \in Fields : q.request[g] = p.request[g] \/ q.request[g] = {}
    BY <1>3, <1>4
  <2>2. Remembered(p)
    BY <1>0 DEF Sound
  <2> SUFFICES ASSUME NEW g \in Fields
               PROVE  /\ g \notin DOMAIN settings =>
                            q.previous[g] = [old |-> {}, valid |-> TRUE] /\ q.request[g] = {}
                      /\ \A r \in q.request[g] :
                            /\ q.request[g] = {r}
                            /\ q.previous[g].old = IF r.detached THEN {} ELSE {r.data}
                      /\ g \notin q.pending /\ q.previous[g].valid =>
                            q.previous[g].old \cap Rejected = {}
    BY DEF Remembered
  <2> QED
    BY <2>1, <2>2 DEF Remembered
<1>7. \A g \in Fields : q.request[g] # {} => g \in q.pending
  BY <1>0, <1>3, <1>4 DEF Sound
<1> QED
  BY <1>0, <1>3, <1>5, <1>6, <1>7 DEF Settled, Sound, q

LEMMA FieldSettles ==
    ASSUME NEW p, Settled(p), NEW f \in Fields
    PROVE  LET q == [p EXCEPT !.present = @ \cup {f}]
           IN Settled(q) /\ q.sent = p.sent /\ q.present = p.present \cup {f}
<1> DEFINE q == [p EXCEPT !.present = @ \cup {f}]
<1>0. Sound(p) /\ Marked(p) /\ p \in Forms
  BY DEF Settled, Sound
<1>1. /\ q.present = p.present \cup {f} /\ q.value = p.value
      /\ q.container = p.container /\ q.text = p.text
      /\ q.errorMap = p.errorMap /\ q.successList = p.successList
      /\ q.submitted = p.submitted /\ q.invalid = p.invalid /\ q.previous = p.previous
      /\ q.request = p.request /\ q.pending = p.pending /\ q.verdict = p.verdict
      /\ q.sent = p.sent /\ q \in Forms
  BY <1>0 DEF Forms
<1> HIDE DEF q
<1>2. Listed(q) /\ Rechecked(q) /\ Marked(q)
  BY <1>0, <1>1 DEF Sound, Listed, Rechecked, Marked
<1>3. Remembered(q)
  BY <1>0, <1>1 DEF Sound, Remembered
<1> QED
  BY <1>0, <1>1, <1>2, <1>3 DEF Settled, Sound, q

(***************************************************************************)
(* The theorems.                                                           *)
(***************************************************************************)
LEMMA InvParts ==
    ASSUME Inv
    PROVE  Attached /\ Settled(form) /\ DOMAIN settings \subseteq DOMAIN options
<1>1. form \in Forms
  BY DEF Inv, TypeOK
<1>2. form.present \in SUBSET Fields
  BY <1>1, FormTypes
<1>3. Attached
  BY <1>2 DEF Inv, TypeOK, Attached
<1>4. Sound(form) /\ Marked(form)
  BY DEF Inv, TypeOK, Sound
<1> QED
  BY <1>3, <1>4 DEF Inv, TypeOK, Settled

LEMMA InitInv == Init => Inv
<1> SUFFICES ASSUME Init PROVE Inv
  OBVIOUS
<1>1. form = BlankForm /\ DOMAIN settings = {} /\ DOMAIN options = {} /\ attrs \in Pages
  BY DEF Init
<1>2. /\ [f \in Fields |-> 0] \in [Fields -> Texts]
      /\ \A f \in Fields : 0 \in Lengths(f)
  BY FieldsAssumption DEF Texts, Lengths
<1>3. <<>> \in ErrorMaps
  <2>1. <<>> \in [{} -> Rules]
    OBVIOUS
  <2> QED
    BY <2>1 DEF ErrorMaps
<1>4. BlankForm \in Forms
  BY <1>2, <1>3, FieldsAssumption DEF BlankForm, Forms, ErrorMaps
<1>5. /\ BlankForm.value = [f \in Fields |-> 0]
      /\ BlankForm.container = [f \in Fields |-> "valid"]
      /\ BlankForm.errorMap = <<>> /\ BlankForm.successList = {}
      /\ BlankForm.previous = [f \in Fields |-> [old |-> {}, valid |-> TRUE]]
      /\ BlankForm.request = [f \in Fields |-> {}]
      /\ BlankForm.sent = FALSE /\ BlankForm.verdict = [f \in Fields |-> "none"]
  BY DEF BlankForm
<1>6. Marked(form) /\ Listed(form) /\ Rechecked(form)
  BY <1>1, <1>5, VerdictsDiffer DEF Marked, Listed, Rechecked
<1>7. Remembered(form)
  BY <1>1, <1>5 DEF Remembered
<1>8. TypeOK
  BY <1>1, <1>2, <1>4, <1>5 DEF TypeOK
<1> QED
  BY <1>1, <1>5, <1>6, <1>7, <1>8 DEF Inv, SentPassed

\* A handler keeps the invariant if it leaves the form at rest.
LEMMA HandledInv ==
    ASSUME Inv, UNCHANGED <<attrs, options, settings>>, attached,
           Settled(form'), SentPassed(form')
    PROVE  Inv'
<1>0. Attached /\ DOMAIN settings \subseteq DOMAIN options
  BY InvParts
<1>1. Sound(form') /\ Marked(form')
  BY DEF Settled
<1>2. /\ attrs' = attrs /\ options' = options /\ settings' = settings
  OBVIOUS
<1>3. TypeOK'
  BY <1>0, <1>1, <1>2 DEF Inv, TypeOK, Sound
<1>4. (\A f \in DOMAIN settings : settings[f] = parseElement(f))'
  BY <1>0, <1>2 DEF Attached, parseElement, Adapted
<1>5. Marked(form)' /\ Listed(form)' /\ Rechecked(form)' /\ Remembered(form)'
  BY <1>1, <1>2 DEF Sound, Marked, Listed, Rechecked, Remembered
<1>6. SentPassed(form)'
  BY <1>2 DEF SentPassed, check, DataOf, FirstRule, RuleOrder
<1> QED
  BY <1>2, <1>3, <1>4, <1>5, <1>6 DEF Inv, attached

LEMMA ReadyInv ==
    ASSUME Inv, Ready
    PROVE  Inv'
<1>1. /\ attrs' = attrs /\ form' = form /\ settings' = options' /\ settings = <<>>
      /\ DOMAIN options' = form.present
      /\ \A f \in form.present : options'[f] = parseElement(f)
  BY DEF Ready, attached
<1>2. ~form.sent
  BY <1>1 DEF Inv, attached
<1>3. \A f : parseElement(f)' = parseElement(f)
  BY <1>1 DEF parseElement, Adapted
<1>4. TypeOK'
  BY <1>1 DEF Inv, TypeOK
<1>5. Marked(form)' /\ Listed(form)'
  BY <1>1 DEF Inv, Marked, Listed
<1>6. Rechecked(form)' /\ Remembered(form)'
  BY <1>1 DEF Inv, Rechecked, Remembered
<1>7. SentPassed(form)' /\ (form.sent => attached)'
  BY <1>1, <1>2 DEF SentPassed
<1>8. (\A f \in DOMAIN settings : settings[f] = parseElement(f))'
  BY <1>1, <1>3
<1> QED
  BY <1>4, <1>5, <1>6, <1>7, <1>8 DEF Inv

LEMMA AddFieldInv ==
    ASSUME Inv, NEW f \in Fields, AddField(f)
    PROVE  Inv'
<1>0. Attached /\ Settled(form) /\ DOMAIN settings \subseteq DOMAIN options
  BY InvParts
<1>1. /\ attrs' = attrs /\ settings' = settings /\ ~form.sent
      /\ form' = [form EXCEPT !.present = @ \cup {f}]
      /\ DOMAIN options' = DOMAIN options \cup {f}
  BY DEF AddField, With
<1>2. Settled(form') /\ form'.sent = form.sent /\ form'.present = form.present \cup {f}
  BY <1>0, <1>1, FieldSettles
<1>3. Sound(form') /\ Marked(form')
  BY <1>2 DEF Settled
<1>4. TypeOK'
  BY <1>0, <1>1, <1>2, <1>3 DEF Inv, TypeOK, Sound
<1>5. (\A g \in DOMAIN settings : settings[g] = parseElement(g))'
  BY <1>0, <1>1 DEF Attached, parseElement, Adapted
<1>6. Marked(form)' /\ Listed(form)' /\ Rechecked(form)' /\ Remembered(form)'
  BY <1>1, <1>3 DEF Sound, Marked, Listed, Rechecked, Remembered
<1>7. SentPassed(form)' /\ (form.sent => attached)'
  BY <1>1, <1>2 DEF SentPassed
<1> QED
  BY <1>4, <1>5, <1>6, <1>7 DEF Inv

LEMMA FormHandlerInv ==
    ASSUME Inv, Submit \/ Reset
    PROVE  Inv'
<1>0. Attached /\ Settled(form)
  BY InvParts
<1>1. UNCHANGED <<attrs, options, settings>> /\ attached /\ ~form.sent
  BY DEF Submit, Reset, Handle
<1>2. CASE Submit
  <2>1. form' = onSubmit(form)
    BY <1>2 DEF Submit, Handle
  <2> QED
    BY <1>0, <1>1, <2>1, Submitted, HandledInv
<1>3. CASE Reset
  <2>1. form' = [onReset(form) EXCEPT !.value = [g \in Fields |-> 0]]
    BY <1>3 DEF Reset, Handle
  <2> QED
    BY <1>0, <1>1, <2>1, ResetSettles, HandledInv
<1> QED
  BY <1>2, <1>3

LEMMA FieldHandlerInv ==
    ASSUME Inv, NEW f \in Fields, NEW length \in Lengths(f),
           \/ Type(f, length) \/ Paste(f, length) \/ Blur(f) \/ Answer(f) \/ LoseAnswer(f)
    PROVE  Inv'
<1>0. Attached /\ Settled(form)
  BY InvParts
<1>1. UNCHANGED <<attrs, options, settings>> /\ attached /\ ~form.sent
  BY DEF Type, Paste, Blur, Answer, LoseAnswer, Handle
<1>2. Settled(form') /\ SentPassed(form')
  <2>1. CASE Type(f, length)
    <3> DEFINE typed == [form EXCEPT !.value[f] = length]
    <3>1. form' = typed \/ form' = validateElement(typed, f)
      BY <2>1 DEF Type, Handle
    <3>2. Settled(typed) /\ typed.sent = form.sent
      BY <1>0, TextSettles
    <3> HIDE DEF typed
    <3>3. Settled(validateElement(typed, f)) /\ validateElement(typed, f).sent = typed.sent
      BY <1>0, <3>2, FieldValidated
    <3> QED
      BY <1>1, <3>1, <3>2, <3>3 DEF SentPassed
  <2>2. CASE Paste(f, length)
    <3>1. form' = [form EXCEPT !.value[f] = length]
      BY <2>2 DEF Paste, Handle
    <3> QED
      BY <1>0, <1>1, <3>1, TextSettles DEF SentPassed
  <2>3. CASE Blur(f)
    <3>1. form' = validateElement(form, f)
      BY <2>3 DEF Blur, Handle
    <3> QED
      BY <1>0, <1>1, <3>1, FieldValidated DEF SentPassed
  <2>4. CASE Answer(f)
    <3>1. PICK r \in form.request[f] :
            form' = stopRequest(answered(form, f, r.data \notin Rejected), f, r.data \notin Rejected)
      BY <2>4 DEF Answer, Handle
    <3> DEFINE answer == r.data \notin Rejected
               a == answered(form, f, answer)
    <3>2. /\ Settled(a) /\ a.sent = form.sent /\ a.request[f] = {} /\ f \in a.invalid
          /\ a.previous[f].valid => a.previous[f].old \cap Rejected = {}
      BY <1>0, AnswerSettles
    <3>3. answer \in BOOLEAN
      OBVIOUS
    <3>4. form' = stopRequest(a, f, answer)
      BY <3>1
    <3> HIDE DEF a, answer
    <3> QED
      BY <1>0, <1>1, <3>2, <3>3, <3>4, Stopped
  <2>5. CASE LoseAnswer(f)
    <3>1. form' = [form EXCEPT !.request[f] = {}]
      BY <2>5 DEF LoseAnswer, Handle
    <3> QED
      BY <1>0, <1>1, <3>1, LossSettles DEF SentPassed
  <2> QED
    BY <2>1, <2>2, <2>3, <2>4, <2>5
<1> QED
  BY <1>1, <1>2, HandledInv

LEMMA NextInv == Inv /\ [Next]_vars => Inv'
<1> SUFFICES ASSUME Inv, [Next]_vars PROVE Inv'
  OBVIOUS
<1>1. CASE Ready
  BY <1>1, ReadyInv
<1>2. CASE \E f \in Fields : AddField(f)
  BY <1>2, AddFieldInv
<1>3. CASE \E f \in Fields : \E length \in Lengths(f) : Type(f, length) \/ Paste(f, length)
  BY <1>3, FieldHandlerInv
<1>4. CASE \E f \in Fields : Blur(f) \/ Answer(f) \/ LoseAnswer(f)
  <2>1. \A f \in Fields : 0 \in Lengths(f)
    BY FieldsAssumption DEF Lengths
  <2> QED
    BY <1>4, <2>1, FieldHandlerInv
<1>5. CASE Submit \/ Reset
  BY <1>5, FormHandlerInv
<1>6. CASE UNCHANGED vars
  <2>1. attrs' = attrs /\ options' = options /\ settings' = settings /\ form' = form
    BY <1>6 DEF vars
  <2> QED
    <3>1. TypeOK' /\ (form.sent => attached)'
      BY <2>1 DEF Inv, TypeOK, attached
    <3>2. (\A f \in DOMAIN settings : settings[f] = parseElement(f))'
      BY <2>1 DEF Inv, parseElement, Adapted
    <3>3. Marked(form)' /\ Listed(form)' /\ Rechecked(form)' /\ Remembered(form)'
      BY <2>1 DEF Inv, Marked, Listed, Rechecked, Remembered
    <3>4. SentPassed(form)'
      <4>1. \A f : check(form, f)' = check(form, f)
        BY <2>1 DEF check, DataOf, FirstRule, RuleOrder
      <4> QED
        BY <2>1, <4>1 DEF Inv, SentPassed
    <3> QED
      BY <3>1, <3>2, <3>3, <3>4 DEF Inv
<1> QED
  BY <1>1, <1>2, <1>3, <1>4, <1>5, <1>6 DEF Next

\* Whatever the page and whatever the order of typing, leaving fields, submitting,
\* resetting, answers and lost answers: the invariant holds.
THEOREM Invariance == Spec => []Inv
BY InitInv, NextInv, PTL DEF Spec

\* Every variable keeps its type, a request in flight is pending, and the fields of
\* the validator have been parsed.
THEOREM TypeCorrect == Spec => []TypeOK
<1>1. Inv => TypeOK
  BY DEF Inv
<1> QED
  BY <1>1, Invariance, PTL

\* onSubmit and stopRequest send a form only with values that meet the attributes of
\* every field of the validator, also when an answer that arrives late sends it.
THEOREM SentValid == Spec => []SentIsValid
<1>1. ASSUME Inv, form.sent, NEW f \in DOMAIN settings
      PROVE  Meets(f)
  <2> DEFINE n == form.value[f]
             R == settings[f]
  <2>0. Attached /\ Settled(form) /\ f \in Fields /\ n \in Nat /\ attrs \in Pages
    BY <1>1, InvParts, ValuesAreNat DEF Attached, Settled
  <2>1. check(form, f) = "passed" /\ form.pending = {}
    BY <1>1 DEF Inv, SentPassed
  <2>2. /\ \A r \in DOMAIN R : Satisfies(r, R[r], n)
        /\ n > 0 /\ "remote" \in DOMAIN R =>
              form.previous[f].old = {DataOf(form, f)} /\ form.previous[f].valid
    BY <2>0, <2>1, CheckResult
  <2>3. R = parseElement(f)
    BY <2>0 DEF Attached
  <2> HIDE DEF R, n
  <2>4. /\ "required" \in DOMAIN attrs[f] => "required" \in DOMAIN R
        /\ "remote" \in DOMAIN attrs[f] => "remote" \in DOMAIN R
        /\ "remote" \in DOMAIN R => R["remote"] = Additional[f]
        /\ \A a \in LimitsOf(f) : HasLimits(R, attrs[f][a])
    BY <2>0, <2>3, ParsedRules
  <2>5. "required" \in DOMAIN attrs[f] => n > 0
    BY <2>2, <2>4 DEF Satisfies
  <2>6. ASSUME n > 0, NEW a \in LimitsOf(f)
        PROVE  /\ "min" \in DOMAIN attrs[f][a] => n >= attrs[f][a]["min"]
               /\ "max" \in DOMAIN attrs[f][a] => n <= attrs[f][a]["max"]
    <3>1. HasLimits(R, attrs[f][a])
      BY <2>4
    <3>2. ASSUME NEW low \in Nat, LowerLimit(R, low)
          PROVE  n >= low
      <4>1. CASE "minlength" \in DOMAIN R /\ R["minlength"] = low
        <5>1. Satisfies("minlength", low, n)
          BY <2>2, <4>1
        <5> QED
          BY <2>0, <2>6, <5>1 DEF Satisfies
      <4>2. ASSUME "rangelength" \in DOMAIN R, NEW m \in Nat, R["rangelength"] = <<low, m>>
            PROVE  n >= low
        <5>1. Satisfies("rangelength", <<low, m>>, n)
          BY <2>2, <4>2
        <5> QED
          BY <2>0, <2>6, <5>1 DEF Satisfies
      <4> QED
        BY <3>2, <4>1, <4>2 DEF LowerLimit
    <3>3. ASSUME NEW high \in Nat, UpperLimit(R, high)
          PROVE  n <= high
      <4>1. CASE "maxlength" \in DOMAIN R /\ R["maxlength"] = high
        <5>1. Satisfies("maxlength", high, n)
          BY <2>2, <4>1
        <5> QED
          BY <2>0, <2>6, <5>1 DEF Satisfies
      <4>2. ASSUME "rangelength" \in DOMAIN R, NEW m \in Nat, R["rangelength"] = <<m, high>>
            PROVE  n <= high
        <5>1. Satisfies("rangelength", <<m, high>>, n)
          BY <2>2, <4>2
        <5> QED
          BY <2>0, <2>6, <5>1 DEF Satisfies
      <4> QED
        BY <3>3, <4>1, <4>2 DEF UpperLimit
    <3>4. \A b \in DOMAIN attrs[f][a] : attrs[f][a][b] \in Nat
      BY <2>0, LimitsShape
    <3> QED
      BY <3>1, <3>2, <3>3, <3>4 DEF HasLimits
  <2>7. ASSUME n > 0, "remote" \in DOMAIN attrs[f]
        PROVE  [g \in Additional[f] \cup {f} |-> form.value[g]] \notin Rejected
    <3>1. DataOf(form, f) = [g \in Additional[f] \cup {f} |-> form.value[g]]
      BY <2>4, <2>7 DEF DataOf, R
    <3>2. form.previous[f].old \cap Rejected = {}
      BY <2>0, <2>1, <2>2, <2>4, <2>7 DEF Settled, Sound, Remembered
    <3> QED
      BY <2>2, <2>4, <2>7, <3>1, <3>2
  <2> QED
    BY <2>5, <2>6, <2>7 DEF Meets, LimitsOf, n
<1>2. Inv => SentIsValid
  BY <1>1 DEF SentIsValid
<1> QED
  BY <1>2, Invariance, PTL

\* onError, onSuccess and onReset: a container is marked exactly while the latest
\* verdict on its field is a broken rule, and names that rule.
THEOREM ContainersShowVerdicts == Spec => []ContainerShowsVerdict
<1>1. Inv => ContainerShowsVerdict
  BY DEF Inv, Marked, ContainerShowsVerdict
<1> QED
  BY <1>1, Invariance, PTL

\* A field that is marked is one that onkeyup validates, but for a refusal by the
\* server whose field is asked about anew: its request is in flight, or was lost.
THEOREM ErrorsRechecked == Spec => []ErrorsAreRechecked
<1>1. Inv => ErrorsAreRechecked
  BY DEF Inv, Marked, Rechecked, Lost, ErrorsAreRechecked
<1> QED
  BY <1>1, Invariance, PTL

\* onSubmit: a submission that does not send the form waits for an answer or fills
\* the summary with what failed.
THEOREM RefusalExplained == Spec => RefusalIsExplained
<1>1. ASSUME Inv, Submit
      PROVE  Explained(form')
  <2>1. Attached /\ Settled(form) /\ ~form.sent /\ form' = onSubmit(form)
    BY <1>1, InvParts DEF Submit, Handle
  <2> QED
    BY <2>1, Submitted
<1>2. Inv /\ [Next]_vars =>
        [Submit =>
         \/ form'.sent
         \/ form'.pending # {} /\ form'.formSubmitted
         \/ /\ form'.summary = [class |-> "errors", list |-> DOMAIN form'.errorMap]
            /\ form'.summary.list # {}
            /\ \A f \in form'.summary.list : form'.container[f] = "error"]_vars
  BY <1>1 DEF Explained
<1> QED
  BY <1>2, Invariance, PTL DEF Spec, RefusalIsExplained

\* onReset: nothing of what was validated before is remembered after it, and no
\* answer still on its way will be.
Forgotten ==
    form' = [BlankForm EXCEPT
                !.present = form.present, !.text = form.text,
                !.summary.list = form.summary.list, !.pending = form.pending,
                !.request = [f \in Fields |->
                    {[r EXCEPT !.detached = TRUE] : r \in form.request[f]}],
                !.formSubmitted = form.formSubmitted]

\* onReset: a reset leaves nothing behind but the texts, the count of what is on its
\* way and the requests themselves, cut off.
THEOREM ResetForgotten == Spec => ResetForgets
<1>1. ASSUME Inv, Reset
      PROVE  Forgotten
  <2>1. /\ Attached /\ Settled(form) /\ ~form.sent
        /\ form' = [onReset(form) EXCEPT !.value = [f \in Fields |-> 0]]
    BY <1>1, InvParts DEF Reset, Handle
  <2> QED
    BY <2>1, ResetSettles DEF Forgotten
<1>2. Inv /\ [Next]_vars => [Reset => Forgotten]_vars
  BY <1>1
<1> QED
  BY <1>2, Invariance, PTL DEF Spec, ResetForgets, Forgotten
=============================================================================
