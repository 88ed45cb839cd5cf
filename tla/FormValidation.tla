--------------------------- MODULE FormValidation ---------------------------
(***************************************************************************)
(* Client-side form validation: the scripts that                           *)
(* Views/Shared/_ValidationScriptsPartial.cshtml offers to the pages.      *)
(* jquery.validate.unobtrusive.js turns the data-val attributes of a form  *)
(* into rules and shows what jquery.validate.js makes of them in the       *)
(* form's message containers.                                              *)
(*                                                                         *)
(* One form is modelled, from the moment the document is ready to the      *)
(* moment the browser sends it.  The browser runs one event handler at a   *)
(* time, so a handler is one action; between two handlers the user types,  *)
(* leaves fields, submits and resets, a script adds a field, and the       *)
(* answers of the "remote" rule arrive or get lost.  The form, its         *)
(* validator and its containers are one record, and a function of the      *)
(* source is an operator from one such record to the next.                 *)
(*                                                                         *)
(* A text is its length.  Message texts are the names of the rules they    *)
(* belong to.  The re-entrancy flag of onReset has no counterpart: only    *)
(* the jQuery form plugin, which the application does not have, would      *)
(* re-enter it.  Submit buttons that cancel validation, other input types, *)
(* field groups and user-supplied options are left out.                    *)
(***************************************************************************)
EXTENDS Naturals, FiniteSets, SequencesExt

CONSTANTS
    Fields,      \* names of text inputs, each with a message container
    Rendered,    \* the fields of the page; a script may add the others
    Pages,       \* the data-val attributes, as [Fields -> [adapter -> params]]
    MaxLength,   \* bound: [Fields -> the longest text the user types there]
    Replace,     \* the fields whose container has data-valmsg-replace="true"
    Additional,  \* [Fields -> SUBSET Fields]: data-val-remote-additionalfields
    Rejected     \* the data that the server of the "remote" rule rejects

ASSUME FieldsAssumption ==
    /\ Rendered \subseteq Fields /\ Replace \subseteq Fields
    /\ \A f \in Fields : MaxLength[f] \in Nat /\ Additional[f] \subseteq Fields

\* The limits are numbers, "minlength" and "maxlength" have the one they are named
\* for, and no two attributes of a field claim the same rule: the adapter that runs
\* later would replace what the other one set.
ASSUME PagesAssumption ==
    \A page \in Pages, f \in Fields :
        /\ \A a \in DOMAIN page[f] \cap {"length", "minlength", "maxlength"} :
              \E D \in SUBSET {"min", "max"} : page[f][a] \in [D -> Nat]
        /\ "minlength" \in DOMAIN page[f] => "max" \notin DOMAIN page[f]["minlength"]
        /\ "maxlength" \in DOMAIN page[f] => "min" \notin DOMAIN page[f]["maxlength"]
        /\ "length" \in DOMAIN page[f] =>
              /\ DOMAIN page[f]["length"] = {"min"} => "minlength" \notin DOMAIN page[f]
              /\ DOMAIN page[f]["length"] = {"max"} => "maxlength" \notin DOMAIN page[f]

VARIABLES
    attrs,     \* the page: the attributes of each field
    options,   \* data("unobtrusiveValidation").options.rules, on the fields parsed
    settings,  \* validator.settings.rules, copied when the validator was built
    form       \* the form, its containers and the rest of the validator

vars == <<attrs, options, settings, form>>

Lengths(field) == 0..MaxLength[field]

With(map, key, value) == [k \in DOMAIN map \cup {key} |-> IF k = key THEN value ELSE map[k]]

Rules == {"required", "minlength", "maxlength", "rangelength", "__dummy__", "remote"}

\* The order of a field's rules: the one the "length" adapter set, those of the
\* "minlength" and "maxlength" adapters, the dummy; rules() moves "required" to the
\* front and "remote" to the back.
RuleOrder(field) ==
    IF "length" \in DOMAIN attrs[field] /\ DOMAIN attrs[field]["length"] = {"max"}
    THEN <<"required", "rangelength", "maxlength", "minlength", "__dummy__", "remote">>
    ELSE <<"required", "rangelength", "minlength", "maxlength", "__dummy__", "remote">>

(***************************************************************************)
(* Adapters: from the attributes of a field to its rules.                  *)
(***************************************************************************)
setValidationValues(rules, ruleName, value) == With(rules, ruleName, value)

addMinMax(rules, params, minRule, maxRule, minMaxRule) ==
    CASE DOMAIN params = {"min", "max"} ->
            setValidationValues(rules, minMaxRule, <<params["min"], params["max"]>>)
      [] DOMAIN params = {"min"} -> setValidationValues(rules, minRule, params["min"])
      [] DOMAIN params = {"max"} -> setValidationValues(rules, maxRule, params["max"])
      [] OTHER -> rules

adapt(rules, adapter, field, params) ==
    CASE adapter = "length"    -> addMinMax(rules, params, "minlength", "maxlength", "rangelength")
      [] adapter = "minlength" -> addMinMax(rules, params, "minlength", "undefined", "undefined")
      [] adapter = "maxlength" -> addMinMax(rules, params, "minlength", "maxlength", "undefined")
      [] adapter = "required"  -> setValidationValues(rules, "required", TRUE)
      [] adapter = "remote"    -> setValidationValues(rules, "remote", Additional[field])

\* The adapters run in the order of their registration.
Adapted(field) ==
    LET apply(rules, a) ==
            IF a \in DOMAIN attrs[field] THEN adapt(rules, a, field, attrs[field][a]) ELSE rules
        limited == apply(apply(apply(<<>>, "length"), "minlength"), "maxlength")
    IN apply(apply(limited, "required"), "remote")

parseWithoutDummy(field) == Adapted(field)   \* mutant

\* parseElement: the rules of a field, which are never none.
parseElement(field) == setValidationValues(Adapted(field), "__dummy__", TRUE)

(***************************************************************************)
(* Checking a field.                                                       *)
(***************************************************************************)
\* The methods that look at the text alone; all but "required" accept a blank.
Satisfies(rule, param, length) ==
    CASE rule = "required"    -> length > 0
      [] rule = "minlength"   -> length = 0 \/ length >= param
      [] rule = "maxlength"   -> length = 0 \/ length <= param
      [] rule = "rangelength" -> length = 0 \/ length \in param[1]..param[2]
      [] rule \in {"__dummy__", "remote"} -> TRUE

\* What the "remote" rule compares and sends: the field's own value, and those of
\* the additional fields.
DataOf(p, field) == [g \in settings[field]["remote"] \cup {field} |-> p.value[g]]

\* The one that comes first of some rules of a field.
FirstRule(field, rules) ==
    LET order == RuleOrder(field)
    IN order[Min({i \in DOMAIN order : order[i] \in rules})]

\* check: the first rule broken, "pending" when the server has to be asked,
\* "skipped" when nothing is to be said of the field, or "passed".
check(p, field) ==
    IF field \notin DOMAIN settings THEN "skipped"
    ELSE LET rules == settings[field]
             broken == {r \in DOMAIN rules : ~Satisfies(r, rules[r], p.value[field])}
             previous == p.previous[field]
         IN CASE broken # {} -> FirstRule(field, broken)
              [] broken = {} /\ p.value[field] = 0 ->
                    IF "__dummy__" \notin DOMAIN rules /\ Cardinality(DOMAIN rules) = 1
                    THEN "skipped" ELSE "passed"
              [] broken = {} /\ p.value[field] > 0 ->
                    CASE "remote" \notin DOMAIN rules -> "passed"
                      [] "remote" \in DOMAIN rules /\ previous.old # {DataOf(p, field)} -> "pending"
                      [] OTHER -> IF previous.valid THEN "passed" ELSE "remote"

\* Checks a set of fields after a reset of the lists.  A field that has to wait
\* asks the server; its request takes the place of the one it had in flight.
CheckAll(p, fields) ==
    LET result == [f \in fields |-> check(p, f)]
        failed == {f \in fields : result[f] \in Rules}
        waiting == {f \in fields : result[f] = "pending"}
    IN [p EXCEPT
          !.errorMap = [f \in failed |-> result[f]],
          !.successList = {f \in fields : result[f] = "passed"},
          !.submitted = @ \cup failed,
          !.previous = [f \in Fields |->
                IF f \in waiting THEN [@[f] EXCEPT !.old = {DataOf(p, f)}] ELSE @[f]],
          !.request = [f \in Fields |->
                IF f \in waiting THEN {[data |-> DataOf(p, f), detached |-> FALSE]} ELSE @[f]],
          !.pending = @ \cup waiting,
          !.verdict = [f \in Fields |->
                CASE f \in failed -> result[f]
                  [] f \in (fields \cap DOMAIN settings) \ (failed \cup waiting) -> "passed"
                  [] OTHER -> @[f]]]

valid(p) == DOMAIN p.errorMap = {}

(***************************************************************************)
(* Showing the outcome.                                                    *)
(***************************************************************************)
\* onError, for each field with its message.
onError(p, messages) ==
    [p EXCEPT !.container = [f \in Fields |-> IF f \in DOMAIN messages THEN "error" ELSE @[f]],
              !.text = [f \in Fields |->
                    IF f \in DOMAIN messages \cap Replace THEN messages[f] ELSE @[f]]]

\* onErrors: only a failed submission fills the summary.
onErrorsAppends(p) ==   \* mutant: the list is not emptied first
    IF valid(p) THEN p ELSE [p EXCEPT !.summary.class = "errors",
                                      !.summary.list = @ \cup DOMAIN p.errorMap]

onErrors(p) ==
    IF valid(p) THEN p ELSE [p EXCEPT !.summary = [class |-> "errors", list |-> DOMAIN p.errorMap]]

\* onSuccess, for each field of a set.
onSuccess(p, fields) ==
    [p EXCEPT !.container = [f \in Fields |-> IF f \in fields THEN "valid" ELSE @[f]],
              !.text = [f \in Fields |-> IF f \in fields \cap Replace THEN "empty" ELSE @[f]]]

\* defaultShowErrors and showLabel.  onError takes the error class off the label
\* or leaves it out of the page, so no label is found again: every one shown is
\* a new one and goes through onError, a success through onSuccess after it.
showErrors(p) ==
    LET labels == [f \in p.successList |-> "empty"]
    IN onSuccess(onError(onError(p, p.errorMap), labels), p.successList)

(***************************************************************************)
(* The validator's entry points.                                           *)
(***************************************************************************)
\* elements(): those of the form that have rules.
elements(p) == {f \in p.present \cap DOMAIN settings : settings[f] # <<>>}

validateForm(p) ==
    LET checked == CheckAll(p, elements(p))
    IN showErrors(onErrors([checked EXCEPT !.invalid = DOMAIN checked.errorMap]))

validateElement(p, field) ==
    showErrors([CheckAll(p, {field}) EXCEPT !.invalid = @ \cup {field}])

onSubmitImpatient(p) ==   \* mutant: pending answers are not waited for
    LET checked == validateForm(p) IN [checked EXCEPT !.sent = valid(checked)]

\* The "submit" handler: the form is sent if it is valid and nothing is pending.
onSubmit(p) ==
    LET checked == validateForm(p)
    IN CASE ~valid(checked) -> checked
         [] valid(checked) /\ checked.pending # {} -> [checked EXCEPT !.formSubmitted = TRUE]
         [] OTHER -> [checked EXCEPT !.sent = TRUE]

\* stopRequest: with the last answer, a submission that waited is taken up.
\* pendingRequest counts the members of pending.
stopRequest(p, field, answer) ==
    LET stopped == [p EXCEPT !.pending = @ \ {field}]
        checked == validateForm(stopped)
    IN CASE stopped.pending # {} \/ ~stopped.formSubmitted -> stopped
         [] stopped.pending = {} /\ stopped.formSubmitted /\ answer ->
                IF valid(checked) THEN [onSubmit(checked) EXCEPT !.formSubmitted = FALSE]
                                  ELSE checked
         [] OTHER -> [onErrors(stopped) EXCEPT !.formSubmitted = FALSE]

(***************************************************************************)
(* Initially the document is loaded and nothing has been parsed.           *)
(***************************************************************************)
BlankForm ==
    [ present |-> Rendered,
      value |-> [f \in Fields |-> 0],
      container |-> [f \in Fields |-> "valid"],
      text |-> [f \in Fields |-> "empty"],
      summary |-> [class |-> "valid", list |-> {}],
      errorMap |-> <<>>, successList |-> {}, submitted |-> {}, invalid |-> {},
      previous |-> [f \in Fields |-> [old |-> {}, valid |-> TRUE]],
      request |-> [f \in Fields |-> {}],
      pending |-> {}, formSubmitted |-> FALSE, sent |-> FALSE,
      verdict |-> [f \in Fields |-> "none"] ]   \* history: the validator's latest word

Init ==
    /\ attrs \in Pages
    /\ options = <<>>
    /\ settings = <<>>
    /\ form = BlankForm

attached == settings # <<>>

\* parse(document): every field is parsed, then validate() builds the validator
\* with a copy of the options.
Ready ==
    /\ ~attached
    /\ options' = [f \in form.present |-> parseElement(f)]
    /\ settings' = options'
    /\ UNCHANGED <<attrs, form>>

\* A script adds a field and calls parse for it.  The form keeps its options and
\* its validator: validate() returns the one there is.
AddField(f) ==
    /\ attached /\ ~form.sent
    /\ f \in Fields \ form.present
    /\ form' = [form EXCEPT !.present = @ \cup {f}]
    /\ options' = With(options, f, parseElement(f))
    /\ UNCHANGED <<attrs, settings>>

Handle(next) ==
    /\ attached /\ ~form.sent
    /\ form' = next
    /\ UNCHANGED <<attrs, options, settings>>

\* The user types; onkeyup looks again at a field that has been in error.
Type(f, length) ==
    /\ f \in form.present /\ length # form.value[f]
    /\ LET typed == [form EXCEPT !.value[f] = length]
       IN Handle(IF f \in form.submitted \cup form.invalid THEN validateElement(typed, f) ELSE typed)

\* The user pastes or drops a text: no key is released.
Paste(f, length) ==
    /\ f \in form.present /\ length # form.value[f]
    /\ Handle([form EXCEPT !.value[f] = length])

\* onfocusout
Blur(f) ==
    /\ f \in form.present
    /\ f \in form.submitted \/ form.value[f] > 0
    /\ Handle(validateElement(form, f))

Submit == Handle(onSubmit(form))

onResetKeepsAnswers(p) ==   \* mutant: previousValue survives
    [BlankForm EXCEPT !.present = p.present, !.text = p.text, !.previous = p.previous,
                      !.summary.list = p.summary.list, !.pending = p.pending,
                      !.request = p.request, !.formSubmitted = p.formSubmitted]

\* onReset: resetForm clears the validator's lists and the answers remembered on
\* its elements; then the summary and the containers are marked valid, their
\* texts stay.  A request in flight goes on, cut off from what is remembered.
onReset(p) ==
    [p EXCEPT
       !.invalid = {}, !.submitted = {}, !.errorMap = <<>>, !.successList = {},
       !.previous = [f \in Fields |->
             IF f \in elements(p) THEN [old |-> {}, valid |-> TRUE] ELSE @[f]],
       !.request = [f \in Fields |->
             IF f \in elements(p) THEN {[r EXCEPT !.detached = TRUE] : r \in @[f]} ELSE @[f]],
       !.summary.class = "valid",
       !.container = [f \in Fields |-> "valid"],
       !.verdict = [f \in Fields |-> "none"]]

\* The handler runs, then the browser puts the fields back.
Reset == Handle([onReset(form) EXCEPT !.value = [f \in Fields |-> 0]])

\* The success callback of the "remote" rule's request.  A refusal is added to
\* the lists of the latest validation, an approval replaces them.
shown(p, f, answer) ==
    LET request == CHOOSE r \in p.request[f] : TRUE
        listed == IF answer
                  THEN [p EXCEPT !.errorMap = <<>>, !.successList = {f}]
                  ELSE [p EXCEPT !.errorMap = With(@, f, "remote"), !.successList = @ \ {f}]
    IN [showErrors(listed) EXCEPT
          !.request[f] = {},
          !.previous[f].valid = IF request.detached THEN @ ELSE answer,
          !.verdict[f] = IF answer THEN "passed" ELSE "remote"]

\* On its own, shown would be a mutant: the field is not marked as looked at.
answered(p, f, answer) == [shown(p, f, answer) EXCEPT !.invalid = @ \cup {f}]

Answer(f) ==
    \E r \in form.request[f] :
        LET answer == r.data \notin Rejected
        IN Handle(stopRequest(answered(form, f, answer), f, answer))

\* The request fails: the rule has no error callback, the field stays pending.
LoseAnswer(f) ==
    /\ form.request[f] # {}
    /\ Handle([form EXCEPT !.request[f] = {}])

Next ==
    \/ Ready
    \/ \E f \in Fields : AddField(f)
    \/ \E f \in Fields : \E length \in Lengths(f) : Type(f, length) \/ Paste(f, length)
    \/ \E f \in Fields : Blur(f)
    \/ Submit
    \/ Reset
    \/ \E f \in Fields : Answer(f) \/ LoseAnswer(f)

Spec == Init /\ [][Next]_vars

(***************************************************************************)
(* Properties.                                                             *)
(***************************************************************************)
Texts == UNION {Lengths(f) : f \in Fields}
Datas == UNION {[S -> Texts] : S \in SUBSET Fields}
Forms ==
    [ present : SUBSET Fields,
      value : [Fields -> Texts],
      container : [Fields -> {"valid", "error"}],
      text : [Fields -> Rules \cup {"empty"}],
      summary : [class : {"valid", "errors"}, list : SUBSET Fields],
      errorMap : UNION {[S -> Rules] : S \in SUBSET Fields},
      successList : SUBSET Fields, submitted : SUBSET Fields, invalid : SUBSET Fields,
      previous : [Fields -> [old : SUBSET Datas, valid : BOOLEAN]],
      request : [Fields -> SUBSET [data : Datas, detached : BOOLEAN]],
      pending : SUBSET Fields, formSubmitted : BOOLEAN, sent : BOOLEAN,
      verdict : [Fields -> Rules \cup {"none", "passed"}] ]

\* Every variable has its type; a request in flight is one that is pending, and
\* every field of the validator has been parsed.
TypeOK ==
    /\ attrs \in Pages
    /\ DOMAIN settings \subseteq DOMAIN options /\ DOMAIN options \subseteq form.present
    /\ form \in Forms
    /\ \A f \in Fields : form.value[f] \in Lengths(f)
    /\ \A f \in Fields : form.request[f] # {} => f \in form.pending

\* What the attributes of a field ask of a form, whatever the rules made of them.
Meets(field) ==
    LET length == form.value[field]
        limits == {attrs[field][a] : a \in DOMAIN attrs[field] \cap {"length", "minlength", "maxlength"}}
    IN /\ "required" \in DOMAIN attrs[field] => length > 0
       /\ length > 0 =>
            /\ \A l \in limits : "min" \in DOMAIN l => length >= l["min"]
            /\ \A l \in limits : "max" \in DOMAIN l => length <= l["max"]
            /\ "remote" \in DOMAIN attrs[field] =>
                  [g \in Additional[field] \cup {field} |-> form.value[g]] \notin Rejected

\* A form is sent only with values that meet the attributes of every field the
\* validator was built with, also when it is sent by an answer that arrives
\* after edits, resets and lost answers.
SentIsValid == form.sent => \A f \in DOMAIN settings : Meets(f)

\* A container is marked as an error exactly while the validator's latest word
\* on its field is a broken rule, and a replaced text names that rule: no
\* verdict is left standing by a field that has become valid or blank.
ContainerShowsVerdict ==
    \A f \in Fields :
        /\ form.container[f] = "error" <=> form.verdict[f] \in Rules
        /\ form.container[f] = "error" /\ f \in Replace => form.text[f] = form.verdict[f]

\* The latest request of a field has failed: the field is counted as waiting and
\* nothing is on its way.
Lost(p, f) == f \in p.pending /\ p.request[f] = {}

\* An error that is shown goes away by typing: its field is one that onkeyup
\* validates.  Only a refusal by the server may be left to the answer to a request
\* in flight, and stays as it is when that request has been lost.
ErrorsAreRechecked ==
    \A f \in Fields : form.container[f] = "error" =>
        \/ f \in form.submitted \cup form.invalid
        \/ form.verdict[f] = "remote" /\ (form.request[f] # {} \/ Lost(form, f))

(***************************************************************************)
(* The inductive invariant behind the properties above, of a form at rest  *)
(* between two handlers.                                                   *)
(***************************************************************************)
\* The containers show the verdicts.
Marked(p) ==
    \A f \in Fields :
        /\ p.container[f] = "error" <=> p.verdict[f] \in Rules
        /\ p.container[f] = "error" /\ f \in Replace => p.text[f] = p.verdict[f]

\* The lists of the latest validation, to which a refusal by the server is added
\* and from which all of them are shown again, hold no verdict that was overtaken.
Listed(p) ==
    \A f \in Fields :
        /\ f \in DOMAIN p.errorMap => p.verdict[f] = p.errorMap[f]
        /\ f \in p.successList => p.verdict[f] = "passed"

\* A broken rule is one of a field of the validator, and was noted when it was found;
\* a refusal by the server was noted too, until its field is asked about anew.
Rechecked(p) ==
    \A f \in Fields : p.verdict[f] \in Rules =>
        /\ f \in DOMAIN settings
        /\ f \in p.submitted \/ (p.verdict[f] = "remote" /\ f \in p.invalid \cup p.pending)

\* A request in flight is the latest of its field, or cut off by a reset; an answer
\* that is remembered and not awaited is the server's.
Remembered(p) ==
    \A f \in Fields :
        /\ f \notin DOMAIN settings =>
              p.previous[f] = [old |-> {}, valid |-> TRUE] /\ p.request[f] = {}
        /\ \A q \in p.request[f] :
              p.request[f] = {q} /\ p.previous[f].old = IF q.detached THEN {} ELSE {q.data}
        /\ f \notin p.pending /\ p.previous[f].valid => p.previous[f].old \cap Rejected = {}

\* A form that is sent has passed the rules of every field, and nothing is awaited.
SentPassed(p) ==
    p.sent => p.pending = {} /\ \A f \in DOMAIN settings : check(p, f) = "passed"

Inv ==
    /\ TypeOK
    /\ \A f \in DOMAIN settings : settings[f] = parseElement(f)
    /\ Marked(form) /\ Listed(form) /\ Rechecked(form) /\ Remembered(form)
    /\ SentPassed(form) /\ (form.sent => attached)

\* A submission that is not sent is waiting for an answer, or the summary lists
\* the very fields that failed, each of them marked, none left over.
RefusalIsExplained ==
    [][Submit =>
         \/ form'.sent
         \/ form'.pending # {} /\ form'.formSubmitted
         \/ /\ form'.summary = [class |-> "errors", list |-> DOMAIN form'.errorMap]
            /\ form'.summary.list # {}
            /\ \A f \in form'.summary.list : form'.container[f] = "error"]_vars

\* After a reset nothing is remembered of what was validated before it, but for
\* the texts and the count of what is on its way; every request in flight is cut
\* off, so that its answer is not remembered either.
ResetForgets ==
    [][Reset => form' = [BlankForm EXCEPT
                            !.present = form.present, !.text = form.text,
                            !.summary.list = form.summary.list, !.pending = form.pending,
                            !.request = [f \in Fields |->
                                {[r EXCEPT !.detached = TRUE] : r \in form.request[f]}],
                            !.formSubmitted = form.formSubmitted]]_vars
=============================================================================
