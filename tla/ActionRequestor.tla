-------------------------- MODULE ActionRequestor --------------------------
(***************************************************************************)
(* What an action requestor promises, whatever transport carries its       *)
(* requests: it has one request outstanding at a time, it never uses a     *)
(* correlation id twice, and it reports a request as answered only if      *)
(* something that counts as an answer has come back for that very request. *)
(* An answer may still arrive after the requestor gave the request up, and *)
(* is then reported; a failure after the answer is reported as well.  What *)
(* counts as an answer is for the implementation to say, and it need not   *)
(* mean that the method was called.                                        *)
(***************************************************************************)
CONSTANT Requests

VARIABLES
    state,      \* the requestor's latest report of each request
    returned    \* the requests an answer has come back for

States == {"unsent", "outstanding", "answered", "abandoned"}

TypeOK ==
    /\ state \in [Requests -> States]
    /\ returned \subseteq Requests

Init ==
    /\ state = [r \in Requests |-> "unsent"]
    /\ returned = {}

\* The requestor issues a request; none may be outstanding.
Send(r) ==
    /\ state[r] = "unsent"
    /\ \A q \in Requests : state[q] # "outstanding"
    /\ state' = [state EXCEPT ![r] = "outstanding"]
    /\ UNCHANGED returned

\* An answer to a request that was issued comes back, even if the requestor has
\* given up on it.
Return(r) ==
    /\ state[r] # "unsent"
    /\ returned' = returned \cup {r}
    /\ UNCHANGED state

\* The requestor reports the answer to a request.
Answer(r) ==
    /\ state[r] \in {"outstanding", "abandoned"}
    /\ r \in returned
    /\ state' = [state EXCEPT ![r] = "answered"]
    /\ UNCHANGED returned

\* The requestor gives a request up, or reports a failure after its answer.
Abandon(r) ==
    /\ state[r] \in {"outstanding", "answered"}
    /\ state' = [state EXCEPT ![r] = "abandoned"]
    /\ UNCHANGED returned

Next == \E r \in Requests : Send(r) \/ Return(r) \/ Answer(r) \/ Abandon(r)

Spec == Init /\ [][Next]_<<state, returned>>
=============================================================================
