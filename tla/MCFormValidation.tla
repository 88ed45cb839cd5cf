-------------------------- MODULE MCFormValidation --------------------------
(* An instance of FormValidation for TLC. *)
EXTENDS FormValidation

\* "name" and "code" are rendered with the page, "note" is added by a script.
\* Between them the pages use every adapter with every shape of its limits.
Plain == [note |-> [required |-> <<>>], code |-> [required |-> <<>>]]
MCPages ==
    { Plain @@ [name |-> [required |-> <<>>, length |-> [min |-> 1, max |-> 1], remote |-> <<>>]],
      [Plain EXCEPT !.code = [length |-> [max |-> 0], minlength |-> [min |-> 2]]]
            @@ [name |-> [length |-> [min |-> 2]]],
      [Plain EXCEPT !.code = [maxlength |-> [max |-> 1], remote |-> <<>>]]
            @@ [name |-> [length |-> [max |-> 1], remote |-> <<>>]] }

MCMaxLength == [name |-> 2, code |-> 1, note |-> 0]

\* The server looks at the name together with the code, and at the code alone.
MCAdditional == [name |-> {"code"}, code |-> {"code"}, note |-> {"note"}]
MCRejected == {[name |-> n, code |-> n] : n \in 1..2} \cup {[code |-> 1]}
=============================================================================
