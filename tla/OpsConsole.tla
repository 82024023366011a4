----------------------------- MODULE OpsConsole -----------------------------
(***************************************************************************)
(* The console as an operator uses it: the dashboard of KeyListing shows   *)
(* keys in three sections, each row has the buttons of protected.html, a   *)
(* button posts a form, and the form's handler runs a script on the key.   *)
(* Between the reading of the sections, the click and the script, other    *)
(* operators, clients and the admin API go on.                             *)
(*                                                                         *)
(* That the form's CSRF token is accepted is OpsForms' matter.             *)
(***************************************************************************)
EXTENDS KeyListing

CONSTANT MaxForms  \* bound: forms on their way at once

ASSUME MaxFormsAssumption == MaxForms \in Nat

VARIABLE posted  \* the forms whose script has still to run, or may run again

cvars == <<vars, posted>>

Actions == {"approve", "block", "delete"}

\* A form: the route it is posted to and its inputs `key` and `state`.  `ran`
\* is set once its script has run and a retry may run it again.  `section` and
\* `settled` are history: the section of its row, and whether its key was left
\* alone, by all but this form, since the dashboard began to be read.
Forms == [action : Actions, key : Keys, state : States \cup {Nil},
          ran : BOOLEAN, section : States, settled : BOOLEAN]

CTypeOK == TypeOK /\ posted \subseteq Forms

CInit == Init /\ posted = {}

-----------------------------------------------------------------------------

\* The buttons of a section's rows.
Buttons(section) == CASE section = "pending"    -> {"approve", "block"}
                      [] section = "authorized" -> {"block"}
                      [] section = "blocked"    -> {"approve", "delete"}

\* Mutant: the blocked section's forms carry no `state`.
StateInput_Missing(section) == IF section = "blocked" THEN Nil ELSE section

\* The hidden input of each form names the section it is in.
StateInput(section) == section

\* The dashboard as it is on the screen.
Shown == ~Reading /\ listing.route = "ops_auth" /\ ~listing.failed

Click(k, section, action) ==
  /\ Shown
  /\ listing.rows[<<k, section>>] > 0
  /\ action \in Buttons(section)
  /\ Cardinality(posted) < MaxForms
  /\ posted' = posted \cup
       {[action |-> action, key |-> k, state |-> StateInput(section),
         ran |-> FALSE, section |-> section, settled |-> since[k] = {section}]}
  /\ UNCHANGED vars

\* Mutant: the handlers do not read `state`.
from_state_Default(form) == "pending"

\* The state a move is to start from: a missing or unknown one is "pending".
from_state(form) == IF form.state \in States THEN form.state ELSE "pending"

\* The script a form's handler runs.
Run(form) ==
  \E reply \in {"OK", "not_found", "invalid_state"} :
    \/ /\ form.action = "approve"
       /\ transition(form.key, from_state(form), "authorized", reply)
    \/ /\ form.action = "block"
       /\ transition(form.key, from_state(form), "blocked", reply)
    \/ form.action = "delete" /\ delete(form.key, reply)

\* The other forms on a key whose state changes find it disturbed.
Disturbed(forms, k) ==
  {IF g.key = k /\ hash'[k].state # hash[k].state
     THEN [g EXCEPT !.settled = FALSE] ELSE g : g \in forms}

\* A form's script runs.  When its reply is lost, it runs once more.
Handle(form) ==
  /\ form \in posted
  /\ Run(form)
  /\ since' = [since EXCEPT ![form.key] = @ \cup {hash'[form.key].state}]
  /\ LET rest == Disturbed(posted \ {form}, form.key) IN
     \/ posted' = rest
     \/ ~form.ran /\ posted' = rest \cup {[form EXCEPT !.ran = TRUE]}
  /\ UNCHANGED listing

\* A form is lost or refused before its script runs, or its retry fails.
Lose(form) == /\ form \in posted
              /\ posted' = posted \ {form}
              /\ UNCHANGED vars

CNext == \/ \E k \in Keys, section \in States, action \in Actions :
              Click(k, section, action)
         \/ \E form \in posted : Handle(form) \/ Lose(form)
         \/ \E k \in Keys : Change(k) /\ posted' = Disturbed(posted, k)
         \/ /\ \/ \E route \in Routes : Begin(route)
               \/ ReadSet
               \/ Drop
               \/ Fail
            /\ UNCHANGED posted

CSpec == CInit /\ [][CNext]_cvars

-----------------------------------------------------------------------------

Target(action) == CASE action = "approve" -> "authorized"
                    [] action = "block"   -> "blocked"
                    [] action = "delete"  -> Nil

\* A button does what it says: when its form's script runs on a key that nobody
\* else has moved since the dashboard was read, the key ends in the state the
\* button names, also when a lost reply makes the script run twice.
ButtonsWork ==
  [][\A form \in posted :
       Handle(form) /\ form.settled
         => hash'[form.key].state = Target(form.action)]_cvars

\* A button never does what its row did not offer: a form moves a key only from
\* the section its row was in, so a key approved from the blocked section is
\* not authorized by that click once somebody else has deleted it and it has
\* registered anew, however late the form arrives.  A delete, which names no
\* state, removes its key from any.
OnlyWhatWasOffered ==
  [][\A form \in posted :
       Handle(form) /\ hash'[form.key].state # hash[form.key].state
         => /\ hash'[form.key].state = Target(form.action)
            /\ form.action # "delete" => hash[form.key].state = form.section]_cvars
=============================================================================
