----------------------------- MODULE RunOutcome -----------------------------
(***************************************************************************)
(* What one attempt of a run promises about its rows, with no wire, no     *)
(* adapter and no timeouts in sight: the failure policy of                 *)
(* meowbench/runner.py, in order of blast radius.                          *)
(***************************************************************************)
EXTENDS Naturals

CONSTANTS Envs, Items, EnvOf, None

VARIABLES
    rows,    \* the status of each item, while it is undecided "none", or
             \* "earlier" if an attempt before this one left it a row
    open,    \* the environment whose items are being asked
    ended    \* "no", or how the attempt ended

vars == <<rows, open, ended>>

Undecided == {i \in Items : rows[i] \in {"none", "earlier"}}

UndecidedIn(e) == {i \in Undecided : EnvOf[i] = e}

GiveUp(S) == rows' = [i \in Items |-> IF i \in S THEN "error" ELSE rows[i]]

Init ==
    /\ rows \in [Items -> {"none", "earlier", "ok"}]
    /\ open = None
    /\ ended = "no"

\* An environment was ingested: its items will now be asked.
Open(e) ==
    /\ ended = "no"
    /\ open = None
    /\ UndecidedIn(e) # {}
    /\ open' = e
    /\ UNCHANGED <<rows, ended>>

\* One item of the open environment is decided on its own.
Decide(i, status) ==
    /\ ended = "no"
    /\ open = EnvOf[i]
    /\ i \in Undecided
    /\ rows' = [rows EXCEPT ![i] = status]
    /\ UNCHANGED <<open, ended>>

\* An environment is left only when all its items are decided.
Leave ==
    /\ ended = "no"
    /\ open # None
    /\ UndecidedIn(open) = {}
    /\ open' = None
    /\ UNCHANGED <<rows, ended>>

\* An environment that is not ingested fails as a whole, before any question.
FailEnv(e) ==
    /\ ended = "no"
    /\ open = None
    /\ UndecidedIn(e) # {}
    /\ GiveUp(UndecidedIn(e))
    /\ UNCHANGED <<open, ended>>

\* The attempt ends; it completes only with every item decided.
End(how) ==
    /\ ended = "no"
    /\ how = "completed" => open = None /\ Undecided = {}
    /\ ended' = how
    /\ open' = None
    /\ UNCHANGED rows

\* After a crash every item without a row is an error; an earlier attempt's row
\* of an item left over stays.
RecordRest ==
    /\ ended = "crashed"
    /\ GiveUp({i \in Items : rows[i] = "none"})
    /\ UNCHANGED <<open, ended>>

Next ==
    \/ \E e \in Envs : Open(e) \/ FailEnv(e)
    \/ \E i \in Items, status \in {"ok", "timeout", "malformed"} : Decide(i, status)
    \/ Leave
    \/ \E how \in {"completed", "crashed", "aborted"} : End(how)
    \/ RecordRest

Spec == Init /\ [][Next]_vars
=============================================================================
