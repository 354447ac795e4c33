------------------------------- MODULE RunStore -------------------------------
(***************************************************************************)
(* What a run leaves on disk, over several attempts at one run id:         *)
(* the SQLite store (meowbench/store.py), which decides what a resumed     *)
(* attempt asks again, and predictions.jsonl (meowbench/artifacts.py),     *)
(* which is what gets scored. Runner.run writes both, one after the other, *)
(* and may be killed anywhere in between, in the middle of a line too.     *)
(*                                                                         *)
(* Which status an item ends with, and in which order, is Conversation's   *)
(* business; here both are arbitrary.                                      *)
(***************************************************************************)
EXTENDS Naturals, Sequences

CONSTANTS
    Items,         \* the items of the suite
    Failed,        \* statuses other than "ok" a question can end with
    MaxAttempts,   \* bound: attempts at the run id
    MayKill        \* whether the harness may be killed

ASSUME RunStoreAssumption ==
    /\ "error" \in Failed
    /\ {"none", "ok"} \cap Failed = {}
    /\ MaxAttempts \in Nat
    /\ MayKill \in BOOLEAN

Statuses == {"ok"} \cup Failed

Rows == [item : Items, status : Statuses]

VARIABLES
    store,      \* predictions table: status of each item, "none" if no row
    run,        \* the runs row: finished_at set, revocation_contested
    lines,      \* the rows that can be read from predictions.jsonl
    tail,       \* its end: "clean", or after a kill "open" (the last row has
                \* no newline) or "fragment" (a part of a row has none)
    phase,      \* where Runner.run is; "idle" between attempts
    resume,     \* RunConfig.resume of this attempt
    done,       \* items this attempt skips
    todo,       \* items this attempt still has to record
    pending,    \* the row in the store whose line is not yet written
    attempts,   \* attempts begun
    ended,      \* observation: how the latest attempt ended
    sawHandle,  \* observation: this attempt found a revocation contested
    inStep      \* observation: store and file agreed when it began

harness == <<phase, resume, done, todo, pending, attempts>>
observed == <<ended, sawHandle, inStep>>
vars == <<store, run, lines, tail, harness, observed>>

-----------------------------------------------------------------------------
(* The file. *)

\* read_predictions: the last row of an item wins.
LinesOf(i) == {n \in DOMAIN lines : lines[n].item = i}

Scored(i) ==
    IF LinesOf(i) = {}
    THEN "none"
    ELSE lines[CHOOSE n \in LinesOf(i) : \A m \in LinesOf(i) : m <= n].status

\* Text written after a line without newline joins that line, and what comes
\* of it is no JSON: read_jsonl skips it.
Spoilt == IF tail = "open" THEN SubSeq(lines, 1, Len(lines) - 1) ELSE lines

\* The items store and file tell differently.
Behind == {i \in Items : Scored(i) # store[i]}

Agree == tail = "clean" /\ Behind = {}

-----------------------------------------------------------------------------
Init ==
    /\ store = [i \in Items |-> "none"]
    /\ run = [finished |-> FALSE, contested |-> FALSE]
    /\ lines = <<>>
    /\ tail = "clean"
    /\ phase = "idle"
    /\ resume = TRUE
    /\ done = {}
    /\ todo = {}
    /\ pending = <<>>
    /\ attempts = 0
    /\ ended = "none"
    /\ sawHandle = FALSE
    /\ inStep = TRUE

\* Mutant of Answered: what to skip is read from predictions.jsonl.
AnsweredByLine == {i \in Items : Scored(i) = "ok"}

\* Store.completed_items, the resume set.
Answered == {i \in Items : store[i] = "ok"}

\* Store.upsert_run: neither caller sets finished_at or revocation_contested,
\* so both are reset.
UpsertRun == run' = [finished |-> FALSE, contested |-> FALSE]

\* Runner.run down to the first upsert_run.
Begin(again) ==
    /\ phase = "idle"
    /\ attempts < MaxAttempts
    /\ attempts' = attempts + 1
    /\ resume' = again
    /\ done' = IF again THEN Answered ELSE {}
    /\ todo' = Items \ done'
    /\ UpsertRun
    /\ phase' = "begun"
    /\ ended' = "none"
    /\ sawHandle' = FALSE
    /\ inStep' = Agree
    /\ UNCHANGED <<store, lines, tail, pending>>

\* Mutants of OpenWriter: a fresh attempt appends; a resumed one truncates.
OpenWriterToAppend ==
    /\ phase = "begun"
    /\ phase' = "hello"
    /\ UNCHANGED <<store, run, lines, tail, resume, done, todo, pending,
                   attempts, observed>>

OpenWriterToTruncate ==
    /\ phase = "begun"
    /\ lines' = <<>>
    /\ tail' = "clean"
    /\ phase' = "hello"
    /\ UNCHANGED <<store, run, resume, done, todo, pending, attempts, observed>>

\* JsonlWriter: append when resuming, truncate when not.
OpenWriter ==
    /\ phase = "begun"
    /\ lines' = IF resume THEN lines ELSE <<>>
    /\ tail' = IF resume THEN tail ELSE "clean"
    /\ phase' = "hello"
    /\ UNCHANGED <<store, run, resume, done, todo, pending, attempts, observed>>

\* The system is ready: the run row is upserted with its id.
Handshake ==
    /\ phase = "hello"
    /\ UpsertRun
    /\ phase' = "asking"
    /\ UNCHANGED <<store, lines, tail, resume, done, todo, pending, attempts,
                   observed>>

\* revoke found a handle (memory mode).
Contest ==
    /\ phase = "asking"
    /\ pending = <<>>
    /\ todo # {}
    /\ run' = [run EXCEPT !.contested = TRUE]
    /\ sawHandle' = TRUE
    /\ UNCHANGED <<store, lines, tail, harness, ended, inStep>>

\* _persist, first half: the store row is committed.
Record(i, status) ==
    /\ phase \in {"asking", "crashed"}
    /\ phase = "crashed" => status = "error"
    /\ pending = <<>>
    /\ i \in todo
    /\ store' = [store EXCEPT ![i] = status]
    /\ pending' = <<[item |-> i, status |-> status]>>
    /\ UNCHANGED <<run, lines, tail, phase, resume, done, todo, attempts,
                   observed>>

\* _persist, second half: the line is written and flushed.
WriteLine ==
    /\ pending # <<>>
    /\ lines' = IF tail = "clean" THEN lines \o pending ELSE Spoilt
    /\ tail' = "clean"
    /\ todo' = todo \ {pending[1].item}
    /\ pending' = <<>>
    /\ UNCHANGED <<store, run, phase, resume, done, attempts, observed>>

\* Mutant of Crash: rows that are there but not "ok" are recorded again.
CrashRecordsAgain ==
    /\ phase \in {"hello", "asking"}
    /\ pending = <<>>
    /\ todo' = {i \in Items : store[i] # "ok"} \ done
    /\ phase' = "crashed"
    /\ UNCHANGED <<store, run, lines, tail, resume, done, pending, attempts,
                   observed>>

\* AdapterCrashed: _record_unattempted will record the items that have no row
\* in the store, whichever attempt the row is from.
Crash ==
    /\ phase \in {"hello", "asking"}
    /\ pending = <<>>
    /\ todo' = {i \in Items : store[i] = "none"} \ done
    /\ phase' = "crashed"
    /\ UNCHANGED <<store, run, lines, tail, resume, done, pending, attempts,
                   observed>>

\* Mutant of FinishRun: finished_at is set by writing the whole row anew.
FinishRunByUpsert == run' = [finished |-> TRUE, contested |-> FALSE]

FinishRun == run' = [run EXCEPT !.finished = TRUE]

\* The finally clause of Runner.run: after every item, after a crash, and on
\* the way out of run() with any other exception, an interrupt between the two
\* halves of _persist included. The line of that row is lost, unless the text was
\* already in the writer's buffer: then closing the writer is WriteLine.
Finish(how) ==
    /\ phase \in {"hello", "asking", "crashed"}
    /\ how \in {"completed", "crashed"} => pending = <<>> /\ todo = {}
    /\ how = "completed" => phase = "asking"
    /\ how = "crashed" => phase = "crashed"
    /\ FinishRun
    /\ phase' = "idle"
    /\ pending' = <<>>
    /\ ended' = how
    /\ UNCHANGED <<store, lines, tail, resume, done, todo, attempts, sawHandle,
                   inStep>>

\* The harness is killed, or the finally clause is not reached or not run to its
\* end: opening or closing the writer fails. Of the line being written nothing, a part, or all
\* but the newline may have reached the file.
Kill ==
    /\ MayKill
    /\ phase # "idle"
    /\ phase' = "idle"
    /\ pending' = <<>>
    /\ ended' = "killed"
    /\ \/ UNCHANGED <<lines, tail>>
       \/ /\ pending # <<>>
          /\ lines' = Spoilt
          /\ tail' = "fragment"
       \/ /\ pending # <<>>
          /\ tail = "clean"
          /\ lines' = lines \o pending
          /\ tail' = "open"
    /\ UNCHANGED <<store, run, resume, done, todo, attempts, sawHandle,
                   inStep>>

\* Bound: no attempt after the last.
Over ==
    /\ phase = "idle"
    /\ attempts = MaxAttempts
    /\ UNCHANGED vars

Next ==
    \/ \E again \in BOOLEAN : Begin(again)
    \/ OpenWriter
    \/ Handshake
    \/ Contest
    \/ \E i \in Items, status \in Statuses : Record(i, status)
    \/ WriteLine
    \/ Crash
    \/ \E how \in {"completed", "crashed", "aborted"} : Finish(how)
    \/ Kill
    \/ Over

Spec == Init /\ [][Next]_vars
-----------------------------------------------------------------------------
(* Properties. *)

\* The type of every variable.
TypeOK ==
    /\ store \in [Items -> Statuses \cup {"none"}]
    /\ run \in [finished : BOOLEAN, contested : BOOLEAN]
    /\ lines \in Seq(Rows)
    /\ tail \in {"clean", "open", "fragment"}
    /\ phase \in {"idle", "begun", "hello", "asking", "crashed"}
    /\ resume \in BOOLEAN
    /\ done \subseteq Items
    /\ todo \subseteq Items
    /\ pending \in {<<>>} \cup {<<r>> : r \in Rows}
    /\ attempts \in 0..MaxAttempts
    /\ ended \in {"none", "completed", "crashed", "aborted", "killed"}
    /\ sawHandle \in BOOLEAN
    /\ inStep \in BOOLEAN

\* Nothing is scored as answered that a resumed attempt would ask again: over
\* every kill and re-run, an "ok" line has its "ok" row (_persist writes the
\* store first; a fresh attempt truncates before it overwrites rows).
FileNeverAhead == \A i \in Items : Scored(i) = "ok" => store[i] = "ok"

\* The doubled n of runner.py:128 cannot come back: while a fresh attempt
\* writes, no item has two lines, whatever the attempts before it left.
NoDoubleCounting ==
    ~resume /\ phase \in {"hello", "asking", "crashed"} =>
        \A i \in Items : \A m, n \in LinesOf(i) : m = n

\* A fresh attempt that completes repairs whatever kills did to the file: what
\* is scored is what the store holds.
FreshRunHeals ==
    phase = "idle" /\ ended = "completed" /\ ~resume => Agree

\* A resumed attempt that begins with file and store in agreement ends with them
\* in agreement if it completes or crashes. Any other exception, a Ctrl-C say, may
\* come between the two writes of _persist: it costs one line and no more.
ResumePreservesAgreement ==
    phase = "idle" /\ resume /\ inStep /\ ended \in {"completed", "crashed", "aborted"}
        => /\ ended # "aborted" => Agree
           /\ tail = "clean"
           /\ \A i, j \in Behind : i = j

\* What an attempt observed of contested revocations is still in the run row
\* when the attempt has finished (Runner.run reads it back into the summary).
ContestedIsReported ==
    phase = "idle" /\ sawHandle /\ ended # "killed" => run.contested

\* finished_at belongs to the latest attempt: the row of an attempt that is
\* under way or was killed does not look finished.
FinishedIsCurrent == run.finished => phase = "idle" /\ ended # "killed"

\* A resumed attempt never loses an answer: no row that is "ok" is rewritten,
\* also by the error rows after a crash.
AnswersSurviveResume ==
    [][\A i \in Items : resume' /\ store[i] = "ok" => store'[i] = "ok"]_vars

\* store.py:191: "Latch the contested flag; once true it must never silently
\* clear."
ContestedIsLatched == [][run.contested => run'.contested]_vars

\* tests/test_runner.py:265: "A crash must not silently shrink the
\* denominator. Every item needs a row" - in the file that is scored.
CrashKeepsDenominator ==
    phase = "idle" /\ ended = "crashed" => \A i \in Items : Scored(i) # "none"

\* README.md:278, "one self-contained record per item", of a run that was
\* killed or interrupted and, as store.py:8 has it, resumed to completion.
ResumedRunIsWhole ==
    phase = "idle" /\ ended = "completed" => \A i \in Items : Scored(i) # "none"
=============================================================================
