---------------------------- MODULE Conversation ----------------------------
(***************************************************************************)
(* One attempt of a benchmark run: Runner.run driving one adapter process  *)
(* through AdapterProcess (meowbench/runner.py, meowbench/adapters/        *)
(* protocol.py), with the adapter behaving as AdapterBase.run does         *)
(* (meowbench/adapters/base.py).                                           *)
(*                                                                         *)
(* The harness and the adapter are two processes joined by two FIFO pipes. *)
(* The harness never waits for a line without a deadline, so it can give   *)
(* up on a request whose reply is still to come; everything delicate here  *)
(* follows from that late reply. It writes without a deadline: the pipe to *)
(* the adapter has room for so many requests, and a full one blocks.       *)
(*                                                                         *)
(* Environments, sessions and items are taken in any order: the code uses  *)
(* the order of the suite and of the manifest, and every order is the      *)
(* order of some suite.                                                    *)
(***************************************************************************)
EXTENDS Naturals, Sequences

CONSTANTS
    Envs,        \* environments the suite's items refer to
    Sessions,    \* session ids; unique within an environment only
    Items,       \* item ids
    SessionsOf,  \* SessionsOf[e]: the sessions of environment e
    EnvOf,       \* EnvOf[i]: the environment item i asks about
    Mode,        \* context_mode of the run
    Faults,      \* what the adapter or its surroundings may get wrong
    Expires,     \* which of the three timeouts may expire
    PipeRoom,    \* how many requests the adapter's stdin holds
    None         \* no environment, no session, no item

Modes == {"blind", "memory", "oracle"}

FaultKinds ==
    { "error",     \* a handler raises: non-fatal error message
      "fatal",     \* the adapter reports a fatal error and exits
      "garble",    \* an answer or an error message fails validation
      "exit",      \* the process dies
      "noise",     \* lines that are not protocol messages
      "nofile" }   \* a session's video is missing when it is staged

ASSUME ConversationAssumption ==
    /\ SessionsOf \in [Envs -> (SUBSET Sessions) \ {{}}]
    /\ EnvOf \in [Items -> Envs]
    /\ Mode \in Modes
    /\ Faults \subseteq FaultKinds
    /\ Expires \subseteq {"handshake", "ingest", "query"}
    /\ PipeRoom \in Nat \ {0}
    /\ None \notin Envs \cup Sessions \cup Items

VARIABLES
    pc,          \* where Runner.run is
    outcome,     \* how the with-block of Runner.run was left
    done,        \* items answered by an earlier attempt and skipped (resume)
    envsLeft,    \* environments still to run
    env,         \* the current environment
    toIngest,    \* its sessions still to ingest
    todo,        \* its items still to ask
    cur,         \* the session or item whose reply is awaited
    abandoned,   \* AdapterProcess._abandoned
    staged,      \* sessions of env whose staged copy can be read
    rows,        \* status of each item in the store: "none" if it has no row,
                 \* "earlier" if it has that of an attempt this one repeats
    toAdapter,   \* requests in the adapter's stdin
    toHarness,   \* lines in the adapter's stdout and in _LineReader
    alive,       \* the adapter process is running
    adapter,     \* the adapter's own view: the memory it answers from
    credit,      \* observation: the reply each "ok" row was made from
    clean        \* observation: nothing has put the pipes out of step

driver  == <<pc, outcome, envsLeft, env, toIngest, todo, cur>>
process == <<alive, adapter>>
vars == <<driver, done, abandoned, staged, rows, toAdapter, toHarness,
          process, credit, clean>>

-----------------------------------------------------------------------------
(* Messages. Only what the two sides branch on is kept. *)

Request(type, id) == [type |-> type, id |-> id]
Reply(type, id)   == [type |-> type, id |-> id]

\* An answer also remembers the memory it was produced from.
AnswerFrom(i, memory) == [type |-> "answer", id |-> i, memory |-> memory]

NoMemory == [env |-> None, seen |-> {}, sealed |-> FALSE]

\* A memory that has seen every session of environment e and was then sealed.
FullMemory(e) == [env |-> e, seen |-> SessionsOf[e], sealed |-> TRUE]

Sending == {"start", "env", "ingest", "seal", "ask"}
Waiting == {"ready", "ingesting", "sealing", "asking"}

\* The timeout that guards each wait.
Window == [ready |-> "handshake", ingesting |-> "ingest",
           sealing |-> "ingest",  asking |-> "query"]

\* What this attempt has not decided: resumed, items whose earlier status is not
\* ok; with --no-resume, all of them.
Open == {"none", "earlier"}

Pending(e) == {i \in Items : EnvOf[i] = e /\ i \notin done}

Init ==
    /\ rows \in [Items -> Open \cup {"ok"}]
    /\ done = {i \in Items : rows[i] = "ok"}
    /\ pc = "start"
    /\ outcome = "running"
    /\ envsLeft = {e \in Envs : Pending(e) # {}}
    /\ env = None
    /\ toIngest = {}
    /\ todo = {}
    /\ cur = None
    /\ abandoned = {}
    /\ staged = {}
    /\ toAdapter = <<>>
    /\ toHarness = <<>>
    /\ alive = TRUE
    /\ adapter = NoMemory
    /\ credit = [i \in Items |-> None]
    /\ clean = TRUE

-----------------------------------------------------------------------------
(* Harness: how a call ends badly. *)

\* The with-blocks are unwound: the staging area is destroyed and the run is
\* on its way to AdapterProcess.close.
Unwind(how) ==
    /\ outcome' = how
    /\ pc' = "closing"
    /\ staged' = {}
    /\ UNCHANGED <<envsLeft, env, toIngest, todo, cur>>

\* _record_env_failure and the return from _run_env: no env_end is sent.
FailEnv ==
    /\ rows' = [i \in Items |-> IF i \in todo THEN "error" ELSE rows[i]]
    /\ envsLeft' = envsLeft \ {env}
    /\ staged' = {}
    /\ pc' = "env"
    /\ cur' = None
    /\ todo' = {}
    /\ toIngest' = {}
    /\ UNCHANGED <<outcome, env>>

\* One query is over and its status is persisted.
Record(status) ==
    /\ rows' = [rows EXCEPT ![cur] = status]
    /\ todo' = todo \ {cur}
    /\ cur' = None
    /\ pc' = "ask"
    /\ UNCHANGED <<outcome, envsLeft, env, toIngest>>

\* _send blocks until the line is in the pipe.
HasRoom == Len(toAdapter) < PipeRoom

Send(type, id) ==
    /\ HasRoom
    /\ toAdapter' = Append(toAdapter, Request(type, id))

-----------------------------------------------------------------------------
(* Harness: sending. *)

\* _send to a process that is gone, or that goes while _send is blocked, raises
\* AdapterCrashed.
SendFails ==
    /\ pc \in Sending
    /\ pc = "env" => envsLeft # {}
    /\ ~alive
    /\ Unwind("crashed")
    /\ UNCHANGED <<done, abandoned, rows, toAdapter, toHarness, process,
                   credit, clean>>

Hello ==
    /\ pc = "start"
    /\ alive
    /\ Send("hello", None)
    /\ pc' = "ready"
    /\ UNCHANGED <<outcome, envsLeft, env, toIngest, todo, cur, done,
                   abandoned, staged, rows, toHarness, process, credit, clean>>

\* Entering _run_env. A query abandoned in an earlier environment may still
\* be answered: from here on its answer arrives out of place.
EnvBegin(e) ==
    /\ pc = "env"
    /\ alive
    /\ e \in envsLeft
    /\ Send("env_begin", e)
    /\ env' = e
    /\ toIngest' = SessionsOf[e]
    /\ todo' = Pending(e)
    /\ pc' = "ingest"
    /\ clean' = (clean /\ abandoned = {})
    /\ UNCHANGED <<outcome, envsLeft, cur, done, abandoned, staged, rows,
                   toHarness, process, credit>>

\* Stage one session and hand it over; blind mode stages nothing.
Ingest(s) ==
    /\ pc = "ingest"
    /\ alive
    /\ s \in toIngest
    /\ staged' = IF Mode = "blind" THEN {} ELSE staged \cup {s}
    /\ Send("ingest", s)
    /\ cur' = s
    /\ pc' = "ingesting"
    /\ UNCHANGED <<outcome, envsLeft, env, toIngest, todo, done, abandoned,
                   rows, toHarness, process, credit, clean>>

\* StagingArea.stage raises FileNotFoundError, which nobody in the run catches.
StagingFails ==
    /\ pc = "ingest"
    /\ "nofile" \in Faults
    /\ Mode # "blind"
    /\ Unwind("aborted")
    /\ UNCHANGED <<done, abandoned, rows, toAdapter, toHarness, process,
                   credit, clean>>

IngestEnd ==
    /\ pc = "seal"
    /\ alive
    /\ Send("ingest_end", env)
    /\ pc' = "sealing"
    /\ UNCHANGED <<outcome, envsLeft, env, toIngest, todo, cur, done,
                   abandoned, staged, rows, toHarness, process, credit, clean>>

Query(i) ==
    /\ pc = "ask"
    /\ alive
    /\ i \in todo
    /\ Send("query", i)
    /\ cur' = i
    /\ pc' = "asking"
    /\ UNCHANGED <<outcome, envsLeft, env, toIngest, todo, done, abandoned,
                   staged, rows, toHarness, process, credit, clean>>

\* Mutant of EnvEnd: the environment is left after its first question.
EnvEndEarly ==
    /\ pc = "ask"
    /\ alive
    /\ Send("env_end", env)
    /\ envsLeft' = envsLeft \ {env}
    /\ staged' = {}
    /\ pc' = "env"
    /\ UNCHANGED <<outcome, env, toIngest, todo, cur, done, abandoned, rows,
                   toHarness, process, credit, clean>>

\* env_end, and the staging area is destroyed on leaving its with-block.
EnvEnd ==
    /\ pc = "ask"
    /\ alive
    /\ todo = {}
    /\ Send("env_end", env)
    /\ envsLeft' = envsLeft \ {env}
    /\ staged' = {}
    /\ pc' = "env"
    /\ UNCHANGED <<outcome, env, toIngest, todo, cur, done, abandoned, rows,
                   toHarness, process, credit, clean>>

Finish ==
    /\ pc = "env"
    /\ envsLeft = {}
    /\ Unwind("completed")
    /\ UNCHANGED <<done, abandoned, rows, toAdapter, toHarness, process,
                   credit, clean>>

-----------------------------------------------------------------------------
(* Harness: receiving. *)

msg == Head(toHarness)

\* readline: lines already read come before the end of file.
Read ==
    /\ toHarness # <<>>
    /\ toHarness' = Tail(toHarness)

\* _recv: blank lines, non-JSON and messages without a type are skipped, and
\* the deadline starts afresh.
SkipNoise ==
    /\ pc \in Waiting
    /\ Read
    /\ msg.type = "noise"
    /\ UNCHANGED <<driver, done, abandoned, staged, rows, toAdapter, process,
                   credit, clean>>

\* _recv at end of file.
StreamClosed ==
    /\ pc \in Waiting
    /\ toHarness = <<>>
    /\ ~alive
    /\ Unwind("crashed")
    /\ UNCHANGED <<done, abandoned, rows, toAdapter, toHarness, process,
                   credit, clean>>

\* _expect: a fatal error is a crash wherever it is read.
FatalError ==
    /\ pc \in Waiting
    /\ Read
    /\ msg.type = "fatal"
    /\ Unwind("crashed")
    /\ UNCHANGED <<done, abandoned, rows, toAdapter, process, credit, clean>>

\* _expect: ErrorMsg.model_validate raises ValidationError, which is not a
\* ProtocolError; no handler of the run catches it.
GarbledError ==
    /\ pc \in Waiting
    /\ Read
    /\ msg.type = "bad_error"
    /\ Unwind("aborted")
    /\ UNCHANGED <<done, abandoned, rows, toAdapter, process, credit, clean>>

\* What every wait treats in its own way: a message that is neither skipped
\* nor handled above.
Ordinary == msg.type \notin {"noise", "fatal", "bad_error"}

Ready ==
    /\ pc = "ready"
    /\ Read
    /\ msg.type = "ready"
    /\ pc' = "env"
    /\ UNCHANGED <<outcome, envsLeft, env, toIngest, todo, cur, done,
                   abandoned, staged, rows, toAdapter, process, credit, clean>>

IngestDone ==
    /\ pc = "ingesting"
    /\ Read
    /\ msg.type = "ingest_done"
    /\ msg.id = cur
    /\ toIngest' = toIngest \ {cur}
    /\ cur' = None
    /\ pc' = IF toIngest' = {} THEN "seal" ELSE "ingest"
    /\ UNCHANGED <<outcome, envsLeft, env, todo, done, abandoned, staged,
                   rows, toAdapter, process, credit, clean>>

\* An error, a done for another session, or any other message while a
\* session's ingest_done is awaited.
IngestFails ==
    /\ pc = "ingesting"
    /\ Read
    /\ Ordinary
    /\ ~(msg.type = "ingest_done" /\ msg.id = cur)
    /\ FailEnv
    /\ UNCHANGED <<done, abandoned, toAdapter, process, credit, clean>>

\* Mutant of IngestEndAck: the revocation is forgotten.
IngestEndAckKeepsMedia ==
    /\ pc = "sealing"
    /\ Read
    /\ msg.type = "ingest_end_ack"
    /\ pc' = "ask"
    /\ UNCHANGED <<outcome, envsLeft, env, toIngest, todo, cur, done, staged,
                   abandoned, rows, toAdapter, process, credit, clean>>

\* The ack closes ingestion; memory mode then revokes the staged copies.
IngestEndAck ==
    /\ pc = "sealing"
    /\ Read
    /\ msg.type = "ingest_end_ack"
    /\ staged' = IF Mode = "memory" THEN {} ELSE staged
    /\ pc' = "ask"
    /\ UNCHANGED <<outcome, envsLeft, env, toIngest, todo, cur, done,
                   abandoned, rows, toAdapter, process, credit, clean>>

\* handshake and ingest_end are called outside every handler of ProtocolError:
\* a wrong message there leaves run() with an exception.
NotAcknowledged ==
    /\ \/ /\ pc = "ready"
          /\ Read
          /\ Ordinary
          /\ msg.type # "ready"
       \/ /\ pc = "sealing"
          /\ Read
          /\ Ordinary
          /\ msg.type # "ingest_end_ack"
    /\ Unwind("aborted")
    /\ UNCHANGED <<done, abandoned, rows, toAdapter, process, credit, clean>>

\* Mutant of Answer: whatever answer comes next is taken for the current item's.
AnswerAnyId ==
    /\ pc = "asking"
    /\ Read
    /\ msg.type = "answer"
    /\ credit' = [credit EXCEPT ![cur] = msg]
    /\ Record("ok")
    /\ UNCHANGED <<done, abandoned, staged, toAdapter, process, clean>>

Answer ==
    /\ pc = "asking"
    /\ Read
    /\ msg.type = "answer"
    /\ msg.id = cur
    /\ credit' = [credit EXCEPT ![cur] = msg]
    /\ Record("ok")
    /\ UNCHANGED <<done, abandoned, staged, toAdapter, process, clean>>

\* The late answer of a question already given up on is dropped.
LateAnswer ==
    /\ pc = "asking"
    /\ Read
    /\ msg.type = "answer"
    /\ msg.id # cur
    /\ msg.id \in abandoned
    /\ abandoned' = abandoned \ {msg.id}
    /\ UNCHANGED <<driver, done, staged, rows, toAdapter, process, credit,
                   clean>>

Malformed ==
    /\ pc = "asking"
    /\ Read
    /\ Ordinary
    /\ (msg.type = "answer" => msg.id \notin abandoned \cup {cur})
    /\ Record("malformed")
    /\ UNCHANGED <<done, abandoned, staged, toAdapter, process, credit, clean>>

\* readline: the deadline passes with no line to return.
Silence(pcs) ==
    /\ pc \in pcs
    /\ Window[pc] \in Expires
    /\ toHarness = <<>>
    /\ UNCHANGED toHarness

\* Mutants of QueryTimeout: the expired item is not remembered; it is
\* remembered only after the current item was reset.
QueryTimeoutForgets ==
    /\ Silence({"asking"})
    /\ Record("timeout")
    /\ UNCHANGED <<done, abandoned, staged, toAdapter, process, credit, clean>>

QueryTimeout ==
    /\ Silence({"asking"})
    /\ abandoned' = abandoned \cup {cur}
    /\ Record("timeout")
    /\ UNCHANGED <<done, staged, toAdapter, process, credit, clean>>

IngestTimeout ==
    /\ Silence({"ingesting"})
    /\ FailEnv
    /\ clean' = FALSE
    /\ UNCHANGED <<done, abandoned, toAdapter, process, credit>>

\* Mutant of CallTimeout: ingest_end is awaited without a deadline.
HandshakeTimeoutOnly ==
    /\ Silence({"ready"})
    /\ Unwind("aborted")
    /\ UNCHANGED <<done, abandoned, rows, toAdapter, process, credit, clean>>

CallTimeout ==
    /\ Silence({"ready", "sealing"})
    /\ Unwind("aborted")
    /\ UNCHANGED <<done, abandoned, rows, toAdapter, process, credit, clean>>

\* Mutants of Close: _record_unattempted is not called; it forgets that some
\* of the items were attempted.
CloseSilently ==
    /\ pc = "closing"
    /\ alive => HasRoom
    /\ alive' = FALSE
    /\ toAdapter' = <<>>
    /\ toHarness' = <<>>
    /\ pc' = "over"
    /\ UNCHANGED <<outcome, envsLeft, env, toIngest, todo, cur, done, rows,
                   abandoned, staged, adapter, credit, clean>>

CloseRewrites ==
    /\ pc = "closing"
    /\ alive => HasRoom
    /\ alive' = FALSE
    /\ toAdapter' = <<>>
    /\ toHarness' = <<>>
    /\ rows' = IF outcome = "crashed"
               THEN [i \in Items |-> IF rows[i] # "ok" THEN "error" ELSE rows[i]]
               ELSE rows
    /\ pc' = "over"
    /\ UNCHANGED <<outcome, envsLeft, env, toIngest, todo, cur, done,
                   abandoned, staged, adapter, credit, clean>>

\* close: bye is sent to a process that is alive, and after bye, terminate or
\* kill it is gone; then _record_unattempted gives every item without a row in
\* the store an error row.
Close ==
    /\ pc = "closing"
    /\ alive => HasRoom
    /\ alive' = FALSE
    /\ toAdapter' = <<>>
    /\ toHarness' = <<>>
    /\ rows' = IF outcome = "crashed"
               THEN [i \in Items |-> IF rows[i] = "none" THEN "error" ELSE rows[i]]
               ELSE rows
    /\ pc' = "over"
    /\ UNCHANGED <<outcome, envsLeft, env, toIngest, todo, cur, done,
                   abandoned, staged, adapter, credit, clean>>

-----------------------------------------------------------------------------
(* Adapter. *)

\* The reply AdapterBase.run writes when a handler returns normally.
Replies(r) ==
    CASE r.type = "hello"      -> <<Reply("ready", None)>>
      [] r.type = "ingest"     -> <<Reply("ingest_done", r.id)>>
      [] r.type = "ingest_end" -> <<Reply("ingest_end_ack", r.id)>>
      [] r.type = "query"      -> <<AnswerFrom(r.id, adapter)>>
      [] OTHER                 -> <<>>

\* What the handler does to the memory the adapter answers from.
Remember(r) ==
    CASE r.type = "env_begin"  -> [NoMemory EXCEPT !.env = r.id]
      [] r.type = "ingest"     -> [adapter EXCEPT !.seen = @ \cup {r.id}]
      [] r.type = "ingest_end" -> [adapter EXCEPT !.sealed = TRUE]
      [] OTHER                 -> adapter

request == Head(toAdapter)

Takes ==
    /\ alive
    /\ toAdapter # <<>>

\* AdapterBase.run handles one request.
Handle ==
    /\ Takes
    /\ toAdapter' = Tail(toAdapter)
    /\ toHarness' = toHarness \o Replies(request)
    /\ adapter' = Remember(request)
    /\ UNCHANGED <<driver, done, abandoned, staged, rows, alive, credit, clean>>

\* The handler raises: an in-band error, and after ingest or ingest_end the
\* process exits as well. A refused hello and a system that cannot go on
\* report a fatal error. A third-party adapter may also get the message
\* itself wrong.
HandlerFails ==
    /\ Takes
    /\ \/ /\ "error" \in Faults
          /\ request.type # "hello"
          /\ toHarness' = Append(toHarness, Reply("error", request.id))
          /\ alive' = (request.type \notin {"ingest", "ingest_end"})
       \/ /\ "fatal" \in Faults
          /\ toHarness' = Append(toHarness, Reply("fatal", request.id))
          /\ alive' = FALSE
       \/ /\ "garble" \in Faults
          /\ request.type = "query"
          /\ \E type \in {"bad_answer", "bad_error"} :
                toHarness' = Append(toHarness, Reply(type, request.id))
          /\ alive' = TRUE
    /\ toAdapter' = IF alive' THEN Tail(toAdapter) ELSE <<>>
    /\ clean' = FALSE
    /\ UNCHANGED <<driver, done, abandoned, staged, rows, adapter, credit>>

Chatter ==
    /\ "noise" \in Faults
    /\ alive
    /\ toHarness = <<>>          \* bound: one line of noise at a time
    /\ toHarness' = <<Reply("noise", None)>>
    /\ UNCHANGED <<driver, done, abandoned, staged, rows, toAdapter, process,
                   credit, clean>>

\* The process dies: segmentation fault, out of memory, kill.
Exit ==
    /\ "exit" \in Faults
    /\ alive
    /\ alive' = FALSE
    /\ toAdapter' = <<>>
    /\ UNCHANGED <<driver, done, abandoned, staged, rows, toHarness, adapter,
                   credit, clean>>

-----------------------------------------------------------------------------
HarnessSends ==
    \/ SendFails \/ Hello \/ IngestEnd \/ EnvEnd \/ Finish \/ StagingFails
    \/ \E e \in Envs : EnvBegin(e)
    \/ \E s \in Sessions : Ingest(s)
    \/ \E i \in Items : Query(i)

HarnessReceives ==
    \/ SkipNoise \/ FatalError \/ GarbledError \/ StreamClosed
    \/ Ready \/ IngestDone \/ IngestFails \/ IngestEndAck \/ NotAcknowledged
    \/ Answer \/ LateAnswer \/ Malformed
    \/ QueryTimeout \/ IngestTimeout \/ CallTimeout

Harness == HarnessSends \/ HarnessReceives \/ Close

Adapter == Handle \/ HandlerFails \/ Chatter \/ Exit

Over == pc = "over" /\ UNCHANGED vars

Next == Harness \/ Adapter \/ Over

Spec == Init /\ [][Next]_vars

\* The harness is one thread that goes on when it can; nothing is assumed of the
\* adapter.
FairSpec == Spec /\ WF_vars(Harness)
-----------------------------------------------------------------------------
(* Properties. *)

Statuses == Open \cup {"ok", "timeout", "malformed", "error"}

MessageTypes ==
    {"ready", "ingest_done", "ingest_end_ack", "answer", "error", "fatal",
     "bad_answer", "bad_error", "noise"}

Ids == Envs \cup Sessions \cup Items \cup {None}

Memories ==
    [env : Envs \cup {None}, seen : SUBSET Sessions, sealed : BOOLEAN]

Requests ==
    [type : {"hello"}, id : {None}]
    \cup [type : {"env_begin", "ingest_end", "env_end"}, id : Envs]
    \cup [type : {"ingest"}, id : Sessions]
    \cup [type : {"query"}, id : Items]

Answers == [type : {"answer"}, id : Items, memory : Memories]

Messages == [type : MessageTypes \ {"answer"}, id : Ids] \cup Answers

\* The type of every variable.
TypeOK ==
    /\ pc \in Sending \cup Waiting \cup {"closing", "over"}
    /\ outcome \in {"running", "completed", "crashed", "aborted"}
    /\ done \subseteq Items
    /\ envsLeft \subseteq Envs
    /\ env \in Envs \cup {None}
    /\ toIngest \subseteq Sessions
    /\ todo \subseteq Items
    /\ cur \in Sessions \cup Items \cup {None}
    /\ abandoned \subseteq Items
    /\ staged \subseteq Sessions
    /\ rows \in [Items -> Statuses]
    /\ toAdapter \in Seq(Requests)
    /\ toHarness \in Seq(Messages)
    /\ alive \in BOOLEAN
    /\ adapter \in Memories
    /\ credit \in [Items -> Answers \cup {None}]
    /\ clean \in BOOLEAN

\* No mis-attribution: whatever was late, lost or malformed before, a row
\* that says "ok" was made from the adapter's answer to that very item, given
\* from a memory of all of that item's environment (AdapterProcess.query).
OkMeansOwnAnswer ==
    \A i \in Items \ done :
        rows[i] = "ok" => credit[i] = AnswerFrom(i, FullMemory(EnvOf[i]))

\* Resynchronisation: as long as the adapter answers every request it handles,
\* no ingest call expires and no environment is begun with a query abandoned,
\* an expired query costs its own item only: the late answer makes no later
\* item malformed and no environment fail (AdapterProcess.query, _abandoned).
LateAnswersContained ==
    clean /\ outcome \in {"running", "completed"} =>
        \A i \in Items : rows[i] \in Open \cup {"ok", "timeout"}

\* The two phases: while an environment's questions are asked the adapter has
\* seen all its sessions and sealed its memory, and in memory mode no staged
\* copy is readable any more (Runner._run_env).
PhasesSeparated ==
    pc \in {"ask", "asking"} =>
        /\ adapter = FullMemory(env)
        /\ Mode = "memory" => staged = {}

\* No copy of the media outlives its environment: between environments and
\* after the run nothing staged is left, however the environment was left.
NothingLeftStaged ==
    pc \in {"start", "ready", "env", "closing", "over"} => staged = {}

\* A status is decided once per attempt: no late reply, failed environment or
\* crash rewrites a row, and an "ok" row that is skipped stays.
RowsAreFinal ==
    [][\A i \in Items : rows[i] \notin Open => rows'[i] = rows[i]]_vars

\* Honest counts: a run that completes has decided every item, and one that
\* returns after a crash leaves none without a row, be it the row of an earlier
\* attempt (Runner._record_unattempted).
NoItemDropped ==
    pc = "over" =>
        /\ outcome = "completed" => \A i \in Items : rows[i] \notin Open
        /\ outcome = "crashed" => \A i \in Items : rows[i] # "none"

\* runner.py:12: a crashed subprocess fails "the remaining items" of the run,
\* "recorded as errors". Items with the row of an earlier attempt keep that one.
CrashFailsTheRest ==
    pc = "over" /\ outcome = "crashed" => \A i \in Items : rows[i] \notin Open

\* The same of every run, as base.py:155 and protocol.py:16 have it: when
\* ingest_end fails or hangs, the environment is recorded and the run moves on.
EveryItemHasARow ==
    pc = "over" => \A i \in Items : rows[i] # "none"

\* tests/test_runner.py:292: "A slow item fails alone, and its late reply must
\* not shift the others." Of a faultless adapter that is only ever slow to
\* answer queries.
SlowItemFailsAlone ==
    Faults = {} /\ Expires = {"query"} =>
        \A i \in Items : rows[i] \in Open \cup {"ok", "timeout"}

\* The run ends, whatever the adapter answers or does not answer, provided that
\* it does not print noise for ever and is not alive behind a full pipe for ever:
\* every wait for a line has a deadline (_LineReader.readline), no write has one.
RunEnds ==
    /\ <>[][~Chatter]_vars
    /\ []<>(HasRoom \/ ~alive)
    => <>(pc = "over")

\* protocol.py:16: a subprocess that hangs fails the current item, not the run.
\* One that no longer reads its stdin blocks _send.
HangingEnds == <>[][~Chatter]_vars => <>(pc = "over")

\* protocol.py:16: a subprocess that hangs or emits garbage fails the current
\* item, not the run: every question is decided.
EveryQuestionDecided == \A i \in Items : cur = i ~> rows[i] # "none"

-----------------------------------------------------------------------------
(* An attempt, seen through its rows, is RunOutcome. *)

Promise == INSTANCE RunOutcome WITH
    open  <- IF pc \in {"ask", "asking"} THEN env ELSE None,
    ended <- IF outcome = "running" THEN "no" ELSE outcome

\* Every step of the harness and the adapter is a step RunOutcome allows: an
\* environment is asked only once it is ingested, left only when decided, and
\* fails as a whole or not at all.
KeepsPromise == Promise!Spec
=============================================================================
