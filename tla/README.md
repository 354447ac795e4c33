# meowbench in TLA+

`meowbench` benchmarks memory systems over video. For each *environment* a
system under test (a long-lived subprocess, the *adapter*) ingests every
session, seals its memory, loses access to the media and is then asked that
environment's questions. The harness must come out of this with one honest
status per question, whatever the system does.

This directory holds TLA+ models of the parts of the harness where that is hard,
the TLC configurations that check them, and proofs of the properties that matter
most. Line numbers are those of the repository's files; `PROJECT.json` maps every
definition to the lines it stands for.

## Inventory

| Part | State it keeps | Operations | Talks to | What makes it hard |
|---|---|---|---|---|
| Run loop, `runner.py` | position in suite, skip set, summary | `run`, `_run_env`, `_ask`, `_record_env_failure`, `_record_unattempted`, `_persist` | all below | every call can end in four ways, and each way leaves a different set of items without a status |
| Wire protocol, `adapters/protocol.py` | pipes, line queue filled by a thread, `_abandoned` | `start`, `close`, `handshake`, `env_begin`, `ingest`, `ingest_end`, `query`, `env_end` | adapter process | timeouts leave replies in flight; a reply is matched by position, only an answer also by id |
| Adapter loop, `adapters/base.py` | the memory of the current environment | one handler per message | harness | reports errors in band, exits after failing to ingest |
| Staging, `adapters/staging.py` | scratch directory, registry of staged files, revocation report | `stage`, `revoke`, `destroy` | file system shared with the adapter | copies and hard links, a system holding descriptors, two platforms, non-atomic revocation, removals that fail unheard |
| Store, `store.py` | SQLite: runs, predictions (judgments) | `upsert_run`, `mark_contested`, `finish_run`, `record_prediction`, `completed_items` | run loop | what a later attempt skips |
| Artifacts, `artifacts.py` | `predictions.jsonl` | `JsonlWriter`, `read_jsonl`, `read_predictions` | run loop, scorer | two records of one fact, not written atomically; torn lines |
| Download, `datasets/download.py`, `complete_video_downloads.py` | lock, partial, destination | `download_file`, three tries | network, file system | crashes between link and unlink, stale locks, retries |
| EPIC batch, `fetch_epic_parallel.py` | locks, aria2 staging, manifest | preflight, monitor, verify, publish | aria2 process, disk | as above, with a second process and a disk guard |
| Launcher, `run_real.py` | run folders, `execution.json`, worker threads | signatures, `run_model`, verdict, comparison | run loop via CLI | reuse of a run folder, children that outlive it, verdicts from files that several launches wrote |
| Pilot, `run_ttt_pilot.py` | arms, reports, comparison | `main`, `build_report` | run loop, scoring | arms that crash, hold media or see nothing, and still leave a report |
| Scoring, `scoring/deterministic.py`, `aggregate.py` | none | reading a reply, scores, aggregation, paired gain | artifacts | ordered text rules, denominators, numeric edges |
| Suite, `suite.py` | a directory of three files | `write_suite`, `load_suite`, `filter` | run loop, miners | written in the open, file by file |
| SuperMemory-VQA, `datasets/supermemory.py`, `video_windows.py` | plan, clips, thread pool, free space | `make_plan`, `prepare_suite`, `render_window` | disk, decoder, suite | three clocks, a pool that is cancelled, a disk that fills up |
| Systems, `adapters/hf_vlm.py`, `openai_compat.py`, `ttt_lact.py`, `echo_stub.py`, and `media.py` | notes, paths, frame caches, weights, counters | the handlers of a system | adapter loop, models, endpoints | state of one home that leaks into the next; evidence that is reported and not there |
| Relocation, `datasets/r3scan.py`, `miners/a3_relocation.py`, `mine_r3scan_a3.py` | scans, moves, asked subjects | `mine`, `audit`, `build_suite` | suite | labels that differ between scans or repeat in one |
| Schema, conformance, CLI, reports, fixtures, other scripts | - | - | - | records, I/O and presentation |

What correctness means, part by part:

- *Run loop and protocol*: an `ok` row was made from the adapter's answer to that
  very question, given from a complete and sealed memory; statuses are final; a
  run that returns has a row for every item; a slow question costs itself only;
  questions come after ingestion and revocation; the run ends.
- *Staging*: the data set survives; revoked media cannot be read, or the report
  says so; what an earlier attempt left is never handed on for the video.
- *Store and artifact*: what is scored and what is skipped on resume agree, over
  kills and re-runs; nothing is counted twice; a contested revocation is reported.
- *Downloads*: only complete, verified files are published, none is overwritten,
  and a crash leaves a state that the next call can go on from.
- *Launcher*: rows of different settings are never mixed; a run reported as
  completed, or compared, has a sound answer to every item.
- *Pilot*: a report does not show answers from a blank or contested memory without
  saying so; the exit code tells whether any item failed.
- *Scoring*: a reply commits to an option only if it holds its text; errors stay in the
  denominator; gains add up over axes and turn their sign with the runs.
- *Suite and SuperMemory*: what is loaded is a whole release; nothing recorded at
  or after a question is in its clips, all of its evidence is; the disk keeps its
  reserve; the pool ends clean.
- *Systems*: an answer draws on what was taken in of this home and on nothing else,
  and the evidence reported is what it rests on.
- *Relocation*: a gold answer is defensible, and no question gives another away.

`PROJECT.json` lists the hazards one by one, each at its line.

## Modules

### Conversation

One attempt: harness and adapter as two processes joined by two FIFO pipes.

| Code | Model |
|---|---|
| position in `run` / `_run_env` / `_ask` | `pc`: sending states `start env ingest seal ask`, waiting states `ready ingesting sealing asking`, then `closing`, `over` |
| how the with-blocks are left | `outcome` |
| `done` of `run` (resume) | `done`, the items whose row is `ok` at the start |
| `by_env` loop, sessions, pending items | `envsLeft`, `env`, `toIngest`, `todo`, `cur` |
| `AdapterProcess._abandoned` | `abandoned` |
| readable staged files of the environment | `staged` |
| predictions of the store | `rows`; `earlier` is the row of an earlier attempt that is asked again: a timeout, a malformed answer or an error, or with `--no-resume` any |
| adapter's stdin, which holds `PipeRoom` requests; its stdout and `_LineReader` | `toAdapter`, `toHarness` |
| the subprocess and the memory its answers come from | `alive`, `adapter` |

Each call of `AdapterProcess` is a sending action (`Hello`, `EnvBegin`, `Ingest`,
`IngestEnd`, `Query`, `EnvEnd`) and, for the four that wait, one receiving action
per way the wait can end: the expected reply, a skipped line, an in-band error, a
fatal one, one that fails validation, a wrong message, end of file, silence past
the deadline. A sending action waits for room in the pipe (`HasRoom`), as `_send` and
the `bye` of `close` do, and that wait has no deadline. Which exception that is decides what happens next (`FailEnv`,
`Record`, `Unwind`), as in `runner.py`. `Close` is `AdapterProcess.close` followed
by `_record_unattempted`, which gives a row to items that have none: after a crash
those with the row of an earlier attempt keep it. The adapter handles requests in order (`Handle`) and may
fail, chatter or die (`HandlerFails`, `Chatter`, `Exit`). `Faults` and `Expires`
say which of these a run allows.

Two observation variables, which no guard reads: `credit[i]` is the reply an `ok`
row was made from, with the memory it was produced from, and `clean` says that
nothing has yet put the pipes one message out of step.

Environments, sessions and items are taken in any order; the code takes the
suite's and manifest's order, and any order is some suite's. A session always has
a video. The text of questions, prompts, latencies and statistics are left out.
A line is one step: the model has no partial lines on the pipe, since the reader
thread delivers whole lines; the pipe to the adapter is bounded in requests, not in
bytes, and the adapter's own pipe is not bounded, since the reader thread drains it.
Staging is taken to work here: leaving an environment removes its copies, and what
can go wrong with that is Staging's subject.

### RunOutcome

The abstract specification of an attempt: the failure policy of the docstring of
`runner.py`, in terms of rows only. An environment is opened, its items decided
one by one, and left; or it fails as a whole before it is opened; the attempt
completes only when every item is decided, and after a crash the items that have no
row become errors. The docstring says "the remaining items", which on a resumed run
are more (`CrashFailsTheRest` among the findings). `Conversation!Promise` instantiates it with a refinement mapping (`open` is the
environment while it is being asked, `ended` the outcome), and `KeepsPromise`
says that every behaviour of the conversation is one of `RunOutcome`.

### RunStore

Several attempts at one run id, and what they leave on disk: the rows of the
store, the run row, and `predictions.jsonl` as the sequence of its readable rows
plus the state of its end (`clean`, `open` when a whole last row has no newline,
`fragment`). Every commit, every line and every reset is a step of its own, and
`Kill` may come between any two, with a part of the pending line written or all
of it but the newline. An attempt may also be interrupted there: `finally` closes
the writer and finishes the run when Ctrl-C or an error of the write leaves `_persist`
after its commit, so `Finish("aborted")` needs no line to be written first.
`Scored(i)` is what `read_predictions` gives for an item.
Which status an item ends with is arbitrary here; that is Conversation's subject.

### Staging

The scratch directory of one environment, in both modes and on both platforms.
A staged path refers to an inode of its own or to the source's; the registry's
`mode` may differ from what the path is. `Revoke` (the audit), `Truncate`,
`Unlink` are separate steps, and the processes of the system open, close and
delete files between them. `StageFails` is an exception of `stage`, which may leave
the old file, none, or a part of the new one. `Destroy` may come after each of these
and in the middle of a revocation, and what it cannot remove stays without a word: a
file that Windows finds open, or any where `IOFails`. `Kill` and `Enter` let later
attempts find the leftovers of both. `ReadableIsReported` is about the end of a
revocation: copies that a failed `destroy` leaves readable after an oracle run, or
that a contested revocation left and reported, are not reported again by anything.
Files that the system deletes itself before they are treated are left out of it, so
the deleted file that a child process, which nobody audits, holds open is not
claimed to be reported; it is not. `destroy` is one step although it is several:
later attempts see only what it leaves. Conversation uses this module's effect where
it works: `IngestEndAck` revokes, leaving an environment destroys.

### Download

`download_file` as called by several processes on one destination.

| Code | Model |
|---|---|
| destination and `.part` in the directory, as seen and as last synced | `name`, `onDisk` |
| file contents; which of them are synced since their last write | `data`, `settled` |
| the `.lock` | `lock`, the process that created it |
| a call: where it is, its descriptor, its result; tries left | `caller` |
| whether a reference hash was given | `referenced` |

Every system call another process or a crash could come between is an action of
its own, from `Lock` to `Unlock`; only stat and link of `_download` are one step
(`Link`), because no modelled process replaces a locked `.part` in between. A
response of 206 continues, one of 200 starts again (`Answer`); units of content
arrive one by one (`Receive`), from any version of the file. `Fail` is an
exception at any call, and bad headers, short and overlong responses and a full
disk are that too. A killed process leaves lock and partial; a power loss keeps of unsynced
content a prefix and of unsynced directory entries an arbitrary choice, as an
ordered-mode file system may; files that are there at the start count as synced.
`ReportedIsDurable` covers the result `downloaded`. A call that finds the file and
reports `skipped` syncs nothing (`download.py:153`), so after a link whose directory
sync failed (line 224) the retry reports a file that a power loss may still take.
Around the calls stand an operator who removes locks of dead processes and files
that fail the check, a process started again, and a program that creates the
destination without locking.

### FetchEpic

The command `fetch_epic_parallel.py`, given up to `MaxBatches` times, and aria2.

| Code | Model |
|---|---|
| `videos/`, the staging directory, its `.aria2` files | `dest`, `staged`, `control` |
| a staging name and a destination that are one inode | `linked` |
| `.lock` of each video, `.batch.lock` | `lock`, `batchLock` |
| the child process | `aria` |
| `save_manifest`'s file; `report["files"]` | `manifest`, `files` |
| verified files to publish, files to fetch | `recover`, `pending` |
| `publish` between its link and its unlink | `current` |

A batch locks, checks everything (`Preflight`, or `Refuse`), publishes what an
earlier one left (`Recovered`), announces, launches, monitors, verifies and
publishes each pending video, and saves the manifest where the code does.
`Unpublished` and `PublishFails` are the per-file errors, `Fail` any other
exception: while aria2 lives it interrupts and waits. After `Kill` aria2 goes on
until `--stop-with-process` makes it notice. aria2 is modelled from its options:
a media file with a control file while incomplete, without one when all bytes are
there, right or wrong. The single-connection downloader takes the same locks;
programs without locks may publish at any time. Locks are taken in any order;
the code takes the wanted list's. An operator removes locks only of a dead batch
whose aria2 has ended. Left out: the checksum list, the plan signature of the
manifest, and the arithmetic of the disk budget (whose decisions are `Fail` and
`Interrupt` at any time).

### Launcher

`run_real.py`, given again and again with one tag.

| Code | Model |
|---|---|
| the commit checked out | `commit` |
| run folder with its `execution.json` | `folder` (`Torn` while it cannot be read) |
| last row of each item in `predictions.jsonl` | `rows`, each with what is wrong with it and the setting it was made under |
| a launch: its place in `main`, its threads and their verdicts | `launch` |
| child processes `meowbench run` | `child` |
| pairs of runs handed to `compare` | `compared` |

The marker is opened, which empties it, and written in two steps (`Open`, `Mark`);
the children run the code that is checked out when they start, not when the
signature was made. `Kill` leaves the children alive or not. `InTurn` says that
launches and checkouts come one after the other: the operator's discipline that
the code relies on. With `InTurn = FALSE`, two launches of one tag both pass the
check before either writes its marker, and TLC violates `RowsMatchMarker`. Rows
come as Conversation and RunStore let them come; here store and file are one. The
flaws a row may have are those `run_model` looks for: a status other than ok, no frames
or notes, held media, and rows of a system that reports another mode
(`run_real.py:162`).

### Extraction, Scoring and Pilot

Extraction holds the operators of `deterministic.py`: a reply is the sequence of its
pieces, which are words or parts of words (`Glued`: a piece with no space behind it),
and the rules for letters, options, denials and refusals are tried in the code's
order. An option is looked for as a string is: from the beginning of any piece, and
its end need not end a word, so "bedroom" (`bed-`, `room`) holds "bed" and "bookshelf"
holds "shelf". Negations and refusals are words of their own, as `\b` makes them.
"no longer" counts as one word, and one that forms only around the place of a removed
mention is left out. `ReplyRead` says what holds under this reading of "contains"; the
stronger claim, that the words of an option stand in the reply, is refuted
(`OptionsAreNamed` among the findings). Scoring applies `score_prediction`, `aggregate`, `by_axis`,
`paired_gain` and `memory_gain` to the rows of up to five kinds of runs in each
state on the way, and lets a judge decide the open items in any order. Means are
kept as sums, scores in tenths; an interval that excludes zero is compared in
integers.

Pilot composes them: after a reply of up to `MaxWords` words has been read, or
none, it runs the arms of a plan one after the other. An environment is ingested
with some `Evidence` (`Ingest`) or fails (`IngestFails`), its items are asked (`Ask`),
the system may die at any moment (`Crash`) and other exceptions leave `run()`
(`Abort`). `Report` is `build_report` with the counts of the summary and the
decision to raise; `Compare` writes the comparison. `ingested` is a history
variable: it records what the rows of a crashed or failed environment lose. A
killed pilot has no action: it stops, and its directory is not used again.

### Suite and SuperMemory

Suite is a release directory: the files grow line by line while `write_suite`
writes them one after the other, and `load_suite` reads them in three steps at any
time. SuperMemory is the pipeline that ends in one: rows of the annotations are
considered in order (`Consider`), the plan is checked against the videos
(`Check`), clips are rendered by one or two threads that look at the free space,
write and rename (`Take`, `Write`, `Rendered`, `Abandon`), the caller collects the
futures or is interrupted (`Collect`, `Interrupt`, `Stopped`), environments, items
and evidence spans are made of the clips item by item (`Build`, `BuildItem`,
`Built`), and Suite freezes them
(`Freeze`). `duration` and `gap` are what the decoder finds out about a video: how
long it is, and an instant without a frame.

Abstracted: the threads take clips in any order (the code takes the plan's);
nobody else uses the disk; the bytes of the JSON files are not counted; a line and
its line end reach the disk together; the directory is a new one, as `main`
demands, so freezing twice in place is left out. `ReserveIsKept` rests on an
assumption, that a clip is never larger than its budget (`clip_budget`, an estimate
from its length), and on a floor above zero: `min_free_bytes = 0` turns the check off.

### Media, Memory and Recall

Media is `sample_frames`: which instants are taken of a video that may lack
frames, a duration or a way to seek, and when it falls back or fails. Memory is
all systems under test at once: `system` says which one and in which mode. A frame
is the home, session and instant it was taken at, so what notes, caches and
weights hold is a set of frames, and `answer` is the set an answer drew upon. A
generation (`call`) may lose its images, fail, be retried or come back empty.
`EnvBegin` to `EnvEnd` are the handlers, in the order in which the harness sends their
messages: after a failed or late ingestion it sends neither `ingest_end` nor
`env_end` but the next `env_begin` (`runner.py:250-259`), so `EnvBegin` may come in the
middle of a home, with its notes half built. A home that is being asked is always
ended: from there on no exception leaves `_run_env` but those that end the run. An
exception of the tracing after a note is kept (`hf_vlm.py:184-185`) and a ceiling of
no frames at all (`_thin_evenly` with `keep <= 0`) are left out. For the fast-weight systems only questions with five
options read the weights; `AskWeights` answers from the weights or from nothing.

Recall is what each of them promises: it watches one home at a time, and once this
is over answers from what it has taken in. `ImplementsRecall` is the refinement.

### Relocation

Rooms are mined one by one and moves farthest first (`Consider`, `NextRoom`), the
items audited (`Audit`) and frozen (`Freeze`). A label has a spelling, and `Lower`
takes its case away, where the code does and nowhere else: the subject is counted, and
unusable labels are left out, without case; the gold and the wrong options are told
apart as they are written and lowercased afterwards. So options can read the same
(`GoldReadsApart` among the findings), and `GoldIsDefensible` promises options that
read apart only where no label of the scan is written in two ways (`WrittenOneWay`).
Space has one dimension; where the
code draws (letters, order of options) any outcome is possible; rescan ids differ
in their first eight characters; of the data set the removals, relations and
attributes are left out.

## Runs

| Run | Asks | Bounds | Result |
|---|---|---|---|
| conversation_safety | all safety properties, `KeepsPromise`, `RunEnds` | 2 environments with a session id in common, 3 items with or without earlier rows, all faults, all timeouts, 4 requests in the pipe; 123,713 states | holds |
| conversation_slow_item | `SlowItemFailsAlone` | no faults, only query timeouts | violated (finding) |
| runstore_safety | all properties of the store and the file | 2 items, 3 attempts, kills and interruptions; 86,120 states | holds |
| staging_safety | all properties of the area | 2 videos, 2 processes, I/O failures; 194,226 states | holds |
| download_safety | all properties of the destination | 2 processes of 2 tries, 3 inodes, files of 2 units in 2 versions, 1 crash | holds |
| fetchepic_safety | all properties of the batch | 2 videos, 3 batches, I/O failures | holds |
| launcher_safety | `RowsMatchMarker`, `VerdictsAreTrue` | 1 model, 2 tracks, 2 items, 3 launches in turn, 2 versions of the code, 1 kill; 924,879 states | holds |
| pilot_safety | `ReplyRead`, `DenominatorIsHonest`, `GainAddsUp`, `ReportsAreTrue` | 14 words and parts of words, replies of up to 4, 4 items of 4 formats on 2 axes in 2 environments, 3 plans of 2 arms, 3 ways to ingest; 752,718 states | holds |
| supermemory_safety | `LoadedIsWhole`, `PastIsWholeFutureIsAbsent`, `ReserveIsKept`, `PoolEndsClean` | 2 overlapping videos, 3 annotation files of 2 rows, 1 or 2 threads, 2 disks, 1 fault | holds |
| memory_safety | `EvidenceIsTrue`, `CeilingSeesAll`, `ImplementsRecall` | 16 systems, up to 2 homes and 3 sessions, 6 sorts of films; 147,316 states | holds |
| relocation_safety | `GoldIsDefensible`, `NoGiveaways` | 1 or 2 rooms, up to 2 rescans, 8 layouts, 3 command lines; 599,820 states | holds |
| relocation_audit | `AuditSeesSubject` | the same | violated (finding) |

Why the bounds are enough. *Conversation*: a desynchronised reply needs an
environment to come from and one to land in, so two; a shared session id makes a
late `ingest_done` match; one environment has two items so that a late answer can
land on a sibling, and one has two sessions. The pipe to the adapter holds 4 requests: enough for an
abandoned query, `env_end` and `env_begin` and the next request to be in it at once,
and few enough for an adapter that does not read to fill it (with 9 the run holds
too, over 130,913 states). Chatter is bounded to
one line when the pipe is empty, which is enough since each line only re-arms the
deadline. *RunStore*: one attempt leaves something, one acts on it, a third sees
the consequence. *Staging*: one file is treated while the other is not yet, and one
is left behind while the other goes. *Download*: a file of two units can be mixed from two versions and cut by a crash;
three inodes are a destination, a partial and a foreign file, and a fourth is
never asked for. One crash and two tries give a partial and a lock that outlive
their process, and a call that finds them. *FetchEpic*: one batch leaves
something, one recovers it, one finds the result; of two videos one is published
while the other is still pending. *Launcher*: one launch leaves rows, one is
killed while it marks the folders again, one comes with other code; models share
no folder, so one is enough. *Scoring*: four pieces hold a denial and an option of
two words, or emphasis around a letter with something beside it; one option is a
part of another, one of a longer word, and one holds a negation; "not-" makes words
that begin like a negation. *Pilot*: with two environments one can be
whole while the other fails or loses its rows' evidence in a crash, and their items
alternate in the suite; the second arm meets what the first left in `had_errors`.
*SuperMemory*: the videos overlap, so
a question to one has evidence and a boundary in the other; two threads can race
for the space of the last clip; a clip takes one unit or all it has reserved, so on
either disk the space lasts or runs out. *Memory*: two homes show what is carried
over, from the end of one or from its middle; three sessions are more than the cap of
an oracle run holds in full. *Relocation*: each layout is one way for a gold to be
indefensible, and each stands alone too; the first of two rooms is plain or spelled in
two ways, and two rescans of a room are where a question can be repeated or mirrored.

The system may stop in Download (callers give up), Pilot (all is said),
SuperMemory (a run ends), Memory (the last home) and Relocation (the program
exits), so these runs do not look for deadlocks.

Fairness. Only the harness is fair (`WF_vars(Harness)`): it is one thread that
computes, waits for a line, which has a deadline, or writes one, which has none.
Weak fairness does not help a write that is blocked: its action is not enabled while
the pipe is full. So `RunEnds` is claimed for behaviours in which the pipe again and
again has room or the adapter is dead, and in which it does not chatter for ever,
since each line re-arms the deadline. Neither is what the code guarantees: without
the first, TLC finds a harness blocked for ever (`HangingEnds`), without the second
one that waits for ever (`EveryQuestionDecided`).

Each property of a passing run has a mutant of a modelled definition that
violates it; the mutants stand before the definition they alter.

## Proofs

`Conversation_proofs` proves, for any suite, any faults and any timeouts:

- `TypeCorrect`: `TypeOK`, strengthened by `Control` (where the run is says which
  of `env` and `cur` are set).
- `NoItemIsDropped` and `RowsStayFinal`, both from the inductive invariant
  `RowsInv`: inside an environment the items to ask are exactly its items without a
  row, items of environments still to run have a row of an earlier attempt at most, and
  an item without a row belongs to an environment still to
  run. The first two make a recorded item one without a row (finality), the last
  makes a completed run complete, and `_record_unattempted` handles a crash.
- `PromiseIsKept`: Conversation implements RunOutcome. `RowsInv` gives the guards
  of RunOutcome's actions: `UndecidedIn(env)` is `todo` (`UndecidedAreToDo`), so
  `IngestEndAck` opens an environment with something to ask, `EnvEnd` leaves one with
  nothing, and `FailEnv` gives up exactly what is undecided; every other step
  stutters.

A second part adds what the two pipes hold (`WireInv`) and proves
`NoMisattribution`, `PhasesAreSeparated` and `NothingStaysStaged`. The heart of it
is that `ingest_end_ack`, the one message Runner does not match against an id,
cannot be a late one: until it is read, either a failure is reported in the
harness's pipe, or from some position on the adapter's pipe holds what is left of
this very environment (`Ingesting`, `OnTrack`); so when it is written the memory is
full, and it is the last line (`Acknowledged`). A query given up on stays ahead of
everything that changes the memory it was meant for (`QuestionsFirst`), so an answer
is always one from the right memory (`Answered`), and matching its id is enough.
`LateAnswersAreContained` rests on a second invariant (`InStep`): every line in the
harness's pipe, and every request in the adapter's, answers or asks for something in
`Awaited`, which is what the harness waits for and the questions it gave up, and no
two of them the same thing. `GivenUp` is why a question asked anew cannot collide
with its own late answer: it has its row and is never asked again.

`Evidence_proofs` holds the theorems on what a system is handed (Staging) and on
what it makes of it (Memory). It proves the three properties of Staging, for any
videos and processes, from one invariant: a path staged as a copy never refers to
the data set's file, one staged as a link always does, and so do the descriptors
opened through them (`Separate`); what is staged and not yet treated is whole
(`HandedIsWhole` itself); a revocation has only staged files to treat, one
at a time, and only the system makes such a file disappear (`Treating`); a file that
has been treated is reported, or was a copy and is empty (`Treated`). The last two
are needed because `ReadableIsReported` speaks of the end of a revocation only.

`Download_proofs` proves all six properties of Download, for any number of
processes, tries, kills and power losses. At most one process is at work, and it
holds the lock (`Exclusive`); `InHand` says what it holds at each place, in
particular that the file it writes to is the partial and not the destination, that
what it publishes has passed the check and was synced. `Published` and `Reported`
carry this over: a destination that no other program made is `Lasting`, the synced
directory refers to no other such file, and a reported one has both.

`Preparation_proofs` holds the theorems on how data is fetched (FetchEpic) and mined
(Relocation). It proves all six properties of FetchEpic, for any wanted list and
number of batches. `InHand` says what a batch has at each stage and that all it
recovers is good, `Sound` that published, reported and listed files are good and
that a file with a control file is partial, and `Locked` who holds the locks at each
stage and that aria2 runs only between launching and leaving, or after a kill.

It also proves `GoldIsDefensible` and `NoGiveaways`, for any rooms, labels, boxes,
commands and thresholds. The first is about one item: `SortedIs` says what the
code's sort makes of the measured boxes (ranks are a bijection), `NearestIs` that
this lists each usable object around the subject once and the nearest first, and
`DistractorsAre` that whatever is nearer than a wrong option bears the name of
another option, by the first place at which a name occurs. The properties then
follow item by item, since the files do not change. The second needs an invariant
(`MinerInv`): an item is of a room already reached that may be mined (`FromRooms`),
what is remembered of the room at hand is what has been asked in it (`Remembered`,
so `Capped` counts its items), and the next room starts from nothing as no earlier
room has its id.

`RunStore_proofs` proves the six properties of RunStore that the run checks and
`FinishedIsCurrent`, for any suite and number of attempts. The invariant speaks of single lines: an `ok` line has an `ok` row
(`Backed`), a fresh attempt has one line for each item it is done with (`OneByOne`),
a resumed one keeps the agreement it found but for the line due (`InStep`), which is
the one item an interrupted attempt may leave behind. `Due`
and `Skipping` say which rows may still be written. What `Scored` chooses exists
because every item that has a line has a last one, in every prefix of the file
(`HasLast`): a kill leaves a prefix, so this is preserved by steps, where a proof
about sequences would need induction.

`Launcher_proofs` proves `RowsMatchMarker` and `VerdictsAreTrue`, for any models,
tracks, items and number of launches, when launches and checkouts come one after the
other (`RowsAreNotMixed` and `VerdictsStayTrue` have `InTurn` as a hypothesis:
without it TLC finds two launches of one tag that mix their rows). The invariant
says that one launch is at work, or the children a killed one has left behind, and
that the code stays what it was when it began (`Alone`); that a folder it has dealt
with has its marker (`Checked`), one it is marking has no rows of another setting
(`Marking`), and a child writes under the setting in the marker (`UnderMarker`).
`Serving` and `Judged` keep a verdict true while other children go on writing. The
type invariant holds without `InTurn`.

`SuperMemory_proofs` proves the four properties of Suite and SuperMemory, for any
rows, videos, disk and number of threads. `SuiteInv` says in which order the files
become whole and what a loader has read of them: the one way past its checks is to
have read everything. The invariant of the pool (`PoolInv`) says that every clip is
still to do, in a thread or there, unless one has failed (`NoneLost`), and that
whoever stops the pool has said why (`Explained`). `ReserveIsKept` needs `Reserved`:
what is free covers the floor and the clips of which nothing is written yet
(`Pending`), a sum over a set that grows and shrinks one clip at a time, and that a
clip is rendered once. `PastIsWholeFutureIsAbsent` needs what selection (`Asked`),
rendering (`Pictured`) and building (`Made`) have done to the items, and what
concatenation and sorting by time do to a list of clips. Sums and concatenations are
recursive in the community modules; what is needed of them is proved from a smallest
set, or length, without it, which does not exist.

`Evidence_proofs` also proves `EvidenceIsTrue`, `CeilingSeesAll` and that Memory
implements Recall (`ImplementsRecall`), for any systems, films, lists of homes,
numbers of frames, of retries and of questions. The invariant has four parts besides
the types. `Calling`: a generation is for a note on the session that is shown, and
has its frames, or for an answer, and has what is kept. `Keeping`: what each kind
keeps in each mode, all of it frames of sessions of this home that have been shown;
a cache is what `OracleFrames` makes of the sessions retained. `Counting`: after
every session, those that are reported to have contributed are those of which
something can be recalled, and the records are as many as the sessions with frames;
`EvidenceIsTrue` says so at the end only and is not inductive. `Answering`: what is
reported at the end, and that an answer draws upon what is kept, in the local model
on all of it. A step refines one of Recall's, or stutters: sessions and `IngestEnd`
learn, answers answer, and the end of a home of the learner leaves. `CeilingSeesAll`
is arithmetic: of `Cap` places spread over `L` frames one is in any window of `n`
frames with `n * Cap >= L` (`Window`), and the frames of a session are such a window
in what `FlattenSeq` makes of them all (`GatheredIs`), in order since the frames of
one film are (`SampleIs`: a later target never has an earlier frame).

`Pilot_proofs` proves the four properties of Scoring and Pilot, for any suite, plan,
evidence and scores. `RepliesAreRead` is a fact about the operators of Extraction
and any reply, of whole words or parts: the heart of it is that around a mention of an option there is one
that is no part of a longer option's (`OwnMentionIs`), and that replacing the one
option a reply names leaves no mention of it. Replacing words is recursive in Python
as in the model; `Takes` is the function that says which places it replaces. That
the mentions of an option do not overlap is a hypothesis of the property: of two
that do, the second one stays. `DenominatorIsHonest` and `GainAddsUp` rest on what
sums over sets do when their elements are counted, split by axis or paired
(`OneByOne`, `SumParts`, `SumMoved`). `ReportsAreTrue` needs an inductive invariant:
an arm has one row of an item, and a row of each once it is over (`ArmOK`,
`OverOK`), a row shows what its environment took in (`RowsAll`), a report that is
written is that of the rows (`ReportsOK`), and so is the comparison (`ComparedOK`).

The theorems assume the assumption on the constants of their module
(`ConversationAssumption`, `PilotAssumption`, ...) only, and those of Launcher that
launches come in turn. Every safety property the runs check is proved, and so are
the type invariants of all components but SuperMemory and Relocation, whose
invariants have the types they need among their parts, and `NothingLeftStaged`,
`FinishedIsCurrent` and FetchEpic's `NeverClobbered`, which no run needs to check
any more. Out of the prover's reach, and left to TLC: `RunEnds`,
a liveness property under fairness.

## Findings

Two runs refute a claim of the code's comments or tests, described in
`PROJECT.json`: a late answer that crosses an environment boundary fails the next
environment (`SlowItemFailsAlone`), and the audit of mined questions never finds
the subject it looks for (`AuditSeesSubject`).

The models hold ten more such claims, each a definition beside the properties
with a configuration of its own; TLC violates each within seconds:

| Definition | Configuration | The claim | What the code does |
|---|---|---|---|
| `EveryItemHasARow` | Conversation_dropped_rows | `adapters/base.py:155` "it will record the environment as failed and move on" | `ingest_end` is called outside the try of `_run_env`: an error or timeout there leaves `run()`, and items get no row |
| `EveryQuestionDecided` | Conversation_chatter | `adapters/protocol.py:68` "The system did not respond within the allotted time." | each skipped line restarts the deadline (line 246), so a system that only prints is waited for without end |
| `HangingEnds` | Conversation_deaf | `adapters/protocol.py:16` a subprocess that hangs fails "the current item, not the run" | one that stops reading its stdin blocks `_send` (line 238), and `bye` in `close`, once the pipe is full: writes have no deadline |
| `CrashFailsTheRest` | Conversation_redone | `runner.py:12` the remaining items of a crashed run are "recorded as errors" | items with a timeout, malformed or error row of an earlier attempt, which this one was to ask again, keep that row: `_record_unattempted` (line 430) looks for any row, as in `CrashKeepsDenominator` |
| `ContestedIsLatched` | RunStore_latch | `store.py:191` "once true it must never silently clear" | `upsert_run` of the next attempt clears it (line 172) |
| `CrashKeepsDenominator` | RunStore_denominator | `tests/test_runner.py:265` "A crash must not silently shrink the denominator." | after a crash in a `--no-resume` attempt, rows of the attempt before hide items from `_record_unattempted` (`runner.py:430`) |
| `ResumedRunIsWhole` | RunStore_killed | `README.md:278` "one self-contained record per item" | killed, or interrupted by Ctrl-C, between the two writes of `_persist` (`runner.py:467`), an item never gets a line |
| `RefusedForCause` | FetchEpic_rerun | `docs/SERVER_DATA_RUNBOOK.md:72`, run the same command again | killed between link and unlink (`fetch_epic_parallel.py:147`), a good video has two names and every later batch refuses it |
| `OptionsAreNamed` | Pilot_words | `scoring/deterministic.py:182` "'shelf' matches only because 'the top shelf' does" | options are looked for in the letters of the reply (line 190): "bookshelf" commits to "shelf", "bedroom" to "bed" |
| `GoldReadsApart` | Relocation_spelling | `miners/a3_relocation.py:214` "The gold label must be unique in the room" | uniqueness (line 217) and the wrong options (line 227) go by the label as written, the options are lowercased afterwards (line 320): of "Chair" and "chair" one is the gold and one a wrong option that reads the same |

Seen while modelling, without a run:

- "A ..." as the first word of a reply that echoes an option is scored as letter A.
- "the shelf or the top shelf" picks the top shelf, since one option contains the
  other; a refusal with "not" beside an option it names is read as nothing.
- `_ingest_evidence` keeps the last row's `env_run` of each environment only: after a
  resume an earlier attempt's row may shadow a later one's (a pilot never resumes).
- The flag for held media in a report comes from rows only: if the system dies before
  the first answer of the environment it held media of, just the summary has it.
- `compute_suite_sha` is called order-independent between its two files; it is not.
- With no items `report` fails on an empty list, before `audit` can say
  "no items mined".
- Reciprocal pairs are a warning, although the docstring of `mine_r3scan_a3.py`
  says that a suite failing these checks is refused; and, with the subject, never
  found.
- "The gold label must be unique in the room" (`a3_relocation.py:214`) is checked
  among the objects that have a box.

## Plan

Modelled and proved: everything above. Next: the conformance checks and the wire
schema's validation, which are covered in part only.

## Not modelled

Inference itself, decoding and encoding of frames, parsing and geometry of data
sets, prompts, tracing, reports and fixtures are data processing without a
protocol of their own. The conformance checks are a conversation with one message
at a time; the command line passes arguments. The disk guard of the EPIC batch is a
decision that may come at any time, not arithmetic.
