--------------------------------- MODULE Memory ---------------------------------
(***************************************************************************)
(* The systems under test: echo_stub.py, openai_compat.py, hf_vlm.py and   *)
(* ttt_lact.py. What each keeps of the sessions it is shown, what it       *)
(* reports of it, and what its answers can draw upon. The messages come in *)
(* the orders the harness sends them in (module Conversation), with homes  *)
(* left in mid-course; the models, the processor, the endpoint and the     *)
(* fast weights are external.                                              *)
(*                                                                         *)
(* A system is [kind, mode], its kind "echo", "api", "vlm", the memories   *)
(* "lact", "mean", "none" of the fast-weight adapter, or "lora".           *)
(***************************************************************************)
EXTENDS Media

CONSTANTS
    Systems,
    Films,          \* videos there are
    Neighbourhoods, \* lists of homes; a home is the list of its sessions' films
    NFrames,        \* --n-frames
    Cap,            \* --max-oracle-frames
    Retries,        \* --max-retries
    Questions       \* bound: asked in a home

\* Frames are told apart by where and when they were taken.
Frame == [home : Nat, session : Nat, at : Nat]

ASSUME MemoryAssumption ==
    /\ {NFrames, Cap, Retries} \subseteq Nat \ {0}
    /\ \A f \in Films : IsVideo(f)
    /\ Neighbourhoods \subseteq Seq(Seq(Films))
    /\ None \notin Nat /\ None \notin Seq(Frame)
    /\ None \notin [records : Nat, frames : Nat \cup {None}]
    /\ MediaError \notin Seq(Nat)
    /\ Questions \in Nat
    /\ \A s \in Systems :
          /\ s.kind \in {"echo", "api", "vlm", "lact", "mean", "none", "lora"}
          /\ s.mode \in {"blind", "memory", "oracle"}
          /\ s.kind = "lora" => s.mode # "oracle"

VARIABLES
    system, homes,
    home,       \* number of the home
    shown,      \* of its sessions, how many have been shown
    pc,         \* "idle", "ingest", "query", or "exited"
    call,       \* None, or the generation that runs: [for, frames, tries]
    notes,      \* _notes: of each, the frames that its text is about
    paths,      \* _session_paths: sessions retained
    cache,      \* _oracle_frames, _oracle_cache
    weights,    \* fast weights, running mean, LoRA: the frames written
    writes,     \* n_writes, _n_chunks
    stats,      \* of each session shown, what was reported: [frames, chars]
    ack,        \* None, or what was reported at the end: [records, frames]
    asked,
    answer      \* the frames the last answer of this home drew upon, or None

memory == <<notes, paths, cache, weights, writes>>
vars == <<system, homes, home, shown, pc, call, memory, stats, ack, asked, answer>>

Session == shown + 1
Film == homes[home][Session]
HasPath == system.mode # "blind"        \* the harness hands over no path

Taken(session, instants) ==
    [k \in DOMAIN instants |-> [home |-> home, session |-> session, at |-> instants[k]]]
FramesOf(seqs) == UNION {seqs[x] : x \in DOMAIN seqs}

Init ==
    /\ system \in Systems
    /\ homes \in Neighbourhoods
    /\ home = 0 /\ shown = 0 /\ pc = "idle" /\ call = None
    /\ notes = <<>> /\ paths = <<>> /\ cache = None /\ weights = {} /\ writes = 0
    /\ stats = <<>> /\ ack = None /\ asked = 0 /\ answer = None

\* Mutant of Forget: the cache of frames outlives its home.
ForgetNotes ==
    /\ notes' = <<>> /\ paths' = <<>> /\ weights' = {} /\ writes' = 0
    /\ UNCHANGED cache

\* on_env_begin; the stub keeps nothing but the count of what it has seen.
Forget ==
    /\ notes' = <<>> /\ paths' = <<>> /\ cache' = None /\ weights' = {}
    /\ writes' = IF system.kind = "echo" THEN writes ELSE 0

\* Messages are handled one at a time. The next home may begin in the middle of one:
\* the harness leaves an environment whose ingest fails or is late without another
\* word (FailEnv of Conversation).
EnvBegin ==
    /\ pc \in {"idle", "ingest"} /\ call = None /\ home < Len(homes)
    /\ home' = home + 1 /\ shown' = 0 /\ pc' = "ingest"
    /\ stats' = <<>> /\ ack' = None /\ asked' = 0 /\ answer' = None
    /\ Forget
    /\ UNCHANGED <<system, homes, call>>

-----------------------------------------------------------------------------
(* ingest *)

Ingesting == pc = "ingest" /\ call = None /\ shown < Len(homes[home])

IngestDone(frames, chars) ==
    /\ stats' = Append(stats, [frames |-> frames, chars |-> chars])
    /\ shown' = shown + 1
    /\ pc' = "ingest" /\ call' = None

\* AdapterBase.run: an exception while ingesting ends the process.
Exit ==
    /\ pc' = "exited" /\ call' = None
    /\ UNCHANGED <<shown, stats>>

\* A system without a path, the stub, and the control that ignores what it sees.
IngestNothing ==
    /\ Ingesting
    /\ ~HasPath \/ system.kind = "echo"
    /\ writes' = writes + (IF system.kind = "echo" THEN 1 ELSE 0)
    /\ IngestDone(0, 0)
    /\ UNCHANGED <<system, homes, home, notes, paths, cache, weights, ack, asked, answer>>

\* In an oracle run the generative systems put the session off.
Defer ==
    /\ Ingesting /\ system.mode = "oracle" /\ system.kind \in {"api", "vlm"}
    /\ paths' = Append(paths, Session)
    /\ IngestDone(0, 0)
    /\ UNCHANGED <<system, homes, home, notes, cache, weights, writes, ack, asked, answer>>

\* A video without frames contributes nothing, and so does one that cannot be
\* decoded where the exception is caught.
Unseen(film) == SampleFrames(film, NFrames) \in {MediaError, <<>>}
Watching ==
    /\ Ingesting /\ HasPath
    /\ system.kind # "echo" /\ ~(system.mode = "oracle" /\ system.kind \in {"api", "vlm"})

WatchInVain ==
    /\ Watching /\ Unseen(Film)
    /\ IF SampleFrames(Film, NFrames) = MediaError /\ system.kind \in {"api", "lora"}
       THEN Exit
       ELSE IngestDone(0, 0)
    /\ UNCHANGED <<system, homes, home, memory, ack, asked, answer>>

Seen == Taken(Session, SampleFrames(Film, NFrames))

\* Notes are generated; the call ends in an action of its own.
Watch ==
    /\ Watching /\ ~Unseen(Film) /\ system.kind \in {"api", "vlm"}
    /\ call' = [for |-> "note", frames |-> Seen, from |-> {}, tries |-> 1]
    /\ UNCHANGED <<system, homes, home, shown, pc, memory, stats, ack, asked, answer>>

\* One chunk is written; an encoder that fails is caught, but for the learner.
WriteWeights ==
    /\ Watching /\ ~Unseen(Film) /\ system.kind \in {"lact", "mean", "none", "lora"}
    /\ \/ /\ IngestDone(Len(Seen), 0)
          /\ IF system.kind = "none" THEN UNCHANGED <<weights, writes>>
             ELSE weights' = weights \cup ToSet(Seen) /\ writes' = writes + 1
       \/ /\ IF system.kind = "lora" THEN Exit ELSE IngestDone(0, 0)
          /\ UNCHANGED <<weights, writes>>
    /\ UNCHANGED <<system, homes, home, notes, paths, cache, ack, asked, answer>>

-----------------------------------------------------------------------------
(* _generate and _chat *)

\* A generation, for a note or an answer, has returned a text that rests on
\* these frames, of which it was shown n.
Returned(from, n, chars) ==
    IF call.for = "note"
    THEN /\ notes' = Append(notes, from)
         /\ IngestDone(n, chars)
         /\ UNCHANGED <<ack, asked, answer>>
    ELSE /\ answer' = from
         /\ asked' = asked + 1
         /\ call' = None
         /\ UNCHANGED <<notes, shown, stats, pc, ack>>

\* It has raised an exception: an error is the reply to a query; a note is
\* missing, or the process ends.
Raised ==
    /\ IF call.for = "answer"
       THEN /\ asked' = asked + 1 /\ call' = None /\ UNCHANGED <<shown, stats, pc>>
       ELSE /\ IF system.kind = "vlm" THEN IngestDone(0, 0) ELSE Exit
            /\ UNCHANGED asked
    /\ UNCHANGED <<notes, ack, answer>>

\* Mutant of Assertion: images that did not reach the model go unnoticed.
AssertionNone(dropped, images) == TRUE

\* _assert_images_reached_the_model
Assertion(dropped, images) == ~dropped \/ images = <<>>

\* The processor may drop the images, the model may fail, or say nothing: an
\* empty note is kept as a note.
Generate ==
    /\ call # None /\ system.kind = "vlm"
    /\ \/ \E dropped \in BOOLEAN :
             IF Assertion(dropped, call.frames)
             THEN Returned(call.from \cup (IF dropped THEN {} ELSE ToSet(call.frames)),
                           Len(call.frames), 1)
             ELSE Raised
       \/ call.for = "note" /\ Returned({}, Len(call.frames), 0)
       \/ Raised
    /\ UNCHANGED <<system, homes, home, paths, cache, weights, writes>>

\* A request is answered, with a text or without any; it fails for good, or
\* for the moment and is made again while the retries last.
Chat ==
    /\ call # None /\ system.kind = "api"
    /\ \/ Returned(call.from \cup ToSet(call.frames), Len(call.frames), 1)
       \/ Returned({}, Len(call.frames), 0)
       \/ Raised
       \/ /\ call.tries < Retries
          /\ call' = [call EXCEPT !.tries = @ + 1]
          /\ UNCHANGED <<notes, shown, stats, pc, ack, asked, answer>>
    /\ UNCHANGED <<system, homes, home, paths, cache, weights, writes>>

-----------------------------------------------------------------------------
(* ingest_end *)

\* Mutant of Thinned: the first frames are kept.
ThinnedFirst(frames, keep) ==
    IF Len(frames) <= keep THEN frames ELSE SubSeq(frames, 1, keep)

\* _thin_evenly
Thinned(frames, keep) ==
    IF Len(frames) <= keep THEN frames
    ELSE [i \in 1..keep |-> frames[((i - 1) * Len(frames)) \div keep + 1]]

SampleOf(session) == SampleFrames(homes[home][session], NFrames)

\* _oracle_images, _oracle_parts: the decoder's exceptions are not caught, and
\* one of the two systems insists on frames from every session.
OracleFails ==
    \E x \in DOMAIN paths :
       SampleOf(paths[x]) \in {MediaError} \cup (IF system.kind = "api" THEN {<<>>} ELSE {})
OracleFrames ==
    Thinned(FlattenSeq([x \in DOMAIN paths |-> Taken(paths[x], SampleOf(paths[x]))]), Cap)

Acknowledge(records, frames) ==
    /\ ack' = [records |-> records, frames |-> frames]
    /\ pc' = "query"

IngestEnd ==
    /\ pc = "ingest" /\ call = None /\ shown = Len(homes[home])
    /\ IF system.kind \in {"api", "vlm"} /\ system.mode = "oracle"
       THEN IF OracleFails THEN pc' = "exited" /\ UNCHANGED <<cache, ack>>
            ELSE cache' = OracleFrames /\ Acknowledge(Len(OracleFrames), Len(OracleFrames))
       ELSE /\ UNCHANGED cache
            /\ CASE system.kind \in {"api", "vlm"} -> Acknowledge(Len(notes), None)
                 [] system.kind \in {"echo", "lact", "mean"} -> Acknowledge(writes, None)
                 [] system.kind \in {"none", "lora"} -> Acknowledge(0, None)
    /\ UNCHANGED <<system, homes, home, shown, call, notes, paths, weights, writes, stats,
                   asked, answer>>

-----------------------------------------------------------------------------
(* query, env_end *)

Querying == pc = "query" /\ call = None /\ asked < Questions

AskGenerative ==
    /\ Querying /\ system.kind \in {"api", "vlm"}
    /\ call' = [for |-> "answer",
                frames |-> IF system.mode = "oracle" THEN cache ELSE <<>>,
                from |-> IF system.mode = "memory" THEN FramesOf(notes) ELSE {},
                tries |-> 1]
    /\ UNCHANGED <<system, homes, home, shown, pc, memory, stats, ack, asked, answer>>

\* The readout of what was written; of nothing, when the question is not one
\* of five options or the learner's adapter is off (read_base).
AskWeights ==
    /\ Querying /\ system.kind \notin {"api", "vlm"}
    /\ answer' \in {weights, {}}
    /\ asked' = asked + 1
    /\ UNCHANGED <<system, homes, home, shown, pc, call, memory, stats, ack>>

EnvEnd ==
    /\ pc = "query" /\ call = None
    /\ pc' = "idle"
    /\ weights' = IF system.kind = "lora" THEN {} ELSE weights
    /\ UNCHANGED <<system, homes, home, shown, call, notes, paths, cache, writes, stats, ack,
                   asked, answer>>

Next ==
    \/ EnvBegin \/ IngestNothing \/ Defer \/ WatchInVain \/ Watch \/ WriteWeights
    \/ Generate \/ Chat \/ IngestEnd \/ AskGenerative \/ AskWeights \/ EnvEnd

Spec == Init /\ [][Next]_vars

-----------------------------------------------------------------------------
\* What the system can recall, of all it keeps.
Recalled ==
    FramesOf(notes) \cup weights \cup (IF cache = None THEN {} ELSE ToSet(cache))

R == INSTANCE Recall WITH
        Homes <- Nat, Sessions <- Nat, Frames <- Nat,
        home <- home, known <- Recalled, sealed <- ack # None,
        drawn <- IF answer = None THEN {} ELSE answer

(* "The cache is cleared in on_env_begin, so no environment can see         *)
(* another's frames", "answer from these notes": over homes that follow     *)
(* each other in one process, sessions that cannot be decoded, calls that   *)
(* fail and are retried, each system is one that recalls (module Recall).   *)
ImplementsRecall == R!Spec

Generative == system.kind \in {"api", "vlm"}
Contributed(x) == stats[x].frames > 0 /\ (Generative => stats[x].chars > 0)

(* "A run whose frame sampling silently returned nothing" must show in what *)
(* the system reports: the sessions it reports frames of are the sessions   *)
(* it recalls something of, their number is the records it reports, an      *)
(* answer of a memory run rests on all of them, and what an oracle run      *)
(* reports is what is attached to its prompts.                              *)
EvidenceIsTrue ==
    (ack # None /\ pc = "query") =>
       /\ (system.mode = "memory" /\ system.kind \notin {"echo", "none"}) =>
             /\ \A x \in DOMAIN stats :
                   Contributed(x) <=> \E f \in Recalled : f.session = x
             /\ system.kind # "lora" =>
                   ack.records = Cardinality({x \in DOMAIN stats : stats[x].frames > 0})
             /\ system.kind = "vlm" /\ answer # None =>
                   \A x \in DOMAIN stats : Contributed(x) <=> \E f \in answer : f.session = x
       /\ (system.mode = "oracle" /\ Generative) =>
             /\ ack.frames = Len(cache) /\ Len(cache) <= Cap
             /\ system.kind = "vlm" => answer \in {None, ToSet(cache)}
       /\ (system.mode = "blind" /\ system.kind # "echo") =>
             ack.records = 0 /\ answer \in {None, {}}

(* "Frames are thinned evenly across the whole environment rather than      *)
(* truncated, so late sessions are still represented": every session with   *)
(* as many frames as lie between two that are kept has one in the prompt,   *)
(* and the frames stay in order.                                            *)
CeilingSeesAll ==
    cache # None =>
       LET total == Len(FlattenSeq([x \in DOMAIN paths |-> SampleOf(paths[x])]))
       IN  /\ \A x \in DOMAIN paths :
                 LET n == Len(SampleOf(paths[x]))
                 IN  n > 0 /\ n * Cap >= total =>
                        \E f \in ToSet(cache) : f.session = paths[x]
           /\ \A k \in 2..Len(cache) :
                 \/ cache[k - 1].session < cache[k].session
                 \/ cache[k - 1].session = cache[k].session /\ cache[k - 1].at <= cache[k].at
=============================================================================
