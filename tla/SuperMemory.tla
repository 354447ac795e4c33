------------------------------ MODULE SuperMemory ------------------------------
(***************************************************************************)
(* datasets/supermemory.py and video_windows.py, as called by              *)
(* scripts/prepare_supermemory.py: the questions that are selected, the    *)
(* clips that are cut from their recordings by a pool of threads, the      *)
(* items and environments that are made of them, and the release that is   *)
(* frozen and loaded (module Suite).                                       *)
(*                                                                         *)
(* Times are ticks. A row of the annotations is a record: whether its      *)
(* fields are consistent (valid), is_answerable, whether it needs nothing  *)
(* but vision, its primary video with the start it gives for it, the       *)
(* videos its query spans name, where these begin (cuts), its video_ids    *)
(* and its evidence. Videos are numbers, in the order of their names.      *)
(***************************************************************************)
EXTENDS Suite, Integers

CONSTANTS
    Videos,
    Annotations,    \* lists of rows, each an Annotation
    Contexts,       \* "single-session", "history"
    Limit, MaxVideos, MaxCurrent,       \* the selection
    Durations,      \* a video may turn out to have one of these, or not
                    \* to be there (None)
    Sources,        \* and frames at all but one of these instants
    Chunk,          \* chunk_seconds
    Rate,           \* sample_fps, per tick
    Slack,          \* how long before its end a window may have its last frame
    Tolerance,      \* how far evidence may exceed its video
    Pools,          \* --workers
    Disk,           \* space that may be free
    MinFree,        \* --min-free-gib
    Faults          \* bound: clips that cannot be decoded, for other reasons

Annotation ==
    [valid : BOOLEAN, answerable : BOOLEAN, visual : BOOLEAN,
     primary : Videos, stamp : Nat, queried : SUBSET Videos, cuts : SUBSET Nat,
     listed : SUBSET Videos,
     evidence : SUBSET [video : Videos, stamp : Nat, from : Nat, to : Nat]]

\* A clip of a video, and one that is being rendered, of which some is written.
Clip == [video : Videos, from : Nat, to : Nat]
Rendering == [job : Clip, written : Nat]

ASSUME SuperMemoryAssumption ==
    /\ Videos \subseteq Nat /\ IsFiniteSet(Videos)
    /\ Annotations \subseteq Seq(Annotation)
    /\ Contexts \subseteq {"single-session", "history"}
    /\ {Limit, MaxVideos, Chunk, Rate} \cup Pools \subseteq Nat \ {0}
    /\ {MaxCurrent, Slack, Tolerance, MinFree, Faults} \cup Disk \subseteq Nat
    /\ Durations \subseteq Nat \cup {None}
    /\ None \notin Nat \cup Rendering

VARIABLES
    \* the command lines and what they find
    rows, context, duration, gap, workers,
    next,       \* the row that make_plan looks at
    selected,   \* its examples: [row, recordings], each of these [video, end]
    pc,         \* "plan", "check", "render", "stop", "build", "freeze" or how it ended
    todo,       \* clips no thread has taken
    thread,     \* of each thread: None, or what it renders, a Rendering
    media,      \* of each clip in place: the frames it shows
    ended,      \* futures that are done and not looked at, [job, ok]
    failures,   \* what went wrong, in order
    cancelled,
    raised,     \* the error the caller sees
    free

planVars == <<rows, context, next, selected>>
settings == <<duration, gap, workers>>
pool == <<todo, thread, media, ended, failures, cancelled, free>>
vars == <<planVars, settings, pc, pool, raised, suiteVars>>

Least(a, b) == IF a < b THEN a ELSE b
Over == {"none", "refused", "failed", "interrupted", "killed"}

-----------------------------------------------------------------------------
(* make_plan *)

\* The starts that the annotations give a video; known if there is but one.
Starts(v) ==
    {rows[x].stamp : x \in {y \in DOMAIN rows : rows[y].primary = v}} \cup
    UNION {{e.stamp : e \in {f \in rows[x].evidence : f.video = v}} : x \in DOMAIN rows}
Known == {v \in Videos : Cardinality(Starts(v)) = 1}
StartOf(v) == CHOOSE s \in Starts(v) : TRUE

Cutoff(row) == Min(row.cuts)
Boundary(row) == StartOf(row.primary) + Cutoff(row)
Listed(row) == row.listed \cup {row.primary}

\* By start, then by name; the k-th has k - 1 before it.
Before(v, w) == StartOf(v) < StartOf(w) \/ (StartOf(v) = StartOf(w) /\ v < w)
InOrder(vs) ==
    [k \in 1..Cardinality(vs) |->
        CHOOSE v \in vs : Cardinality({w \in vs : Before(w, v)}) = k - 1]

\* The recordings before the query, in the order they were made.
History(row) ==
    IF context = "single-session" THEN <<row.primary>>
    ELSE InOrder({v \in Listed(row) : StartOf(v) < Boundary(row)})

\* Mutant of InTime: evidence may begin before the query and end after it.
InTimeStart(e, row) == StartOf(e.video) + e.from <= Boundary(row)

\* The evidence is over when the query is put.
InTime(e, row) == StartOf(e.video) + e.to <= Boundary(row)

Selectable(row) ==
    /\ row.valid /\ row.answerable /\ row.visual
    /\ row.evidence # {} /\ row.cuts # {}
    /\ row.queried = {row.primary}
    /\ 0 < Cutoff(row) /\ Cutoff(row) <= MaxCurrent
    /\ row.primary \in Known
    /\ \A e \in row.evidence :
          /\ e.from < e.to
          /\ e.video \in Known /\ StartOf(e.video) = e.stamp
          /\ InTime(e, row)
          /\ context = "single-session" => e.video = row.primary
    /\ context = "history" =>
          /\ Listed(row) \subseteq Known
          /\ \A e \in row.evidence : e.video \in ToSet(History(row))

Used == UNION {{r.video : r \in ToSet(selected[x].recordings)} : x \in DOMAIN selected}

\* A row is selected, or counted as excluded.
Consider ==
    /\ pc = "plan" /\ next <= Len(rows)
    /\ next' = next + 1
    /\ LET row == rows[next]
       IN  selected' =
             IF /\ Selectable(row)
                /\ Cardinality(Used \cup ToSet(History(row))) <= MaxVideos
                /\ Len(selected) < Limit
             THEN Append(selected, [row |-> row, recordings |->
                    [x \in DOMAIN History(row) |->
                       [video |-> History(row)[x],
                        end |-> Boundary(row) - StartOf(History(row)[x])]]])
             ELSE selected
    /\ UNCHANGED <<rows, context, settings, pc, pool, raised, suiteVars>>

\* read_plan refuses a plan without questions.
Planned ==
    /\ pc = "plan" /\ next > Len(rows)
    /\ pc' = IF selected = <<>> THEN "none" ELSE "check"
    /\ UNCHANGED <<planVars, settings, pool, raised, suiteVars>>

-----------------------------------------------------------------------------
(* prepare_suite: the clips *)

Ends(rec) == Least(rec.end, duration[rec.video])

\* The clips of a recording, up to where it is over or its query is put.
ClipsOf(rec) ==
    LET n == (Ends(rec) + Chunk - 1) \div Chunk
    IN  [k \in 1..n |-> [video |-> rec.video, from |-> (k - 1) * Chunk,
                         to |-> Least(k * Chunk, Ends(rec))]]

Jobs == UNION {UNION {ToSet(ClipsOf(r)) : r \in ToSet(selected[x].recordings)} :
                 x \in DOMAIN selected}

Budget(job) == (job.to - job.from) * Rate + 1

\* Mutant of Reservation: each thread only reserves what it will write itself.
ReservationOwn(job) == Budget(job)

\* The space there must be for a clip: its own, or the most that the clips
\* written at a time may need, which is that of the largest ones.
Reservation(job) ==
    IF workers = 1 THEN Budget(job)
    ELSE Max({MapThenSumSet(Budget, some) :
                 some \in {js \in SUBSET Jobs : Cardinality(js) <= workers}})

Room(needed) == free - needed >= MinFree

Valid ==
    /\ \A v \in Used : duration[v] # None      \* its file is found
    /\ \A x \in DOMAIN selected :
          /\ \A e \in selected[x].row.evidence : e.to <= duration[e.video] + Tolerance
          /\ \A r \in ToSet(selected[x].recordings) :
                r.video = selected[x].row.primary => r.end <= duration[r.video] + Tolerance

\* The arguments, durations and spans are checked before anything is made.
Check ==
    /\ pc = "check"
    /\ IF Valid /\ \E j \in Jobs : Room(Reservation(j)) /\ \A k \in Jobs : Budget(k) <= Budget(j)
       THEN pc' = "render" /\ todo' = Jobs
       ELSE pc' = "refused" /\ UNCHANGED todo
    /\ UNCHANGED <<planVars, settings, thread, media, ended, failures, cancelled, free,
                   raised, suiteVars>>

\* render_window: the k-th frame shown is the first one of the window at or
\* after the middle of its k-th part, or the last one.
Instants(v) == {t \in 0..duration[v] : t # gap[v]}
Shown(job) ==
    LET inside == {t \in Instants(job.video) : job.from <= t /\ t < job.to}
        length == job.to - job.from
        n      == length * Rate
    IN  IF inside = {} \/ Max(inside) < job.to - Slack THEN None
        ELSE [k \in 1..n |->
                LET due == {t \in inside : 2 * n * job.from + (2 * k - 1) * length <= 2 * n * t}
                IN  IF due = {} THEN Max(inside) ELSE Min(due)]

\* Mutant of Failed: one place for what went wrong.
FailedLatest(what) == <<what>>

\* failure_lock: only what happens before the cancellation is kept.
Failed(what) == IF cancelled THEN failures ELSE Append(failures, what)

Fails(w, what) ==
    /\ failures' = Failed(what)
    /\ cancelled' = TRUE
    /\ thread' = [thread EXCEPT ![w] = None]

\* A thread takes a clip, if it is not cancelled and there is room.
Take(w) ==
    /\ pc = "render" /\ w \in 1..workers /\ thread[w] = None
    /\ \E j \in todo :
          /\ todo' = todo \ {j}
          /\ IF ~cancelled /\ Room(Reservation(j))
             THEN /\ thread' = [thread EXCEPT ![w] = [job |-> j, written |-> 0]]
                  /\ UNCHANGED <<failures, cancelled, ended>>
             ELSE /\ Fails(w, IF cancelled THEN "cancelled" ELSE "space")
                  /\ ended' = ended \cup {[job |-> j, ok |-> FALSE]}
    /\ UNCHANGED <<planVars, settings, pc, media, free, raised, suiteVars>>

\* The partial file grows, to at most what was reserved for it.
Write(w) ==
    /\ thread[w] # None
    /\ thread[w].written = 0
    /\ \E n \in {1, Budget(thread[w].job)} :
          /\ thread' = [thread EXCEPT ![w].written = @ + n]
          /\ free' = free - n
    /\ UNCHANGED <<planVars, settings, pc, todo, media, ended, failures, cancelled, raised, suiteVars>>

\* The window cannot be decoded, the pool was cancelled or the disk ran low;
\* the partial file is removed.
Abandon(w) ==
    /\ thread[w] # None
    /\ LET job == thread[w].job
       IN  /\ \/ Shown(job) = None /\ Fails(w, "source")
              \/ Len(failures) < Faults /\ Fails(w, "fault")
              \/ cancelled /\ Fails(w, "cancelled")
              \/ ~Room(0) /\ Fails(w, "space")
           /\ ended' = ended \cup {[job |-> job, ok |-> FALSE]}
           /\ free' = free + thread[w].written
    /\ UNCHANGED <<planVars, settings, pc, todo, media, raised, suiteVars>>

\* The partial file is renamed, and the space looked at once more.
Rendered(w) ==
    /\ thread[w] # None
    /\ LET job == thread[w].job
       IN  /\ Shown(job) # None
           /\ media' = [j \in DOMAIN media \cup {job} |->
                         IF j = job THEN Shown(job) ELSE media[j]]
           /\ ended' = ended \cup {[job |-> job, ok |-> Room(0)]}
           /\ IF Room(0)
              THEN /\ thread' = [thread EXCEPT ![w] = None]
                   /\ UNCHANGED <<failures, cancelled>>
              ELSE Fails(w, "space")
    /\ UNCHANGED <<planVars, settings, pc, todo, free, raised, suiteVars>>

\* The caller looks at a future that is done. An error cancels the others,
\* and is the caller's when every thread has come to an end.
Collect ==
    /\ pc = "render"
    /\ \E f \in ended :
          /\ ended' = ended \ {f}
          /\ IF f.ok
             THEN UNCHANGED <<pc, todo, cancelled, raised>>
             ELSE /\ pc' = "stop" /\ todo' = {} /\ cancelled' = TRUE
                  /\ raised' = "error"
    /\ UNCHANGED <<planVars, settings, thread, media, failures, free, suiteVars>>

Interrupt ==
    /\ pc = "render"
    /\ pc' = "stop" /\ todo' = {} /\ cancelled' = TRUE
    /\ raised' = "interrupt"
    /\ UNCHANGED <<planVars, settings, thread, media, ended, failures, free, suiteVars>>

Stopped ==
    /\ pc = "stop"
    /\ \A w \in DOMAIN thread : thread[w] = None
    /\ IF raised = "interrupt" THEN pc' = "interrupted" /\ UNCHANGED raised
       ELSE pc' = "failed" /\ raised' = Head(failures)
    /\ UNCHANGED <<planVars, settings, pool, suiteVars>>

-----------------------------------------------------------------------------
(* prepare_suite: environments and items *)

\* The recordings as they are, and the sessions they are given as.
EnvOf(x) == [k \in DOMAIN selected[x].recordings |->
                [video |-> selected[x].recordings[k].video,
                 end |-> Ends(selected[x].recordings[k])]]
Sessions(env) == FlattenSeq([k \in DOMAIN env |-> ClipsOf(env[k])])

Shares(clip, e) == clip.video = e.video /\ e.from < clip.to /\ clip.from < e.to

\* The evidence of row, cut into the clips of env, on the clips' own time.
Spans(row, env) ==
    UNION {{[clip |-> c, from |-> IF e.from > c.from THEN e.from - c.from ELSE 0,
                         to |-> Least(e.to, c.to) - c.from] :
              c \in {d \in ToSet(Sessions(env)) : Shares(d, e)}} : e \in row.evidence}

Build ==
    /\ pc = "render"
    /\ todo = {} /\ ended = {}
    /\ \A w \in DOMAIN thread : thread[w] = None
    /\ pc' = "build"
    /\ release' = [items |-> <<>>, envs |-> <<>>]
    /\ UNCHANGED <<planVars, settings, pool, raised, writer, files, loader>>

\* The next question becomes an item; its environment is made if there is none
\* of the same recordings.
BuildItem ==
    /\ pc = "build"
    /\ Len(release.items) < Len(selected)
    /\ LET x   == Len(release.items) + 1
           env == EnvOf(x)
       IN  release' = [items |-> Append(release.items,
                          [id |-> x, env |-> env, spans |-> Spans(selected[x].row, env)]),
                       envs |-> IF env \in ToSet(release.envs) THEN release.envs
                                ELSE Append(release.envs, env)]
    /\ UNCHANGED <<planVars, settings, pc, pool, raised, writer, files, loader>>

\* The space is looked at for the last time.
Built ==
    /\ pc = "build"
    /\ Len(release.items) = Len(selected)
    /\ IF Room(1)
       THEN writer' = Ordered[1] /\ pc' = "freeze" /\ UNCHANGED raised
       ELSE pc' = "failed" /\ raised' = "space" /\ UNCHANGED writer
    /\ UNCHANGED <<planVars, settings, pool, release, files, loader>>

Freeze ==
    /\ SuiteNext
    /\ UNCHANGED <<planVars, settings, pc, pool, raised>>

\* Killed, in a directory that no later run of prepare will write to.
Kill ==
    /\ pc \in {"render", "stop", "build"} \/ (pc = "freeze" /\ writer # "done")
    /\ pc' = "killed"
    /\ writer' = "killed"
    /\ todo' = {}
    /\ thread' = [w \in DOMAIN thread |-> None]
    /\ UNCHANGED <<planVars, settings, media, ended, failures, cancelled, free, raised,
                   release, files, loader>>

Init ==
    /\ rows \in Annotations /\ context \in Contexts
    /\ duration \in [Videos -> Durations]
    /\ gap \in [Videos -> Sources]
    /\ workers \in Pools
    /\ next = 1 /\ selected = <<>> /\ pc = "plan"
    /\ todo = {} /\ thread = [w \in 1..workers |-> None]
    /\ media = << >> /\ ended = {} /\ failures = <<>> /\ cancelled = FALSE
    /\ raised = None
    /\ free \in Disk
    /\ SuiteInit

Next ==
    \/ Consider \/ Planned \/ Check
    \/ \E w \in 1..workers : Take(w) \/ Write(w) \/ Abandon(w) \/ Rendered(w)
    \/ Collect \/ Interrupt \/ Stopped \/ Build \/ BuildItem \/ Built \/ Freeze \/ Kill

Spec == Init /\ [][Next]_vars

-----------------------------------------------------------------------------
(* "No future video path reaches an adapter", and "Physically limit media   *)
(* before staging": no frame of any clip of an item was recorded at or      *)
(* after the moment its question is put, the clips of a recording follow    *)
(* on each other from its beginning, and the annotated evidence is in them, *)
(* second for second, as far as the video goes.                             *)
PastIsWholeFutureIsAbsent ==
    release # None =>
       \A x \in DOMAIN release.items :
          LET row == selected[x].row
              env == release.items[x].env
              clips == Sessions(env)
          IN  /\ \A k \in DOMAIN clips :
                    /\ clips[k] \in DOMAIN media
                    /\ \A f \in Range(media[clips[k]]) :
                          /\ clips[k].from <= f /\ f < clips[k].to
                          /\ StartOf(clips[k].video) + f < Boundary(row)
                    /\ k > 1 => IF clips[k].from = 0
                                THEN StartOf(clips[k - 1].video) <= StartOf(clips[k].video)
                                ELSE /\ clips[k].video = clips[k - 1].video
                                     /\ clips[k].from = clips[k - 1].to
              /\ \A e \in row.evidence : \A t \in e.from..(e.to - 1) :
                    t < duration[e.video] =>
                       \E s \in release.items[x].spans :
                          /\ s.clip.video = e.video
                          /\ s.clip.from + s.from <= t /\ t < s.clip.from + s.to
                          /\ s.clip.from + s.to <= s.clip.to

(* "Retain this disk space during preparation": the reserved floor is never *)
(* touched, whatever the threads write at the same time.                    *)
ReserveIsKept == pc \notin {"plan", "check", "none", "refused"} => free >= MinFree

(* "No worker may keep writing after an exception or Ctrl-C returns to the  *)
(* caller", the error that is raised is the one that came first, not the    *)
(* cancellation it led to, and nothing is frozen unless every clip is in    *)
(* place.                                                                   *)
PoolEndsClean ==
    /\ pc \in Over => \A w \in DOMAIN thread : thread[w] = None
    /\ pc = "failed" => raised \in {"source", "fault", "space"}
    /\ pc = "freeze" => Jobs \subseteq DOMAIN media
=============================================================================
