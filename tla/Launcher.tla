------------------------------- MODULE Launcher -------------------------------
(***************************************************************************)
(* scripts/run_real.py, given again and again with one tag: the run        *)
(* folders, execution.json as the only guard against resuming under other  *)
(* settings, one worker thread per model, one child process (meowbench     *)
(* run) per track, and the verdict made from predictions.jsonl.            *)
(*                                                                         *)
(* A setting is everything the signature records: suite, media, model      *)
(* configuration and command, and the commit. What the rows of a child     *)
(* are and in which order they come is the subject of Conversation, how    *)
(* they are stored that of RunStore; here store and file are one.          *)
(***************************************************************************)
EXTENDS Naturals, FiniteSets

CONSTANTS
    Models, Tracks,     \* of the configuration
    Items,              \* of the suite, after env_ids
    Configs,            \* configurations the operator may pass
    Commits,            \* versions of the code
    Workers,            \* conf['workers']
    Launches,           \* bound: launches, in the order they are given
    Kills,              \* bound: launches killed
    InTurn,             \* launches are given, and code is checked out, only
                        \* while nothing of an earlier launch is running
    None,
    Torn                \* a run folder without a readable execution.json

Runs == Models \X Tracks
Settings == [config : Configs, commit : Commits]

\* What can be wrong with an item's last row, if it has one; "wrong_mode": the
\* system declared another context mode than that of the run.
Flaws == {"none", "not_ok", "wrong_mode", "no_frames", "no_memory"}
Row == [flaw : Flaws, under : Settings]

ASSUME LauncherAssumption ==
    /\ Tracks \subseteq {"blind", "memory", "oracle"}
    /\ Workers \in Nat \ {0}
    /\ Launches \in Nat
    /\ Kills \in Nat
    /\ InTurn \in BOOLEAN
    /\ None # Torn
    /\ {None, Torn} \cap Settings = {}
    /\ None \notin Row \cup Tracks \cup {0, 1}

VARIABLES
    commit,     \* checked out in the repository
    folder,     \* of each run: None, Torn, or the signature in its marker
    rows,       \* of each run and item: None, or the last row of the file
    launch,     \* of each launch: where it is, what it has left to do
    child,      \* processes of meowbench run
    kills,
    compared    \* pairs <<launch, model>> whose memory and blind runs it compared

vars == <<commit, folder, rows, launch, child, kills, compared>>

Signature(n) == [config |-> launch[n].config, commit |-> launch[n].commit]
Over == {"off", "refused", "completed", "failed", "killed"}
Quiet == child = {} /\ \A n \in 1..Launches : launch[n].pc \in Over
At(n, pc) == n \in 1..Launches /\ launch[n].pc = pc

Init ==
    /\ commit \in Commits
    /\ folder = [r \in Runs |-> None]
    /\ rows = [r \in Runs |-> [i \in Items |-> None]]
    /\ launch = [n \in 1..Launches |->
                    [pc |-> "off", config |-> None, commit |-> None,
                     unchecked |-> Runs, cur |-> None,
                     track |-> [m \in Models |-> None],
                     code |-> [m \in Models |-> None],
                     left |-> [m \in Models |-> Tracks],
                     failed |-> {}]]
    /\ child = {}
    /\ kills = 0
    /\ compared = {}

\* main() down to the signatures: the suite is verified and the source clean,
\* and this is when the commit is read.
Start(n, c) ==
    /\ At(n, "off")
    /\ \A e \in 1..(n - 1) : launch[e].pc # "off"
    /\ InTurn => Quiet
    /\ launch' = [launch EXCEPT ![n].pc = "check", ![n].config = c,
                                ![n].commit = commit]
    /\ UNCHANGED <<commit, folder, rows, child, kills, compared>>

-----------------------------------------------------------------------------
(* The signatures, one run after the other. *)

\* Mutant of Mine: a folder without a readable marker counts as new.
MineUnlessOther(n, r) == folder[r] \in {None, Torn, Signature(n)}

\* The run is new, or was begun under this very signature.
Mine(n, r) == folder[r] \in {None, Signature(n)}

Check(n) ==
    /\ At(n, "check")
    /\ \E r \in launch[n].unchecked :
          IF Mine(n, r)
          THEN launch' = [launch EXCEPT ![n].pc = "open", ![n].cur = r]
          ELSE launch' = [launch EXCEPT ![n].pc = "refused"]
    /\ UNCHANGED <<commit, folder, rows, child, kills, compared>>

\* The folder is made, and the marker opened for writing, which empties it.
Open(n) ==
    /\ At(n, "open")
    /\ folder' = [folder EXCEPT ![launch[n].cur] = Torn]
    /\ launch' = [launch EXCEPT ![n].pc = "mark"]
    /\ UNCHANGED <<commit, rows, child, kills, compared>>

Mark(n) ==
    /\ At(n, "mark")
    /\ folder' = [folder EXCEPT ![launch[n].cur] = Signature(n)]
    /\ LET left == launch[n].unchecked \ {launch[n].cur}
       IN  launch' = [launch EXCEPT ![n].unchecked = left, ![n].cur = None,
                                    ![n].pc = IF left = {} THEN "run" ELSE "check"]
    /\ UNCHANGED <<commit, rows, child, kills, compared>>

-----------------------------------------------------------------------------
(* run_model: the tracks of a model one after the other, in a thread that    *)
(* serves one model to its end.                                              *)

Begun(n) == {m \in Models : launch[n].left[m] # {} /\
                            (launch[n].left[m] # Tracks \/ launch[n].track[m] # None)}

\* meowbench run resumes: it skips the items answered.
Unanswered(r) == {i \in Items : rows[r][i] = None \/ rows[r][i].flaw = "not_ok"}

\* The child runs the code that is checked out when it starts.
StartRun(n, m) ==
    /\ At(n, "run")
    /\ launch[n].track[m] = None
    /\ m \in Begun(n) \/ Cardinality(Begun(n)) < Workers
    /\ \E t \in launch[n].left[m] :
          /\ launch' = [launch EXCEPT ![n].track[m] = t, ![n].code[m] = None]
          /\ child' = child \cup
                {[launch |-> n, run |-> <<m, t>>, left |-> Unanswered(<<m, t>>),
                  under |-> [config |-> launch[n].config, commit |-> commit]]}
    /\ UNCHANGED <<commit, folder, rows, kills, compared>>

\* Ends p with an exit code, if its launch is still there to see it.
Returns(p, code) ==
    /\ child' = child \ {p}
    /\ launch' = IF launch[p.launch].pc = "run"
                 THEN [launch EXCEPT ![p.launch].code[p.run[1]] = code]
                 ELSE launch

\* Nothing is ingested in a blind run.
RowsOf(p) ==
    [flaw : IF p.run[2] = "blind" THEN {"no_frames", "wrong_mode", "not_ok"} ELSE Flaws,
     under : {p.under}]

Answer(p) ==
    /\ \E i \in p.left, row \in RowsOf(p) :
          /\ rows' = [rows EXCEPT ![p.run][i] = row]
          /\ child' = (child \ {p}) \cup {[p EXCEPT !.left = @ \ {i}]}
    /\ UNCHANGED <<commit, folder, launch, kills, compared>>

\* Every item has its row; main() of the command line returns 0.
Done(p) ==
    /\ p.left = {}
    /\ Returns(p, 0)
    /\ UNCHANGED <<commit, folder, rows, kills, compared>>

\* The system crashed, and of the items left those without a row become errors.
Crashed(p) ==
    /\ rows' = [rows EXCEPT ![p.run] = [i \in Items |->
                   IF i \in p.left /\ @[i] = None
                   THEN [flaw |-> "not_ok", under |-> p.under] ELSE @[i]]]
    /\ Returns(p, 1)
    /\ UNCHANGED <<commit, folder, kills, compared>>

\* The child ends with an exception or is killed: items may have no row.
Dies(p) ==
    /\ Returns(p, 1)
    /\ UNCHANGED <<commit, folder, rows, kills, compared>>

-----------------------------------------------------------------------------
(* The verdict. *)

\* Mutant of Harmful: the memory of a memory run is not looked at.
HarmfulFrames(flaw, track) ==
    flaw \in {"not_ok", "wrong_mode"} \/ (flaw = "no_frames" /\ track # "blind")

Harmful(flaw, track) ==
    \/ flaw \in {"not_ok", "wrong_mode"}
    \/ flaw = "no_frames" /\ track # "blind"
    \/ flaw = "no_memory" /\ track = "memory"

Bad(r, code) ==
    \/ code # 0
    \/ \E i \in Items : rows[r][i] = None \/ Harmful(rows[r][i].flaw, r[2])

Judge(n, m) ==
    /\ At(n, "run")
    /\ launch[n].code[m] # None
    /\ LET t == launch[n].track[m]
       IN  launch' = [launch EXCEPT
              ![n].track[m] = None, ![n].code[m] = None,
              ![n].left[m] = @ \ {t},
              ![n].failed = IF Bad(<<m, t>>, launch[n].code[m])
                            THEN @ \cup {<<m, t>>} ELSE @]
    /\ UNCHANGED <<commit, folder, rows, child, kills, compared>>

Comparable(n, m) ==
    /\ {"memory", "blind"} \subseteq Tracks
    /\ {<<m, "memory">>, <<m, "blind">>} \cap launch[n].failed = {}

Finish(n) ==
    /\ At(n, "run")
    /\ \A m \in Models : launch[n].left[m] = {}
    /\ compared' = compared \cup {<<n, m>> : m \in {x \in Models : Comparable(n, x)}}
    /\ launch' = [launch EXCEPT ![n].pc =
                     IF launch[n].failed = {} THEN "completed" ELSE "failed"]
    /\ UNCHANGED <<commit, folder, rows, child, kills>>

-----------------------------------------------------------------------------
(* The environment. *)

\* The launcher is killed, its children with it or not.
Kill(n) ==
    /\ n \in 1..Launches /\ launch[n].pc \notin Over
    /\ kills < Kills
    /\ kills' = kills + 1
    /\ launch' = [launch EXCEPT ![n].pc = "killed"]
    /\ child' \in {child, {p \in child : p.launch # n}}
    /\ UNCHANGED <<commit, folder, rows, compared>>

Checkout ==
    /\ InTurn => Quiet
    /\ commit' \in Commits \ {commit}
    /\ UNCHANGED <<folder, rows, launch, child, kills, compared>>

Next ==
    \/ \E n \in 1..Launches :
          \/ \E c \in Configs : Start(n, c)
          \/ Check(n) \/ Open(n) \/ Mark(n) \/ Finish(n) \/ Kill(n)
          \/ \E m \in Models : StartRun(n, m) \/ Judge(n, m)
    \/ \E p \in child : Answer(p) \/ Done(p) \/ Crashed(p) \/ Dies(p)
    \/ Checkout

Spec == Init /\ [][Next]_vars

-----------------------------------------------------------------------------
TypeOK ==
    /\ commit \in Commits
    /\ folder \in [Runs -> {None, Torn} \cup Settings]
    /\ rows \in [Runs -> [Items -> {None} \cup Row]]
    /\ launch \in [1..Launches ->
          [pc : Over \cup {"check", "open", "mark", "run"},
           config : {None} \cup Configs, commit : {None} \cup Commits,
           unchecked : SUBSET Runs, cur : {None} \cup Runs,
           track : [Models -> {None} \cup Tracks], code : [Models -> {None, 0, 1}],
           left : [Models -> SUBSET Tracks], failed : SUBSET Runs]]
    /\ child \subseteq [launch : 1..Launches, run : Runs, left : SUBSET Items,
                        under : Settings]
    /\ kills \in 0..Kills
    /\ compared \subseteq (1..Launches) \X Models

Whole(r, n) ==
    \A i \in Items :
       /\ rows[r][i] # None
       /\ rows[r][i].under = Signature(n)
       /\ rows[r][i].flaw \in {"none"} \cup
             CASE r[2] = "blind"  -> {"no_frames", "no_memory"}
               [] r[2] = "oracle" -> {"no_memory"}
               [] r[2] = "memory" -> {}

(* "Never resume predictions after changing input media, model settings or  *)
(* code": all rows of a run were made under one setting, the one in its     *)
(* marker if that can be read, over launches that were refused or killed at *)
(* any point and children that outlived them.                               *)
RowsMatchMarker ==
    \A r \in Runs, i \in Items :
       rows[r][i] # None =>
          /\ folder[r] \in {Torn, rows[r][i].under}
          /\ \A j \in Items : rows[r][j] # None => rows[r][j].under = rows[r][i].under

(* A launch that reports "Completed tag" did leave, and later launches with *)
(* the tag do not take away, a sound answer to every item in every run; and *)
(* memory gain is only computed from two runs that are whole, under the     *)
(* launch's own setting, and stay so.                                       *)
VerdictsAreTrue ==
    \A n \in 1..Launches :
       /\ launch[n].pc = "completed" => \A r \in Runs : Whole(r, n)
       /\ \A m \in Models : <<n, m>> \in compared =>
             Whole(<<m, "memory">>, n) /\ Whole(<<m, "blind">>, n)
=============================================================================
