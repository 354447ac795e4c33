--------------------------------- MODULE Pilot ---------------------------------
(***************************************************************************)
(* scripts/run_ttt_pilot.py: the arms of an experiment one after the       *)
(* other, each a run of the harness in a directory of its own that is      *)
(* never resumed, then its report (build_report), at last the comparison   *)
(* and the exit code. A pilot that is killed leaves what it has written    *)
(* and cannot be taken up: its directory must be new.                      *)
(*                                                                         *)
(* Of a run only what its rows show is kept (Conversation has the rest):   *)
(* for each environment the evidence of ingestion, then the answers, and   *)
(* the ways to fail. One attempt leaves one line per item, so that store   *)
(* and file are one.                                                       *)
(***************************************************************************)
EXTENDS Scoring

CONSTANTS
    Env,            \* of an item
    Replies,        \* of an item: what systems answer
    Plans,          \* the lists of arms that may be given
    Evidence        \* what the ingestion of an environment may come to

\* The env_run of a row; the one of an ingestion that failed.
EnvRun == [n_records : Nat, total_frames : Nat, blank : Nat, contested : BOOLEAN]
NothingTaken == [n_records |-> 0, total_frames |-> 0, blank |-> 0, contested |-> FALSE]

ASSUME PilotAssumption ==
    /\ Plans \subseteq Seq(Tracks) \ {<<>>}
    /\ \A p \in Plans : IsInjective(p)
    /\ DOMAIN Env = Items /\ None \notin Range(Env)
    /\ Evidence \subseteq EnvRun
    /\ None \notin EnvRun

VARIABLES
    plan,           \* args.arms
    at,             \* the arm that is running
    pc,             \* "start", "run", "report", "compare", "done" or "raised"
    run,            \* of this arm: its environment and what the summary will say
    reports,        \* of each arm: None or report.json
    had_errors,     \* the exit code of a pilot that is done
    comparison,     \* None or comparison.json
    ingested        \* history: what each arm took in of each environment

pilot == <<plan, at, pc, run, reports, had_errors, comparison, ingested>>
allVars == <<vars, pilot>>

Mode(t) == CASE t = "blind" -> "blind" [] t = "oracle" -> "oracle"
             [] t \notin {"blind", "oracle"} -> "memory"

NewRun == [env |-> None, info |-> None, crashed |-> FALSE, contested |-> FALSE]

PilotInit ==
    /\ Init
    /\ plan = <<>>
    /\ at = 1
    /\ pc = "start"
    /\ run = NewRun
    /\ reports = [t \in Tracks |-> None]
    /\ had_errors = FALSE
    /\ comparison = None
    /\ ingested = [t \in Tracks |-> [e \in Range(Env) |-> None]]

\* The suite is loaded, every video is there, and the directory is new.
Start(p) ==
    /\ pc = "start" /\ reply = <<>>
    /\ plan' = p
    /\ pc' = "run"
    /\ UNCHANGED <<vars, at, run, reports, had_errors, comparison, ingested>>

-----------------------------------------------------------------------------
(* One arm: Runner.run. *)

Arm == plan[at]
Recorded == {rows[Arm][x].item : x \in DOMAIN rows[Arm]}
Left == Kept(Order, {x \in DOMAIN Order : Order[x] \notin Recorded})
LeftOf(e) == Kept(Left, {x \in DOMAIN Left : Env[Left[x]] = e})

Row(i, status, answer, info) ==
    [item |-> i, status |-> status, answer |-> answer, env_run |-> info]
Errors(items, info) == [x \in DOMAIN items |-> Row(items[x], "error", None, info)]
Write(new) == rows' = [rows EXCEPT ![Arm] = @ \o new]

\* Between two environments, with one to come: the one of the first item left.
Coming(e) ==
    /\ pc = "run"
    /\ run.env = None
    /\ Left # <<>> /\ e = Env[Head(Left)]

\* In a blind run no session counts as blank; only a memory run is revoked.
EvidenceIn(mode) ==
    {x \in Evidence : (mode = "blind" => x.blank = 0) /\ (mode # "memory" => ~x.contested)}

Ingest(e) ==
    /\ Coming(e)
    /\ \E x \in EvidenceIn(Mode(Arm)) :
          /\ run' = [run EXCEPT !.env = e, !.info = x, !.contested = @ \/ x.contested]
          /\ ingested' = [ingested EXCEPT ![Arm][e] = x]
    /\ UNCHANGED <<vars, plan, at, pc, reports, had_errors, comparison>>

\* A session fails: what the ones before it gave is not recorded.
IngestFails(e) ==
    /\ Coming(e)
    /\ Write(Errors(LeftOf(e), NothingTaken))
    /\ UNCHANGED <<reply, judged, pilot>>

Ask ==
    /\ pc = "run" /\ run.env # None
    /\ LET left == LeftOf(run.env)
           i == Head(left)
       IN  /\ \E row \in {Row(i, "ok", r, run.info) : r \in Replies[i]}
                           \cup {Row(i, "error", None, run.info)} : Write(<<row>>)
           /\ run' = IF Len(left) = 1 THEN [run EXCEPT !.env = None, !.info = None] ELSE run
    /\ UNCHANGED <<reply, judged, plan, at, pc, reports, had_errors, comparison, ingested>>

\* The system dies, at the latest when it is told that an environment ends; the
\* items left are recorded without an environment.
Crash ==
    /\ pc = "run"
    /\ Write(Errors(Left, None))
    /\ run' = [run EXCEPT !.env = None, !.info = None, !.crashed = TRUE]
    /\ pc' = "report"
    /\ UNCHANGED <<reply, judged, plan, at, reports, had_errors, comparison, ingested>>

Finish ==
    /\ pc = "run"
    /\ run.env = None /\ Left = <<>>
    /\ pc' = "report"
    /\ UNCHANGED <<vars, plan, at, run, reports, had_errors, comparison, ingested>>

\* Any other exception leaves run(), and the pilot with it.
Abort ==
    /\ pc = "run"
    /\ pc' = "raised"
    /\ UNCHANGED <<vars, plan, at, run, reports, had_errors, comparison, ingested>>

-----------------------------------------------------------------------------
(* build_report *)

\* What the environments that are shown come to together.
Sums(infos) ==
    [n_envs       |-> Cardinality(DOMAIN infos),
     n_records    |-> SumFunction([e \in DOMAIN infos |-> infos[e].n_records]),
     total_frames |-> SumFunction([e \in DOMAIN infos |-> infos[e].total_frames]),
     blank        |-> SumFunction([e \in DOMAIN infos |-> infos[e].blank])]

EnvOf(row) == Env[row.item]
InfoAt(rs, places, e) == rs[Max({x \in places : EnvOf(rs[x]) = e})].env_run

\* Mutant of IngestEvidence: a last row that has none hides its environment.
IngestEvidenceOfLast(rs) ==
    LET envs == {EnvOf(rs[x]) : x \in DOMAIN rs}
    IN  Sums([e \in {v \in envs : InfoAt(rs, DOMAIN rs, v) # None} |->
                InfoAt(rs, DOMAIN rs, e)])

IngestEvidence(rs) ==
    LET shown == {x \in DOMAIN rs : rs[x].env_run # None}
    IN  Sums([e \in {EnvOf(rs[x]) : x \in shown} |-> InfoAt(rs, shown, e)])

NoVerdict == [i \in Items |-> None]

\* Only of a memory run that has evidence at all.
IngestNotes(ingest, mode) ==
    {n \in {"no_records", "blank"} :
       /\ ingest.n_envs > 0 /\ mode = "memory"
       /\ n = "no_records" => ingest.n_records = 0
       /\ n = "blank" => ingest.blank > 0}

BuildReport(rs, mode) ==
    LET scores    == ScoresOf(rs, NoVerdict)
        overall   == Aggregate(scores)
        contested == \E x \in DOMAIN rs : rs[x].env_run # None /\ rs[x].env_run.contested
        ingest    == IngestEvidence(rs)
    IN  [overall |-> overall, axes |-> ByAxis(scores), contested |-> contested,
         ingest |-> ingest,
         notes |-> {n \in {"pending"} : overall.n_pending > 0}
                   \cup {n \in {"contested"} : contested}
                   \cup IngestNotes(ingest, mode)]

Report ==
    /\ pc = "report"
    /\ reports' = [reports EXCEPT ![Arm] = BuildReport(rows[Arm], Mode(Arm))]
    /\ had_errors' = (had_errors \/ \E x \in DOMAIN rows[Arm] : rows[Arm][x].status # "ok")
    /\ run' = NewRun
    /\ \/ /\ run.crashed \/ run.contested
          /\ pc' = "raised" /\ at' = at
       \/ /\ ~run.crashed /\ ~run.contested
          /\ pc' = IF at = Len(plan) THEN "compare" ELSE "run"
          /\ at' = IF at = Len(plan) THEN at ELSE at + 1
    /\ UNCHANGED <<vars, plan, comparison, ingested>>

Compare ==
    /\ pc = "compare"
    /\ LET compared == {b \in Baselines \cap ToSet(plan) : "memory" \in ToSet(plan)}
       IN  comparison' = [b \in compared |-> MemoryGain(ScoresOf(rows["memory"], NoVerdict),
                                                        ScoresOf(rows[b], NoVerdict))]
    /\ pc' = "done"
    /\ UNCHANGED <<vars, plan, at, run, reports, had_errors, ingested>>

-----------------------------------------------------------------------------
\* What Scoring asks of replies comes before, what it asks of judges after.
Reading == \E w \in Vocabulary : Say(w) /\ pc = "start" /\ UNCHANGED pilot
Judging ==
    /\ pc = "done"
    /\ \E i \in Items, v \in Verdicts : JudgeItem(i, v)
    /\ UNCHANGED pilot

Next ==
    \/ \E p \in Plans : Start(p)
    \/ \E e \in Range(Env) : Ingest(e) \/ IngestFails(e)
    \/ Ask \/ Crash \/ Finish \/ Abort \/ Report \/ Compare
    \/ Reading \/ Judging

Spec == PilotInit /\ [][Next]_allVars

-----------------------------------------------------------------------------
\* The environments of which a report has an answer.
AnsweredIn(t) == {EnvOf(rows[t][x]) : x \in {y \in DOMAIN rows[t] : rows[t][y].status = "ok"}}

(* "Evidence that ingestion actually happened": no report shows answers     *)
(* from a memory that was built with nothing to see in a session, or beside *)
(* media that were held, without saying so, wherever the run crashed or an  *)
(* ingestion failed, and it does not say so for nothing. "Item-level        *)
(* protocol errors must not be mistaken for a successful pilot": one that   *)
(* is done has a report of every item of every arm, its exit code says      *)
(* whether any of them counts an error, and with none nothing but what      *)
(* awaits a judge is left out of a comparison.                              *)
ReportsAreTrue ==
    /\ \A t \in Tracks :
          reports[t] # None =>
             LET had(e) == ingested[t][e]
                 noted == reports[t].notes
             IN  /\ \A e \in AnsweredIn(t) :
                       /\ had(e).contested => "contested" \in noted
                       /\ had(e).blank > 0 /\ Mode(t) = "memory" => "blank" \in noted
                 /\ "blank" \in noted => \E e \in Range(Env) : had(e) # None /\ had(e).blank > 0
                 /\ "no_records" \in noted => \A e \in AnsweredIn(t) : had(e).n_records = 0
    /\ pc = "done" =>
          LET done == {reports[t] : t \in ToSet(plan)}
          IN  /\ \A r \in done : ~r.contested /\ r.overall.n + r.overall.n_pending = Len(Order)
              /\ had_errors <=> \E r \in done : r.overall.n_error > 0
              /\ \A b \in DOMAIN comparison :
                    LET o == comparison[b].overall
                    IN  o # None =>
                          /\ o.n_paired + o.n_dropped = Len(Order)
                          /\ ~had_errors => o.n_dropped = reports[b].overall.n_pending
=============================================================================
