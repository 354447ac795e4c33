-------------------------------- MODULE Scoring --------------------------------
(***************************************************************************)
(* scoring/aggregate.py: the score of a row, the aggregates of a run and   *)
(* the memory gain between two. Scores are in tenths: the values that mean *)
(* relative accuracy, multiple choice and the judge give.                  *)
(***************************************************************************)
EXTENDS Extraction, FiniteSetsExt

CONSTANTS
    Items,
    Axis,           \* of an item
    Format,         \* of an item: "mcq", "mcq5", "numeric" or "open"
    Options,        \* of an item, for the multiple choice formats
    Abstention,     \* of an item: row.abstention_option
    Gold,           \* of an item: its letter or number
    Order,          \* the items as the suite has them
    Vocabulary,     \* the pieces of the one long reply
    Verdicts,       \* what a judge may give
    MaxWords        \* bound: its length

\* The runs there are; the second row is what memory is compared with.
Tracks == {"memory", "notes", "oracle",
           "blind", "base-read"}
Baselines == {"blind", "base-read"}

\* What paired_gain returns.
Estimate == [n_paired : Nat, n_dropped : Int, sum_a : Int, sum_b : Int, gain : Int,
             degenerate : BOOLEAN, significant : BOOLEAN]

ASSUME ScoringAssumption ==
    /\ Order \in Seq(Items) /\ ToSet(Order) = Items /\ IsInjective(Order)
    /\ \A i \in Items :
          /\ Format[i] \in {"mcq", "mcq5", "numeric", "open"}
          /\ Format[i] = "numeric" => Gold[i] # 0
          /\ Format[i] = "mcq5" =>
                /\ Options[i] \in [Letters -> Seq(Vocabulary)]
                /\ "E" \in Letters /\ Options[i]["E"] = Unanswerable
    /\ Verdicts \subseteq 0..10
    /\ None \notin Int \cup Estimate

VARIABLES
    reply,      \* a reply being written
    rows,       \* of each track: the rows of its run, in order
    judged      \* of each open item: None or the judge's verdict

vars == <<reply, rows, judged>>

Init ==
    /\ reply = <<>>
    /\ rows = [t \in Tracks |-> <<>>]
    /\ judged = [i \in Items |-> None]

\* A system writes its reply piece by piece.
Say(w) ==
    /\ Len(reply) < MaxWords
    /\ reply' = Append(reply, w)
    /\ UNCHANGED <<rows, judged>>

JudgeItem(i, v) ==
    /\ Format[i] = "open"
    /\ judged[i] = None
    /\ judged' = [judged EXCEPT ![i] = v]
    /\ UNCHANGED <<reply, rows>>

-----------------------------------------------------------------------------
(* score_prediction *)

ItemScore(row, score, abstained, pending) ==
    [item |-> row.item, score |-> score, abstained |-> abstained, pending |-> pending]

ScoreChoice(row) ==
    LET i == row.item
        letter == Extract(row.answer, Options[i])
    IN  ItemScore(row, IF letter = Gold[i] THEN 10 ELSE 0,
                  letter # None /\ letter = (IF Format[i] = "mcq5" THEN "E" ELSE Abstention[i]),
                  FALSE)

\* An open item is given the verdict of the judge, if there is one.
ScorePrediction(row, verdicts) ==
    CASE row.status # "ok" -> ItemScore(row, None, FALSE, FALSE)
      [] row.status = "ok" /\ Format[row.item] \in {"mcq", "mcq5"} -> ScoreChoice(row)
      [] row.status = "ok" /\ Format[row.item] = "numeric" ->
            ItemScore(row, RelativeAccuracy(row.answer, Gold[row.item]), FALSE, FALSE)
      [] row.status = "ok" /\ Format[row.item] = "open" ->
            ItemScore(row, verdicts[row.item], FALSE, verdicts[row.item] = None)

ScoresOf(rs, verdicts) == {ScorePrediction(rs[x], verdicts) : x \in DOMAIN rs}
Scores(t) == ScoresOf(rows[t], judged)

-----------------------------------------------------------------------------
(* aggregate, by_axis *)

Scored(scores) == {s \in scores : s.score # None}
SumOf(scores) == SumFunction([s \in scores |-> s.score])

\* Mutant of Aggregate: errors leave the denominator.
AggregateAnswered(scores) ==
    [n           |-> Cardinality(Scored(scores)),
     n_correct   |-> Cardinality({s \in Scored(scores) : s.score >= 10}),
     n_incorrect |-> Cardinality({s \in Scored(scores) : s.score < 10}),
     n_abstained |-> Cardinality({s \in Scored(scores) : s.abstained}),
     n_error     |-> Cardinality({s \in scores : s.score = None /\ ~s.pending}),
     n_pending   |-> Cardinality({s \in scores : s.pending}),
     score_sum   |-> SumOf(Scored(scores))]

Aggregate(scores) ==
    [n           |-> Cardinality({s \in scores : ~s.pending}),
     n_correct   |-> Cardinality({s \in Scored(scores) : s.score >= 10}),
     n_incorrect |-> Cardinality({s \in Scored(scores) : s.score < 10}),
     n_abstained |-> Cardinality({s \in Scored(scores) : s.abstained}),
     n_error     |-> Cardinality({s \in scores : s.score = None /\ ~s.pending}),
     n_pending   |-> Cardinality({s \in scores : s.pending}),
     score_sum   |-> SumOf(Scored(scores))]

OnAxis(scores, a) == {s \in scores : Axis[s.item] = a}
AxesOf(scores) == {Axis[s.item] : s \in scores}
ByAxis(scores) == [a \in AxesOf(scores) |-> Aggregate(OnAxis(scores, a))]

-----------------------------------------------------------------------------
(* paired_gain, memory_gain: the sums over the pairs stand for the means,    *)
(* None for no estimate.                                                     *)

ScoreIn(scores, i) == (CHOOSE s \in scores : s.item = i).score
ItemsOf(scores) == {s.item : s \in scores}

PairedGain(a, b) ==
    LET shared == ItemsOf(Scored(a)) \cap ItemsOf(Scored(b))
        n      == Cardinality(shared)
        d      == [i \in shared |-> ScoreIn(a, i) - ScoreIn(b, i)]
        s      == SumFunction(d)
        q      == SumFunction([i \in shared |-> d[i] * d[i]])
        flat   == \A i, j \in shared : d[i] = d[j]
    IN  IF shared = {} THEN None
        ELSE [n_paired |-> n,
              n_dropped |-> Cardinality(ItemsOf(a) \cup ItemsOf(b)) - n,
              sum_a |-> SumFunction([i \in shared |-> ScoreIn(a, i)]),
              sum_b |-> SumFunction([i \in shared |-> ScoreIn(b, i)]),
              gain |-> s,
              degenerate |-> flat,
              \* The mean is further from 0 than 1.96 standard errors.
              significant |-> ~flat /\ 10000 * s * s * (n - 1) > 38415 * (n * q - s * s)]

\* Mutant of MemoryGain: an axis is given the rows that have a score.
MemoryGainScored(memory, blind) ==
    [overall |-> PairedGain(memory, blind),
     axes |-> [a \in AxesOf(memory) \cup AxesOf(blind) |->
                  PairedGain(OnAxis(Scored(memory), a), OnAxis(Scored(blind), a))]]

MemoryGain(memory, blind) ==
    [overall |-> PairedGain(memory, blind),
     axes |-> [a \in AxesOf(memory) \cup AxesOf(blind) |->
                  PairedGain(OnAxis(memory, a), OnAxis(blind, a))]]

-----------------------------------------------------------------------------
\* The mentions of option k, in words of its own or in others, that are not a part of a longer option's mention.
OwnMentions(t, k, options) ==
    {i \in Mentions(options[k], t) :
       ~\E j \in DOMAIN options : \E x \in Mentions(options[j], t) :
          /\ Len(options[j]) > Len(options[k])
          /\ x <= i /\ i + Len(options[k]) <= x + Len(options[j])}
OptionsNamed(t, options) == {k \in DOMAIN options : OwnMentions(t, k, options) # {}}

Refuses(t) == \E p \in Refusals : Stands(p, t)

\* A negation is a word of what is beside the mentions of p.
Beside(t, p) == {i \in 1..Len(t) : ~\E x \in Mentions(p, t) : x <= i /\ i < x + Len(p)}
DeniedBeside(t, p) == NegatedIn(t, Beside(t, p))

\* No two mentions of p overlap.
Apart(t, p) == \A x, y \in Mentions(p, t) : x < y => x + Len(p) <= y

(* A reply without letters commits to an option only by holding its text,   *)
(* as a word or in one ("bedroom" holds "bed"), and no other but as a part  *)
(* of its wording, or by refusing, for E; holding the text of one option    *)
(* and denying nothing is always heard; what is denied beside it never is   *)
(* (where its mentions do not overlap, when one replaced hides the next);   *)
(* and so is heard a refusal that holds no option, in whatever words and    *)
(* with whatever emphasis: the controls that cannot be answered rest on it. *)
ReplyReadBy(options) ==
    LET t == Stripped(reply)
        x == Extract(reply, options)
        named == OptionsNamed(t, options)
    IN  (\A w \in ToSet(t) : ~IsLetter(w)) =>
          /\ x # None => \/ /\ x \in named /\ \A k \in named : Within(options[k], options[x])
                            /\ Apart(t, options[x]) => ~DeniedBeside(t, options[x])
                         \/ x = "E" /\ Refuses(t)
          /\ \A k \in named :
                named = {k} /\ Apart(t, options[k]) /\ ~DeniedBeside(t, options[k]) => x = k
          /\ named = {} => x = IF Refuses(t) THEN "E" ELSE None

ReplyRead == \A i \in Items : Format[i] = "mcq5" => ReplyReadBy(Options[i])

(* "Nesting: 'shelf' matches only because 'the top shelf' does"             *)
(* (deterministic.py:182): of an option that is committed to without a     *)
(* letter or a refusal, the words stand in the reply. Refuted: the text of  *)
(* an option is looked for in the letters of the reply, so that "bookshelf" *)
(* commits to "shelf".                                                      *)
OptionsAreNamed ==
    \A i \in Items : Format[i] = "mcq5" =>
       LET t == Stripped(reply)
           x == Extract(reply, Options[i])
       IN  (\A w \in ToSet(t) : ~IsLetter(w)) /\ x # None /\ ~Refuses(t) => Stands(Options[i][x], t)

\* The score of an item as if its run had failed on it.
AsError(s) == [s EXCEPT !.score = None, !.abstained = FALSE, !.pending = FALSE]

(* "Errors stay in the denominator": every row is counted once, in the      *)
(* report of the run and in that of its axis, with a score between none and *)
(* one; and a run never looks better for failing on an item than for any    *)
(* answer, whatever the judge has said of the open ones.                    *)
DenominatorIsHonest ==
    \A t \in Tracks :
       LET scores == Scores(t)
           r == Aggregate(scores)
           axes == ByAxis(scores)
       IN  /\ r.n + r.n_pending = Len(rows[t])
           /\ r.n = r.n_correct + r.n_incorrect + r.n_error
           /\ r.n = SumFunction([a \in DOMAIN axes |-> axes[a].n])
           /\ r.score_sum = SumFunction([a \in DOMAIN axes |-> axes[a].score_sum])
           /\ \A s \in scores :
                 /\ s.score \in {None} \cup 0..10
                 /\ s.pending => s.score = None /\ Format[s.item] = "open"
                 /\ LET f == Aggregate((scores \ {s}) \cup {AsError(s)})
                    IN  r.n > 0 => f.score_sum * r.n <= r.score_sum * f.n

(* Memory gain: "report and compare disagree about n" only by what is       *)
(* counted as dropped, overall and on each axis; where nothing is dropped   *)
(* the gain is the difference of the two reports; it is the sum of the      *)
(* axes; comparing the runs the other way round turns its sign and nothing  *)
(* else; and no difference, one pair or a constant shift is significant.    *)
GainAddsUp ==
    \A t \in Baselines :
       LET a == Scores("memory")
           b == Scores(t)
           g == MemoryGain(a, b)
           o == g.overall
           given == {x \in DOMAIN g.axes : g.axes[x] # None}
           Counts(e, p, q) == e.n_paired + e.n_dropped = Cardinality(ItemsOf(p) \cup ItemsOf(q))
       IN  /\ \A x \in given : Counts(g.axes[x], OnAxis(a, x), OnAxis(b, x))
           /\ (o = None) <=> (given = {})
           /\ o # None =>
                 /\ Counts(o, a, b)
                 /\ o.n_paired = SumFunction([x \in given |-> g.axes[x].n_paired])
                 /\ o.gain = SumFunction([x \in given |-> g.axes[x].gain])
                 /\ o.n_dropped = 0 =>
                       /\ o.n_paired = Aggregate(a).n /\ o.n_paired = Aggregate(b).n
                       /\ o.gain = Aggregate(a).score_sum - Aggregate(b).score_sum
                 /\ PairedGain(b, a) = [o EXCEPT !.gain = -@, !.sum_a = o.sum_b, !.sum_b = o.sum_a]
                 /\ o.significant => o.n_paired > 1 /\ o.gain # 0 /\ ~o.degenerate
=============================================================================
