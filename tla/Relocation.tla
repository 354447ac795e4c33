------------------------------- MODULE Relocation -------------------------------
(***************************************************************************)
(* datasets/r3scan.py, miners/a3_relocation.py, scripts/mine_r3scan_a3.py: *)
(* questions on what a moved object ended up nearest to, mined room by     *)
(* room, audited, frozen. A dataset holds `rooms`, the entries of          *)
(* 3RScan.json: their id, a pair of its first eight characters and the     *)
(* rest, their split and their rescans with the `rigid` moves; `labels`,   *)
(* the label of every labelled instance of a scan; and `boxes`, the        *)
(* centroids of a scan in the order of their file. Space has one           *)
(* dimension. A label is a record: `lower`, the words it reads in lower    *)
(* case, and whatever tells two spellings of them apart.                   *)
(***************************************************************************)
EXTENDS Integers, Sequences, FiniteSets, SequencesExt, FiniteSetsExt

CONSTANTS
    None,            \* nothing: no box, no label, no limit, no suite
    Withheld,        \* a rigid entry that is a bare integer
    Datasets,        \* what the files may hold
    Commands,        \* records: cap (--max-per-env), limit, force
    UNUSABLE_LABELS, STRUCTURAL_LABELS,   \* in lower case
    N_DISTRACTORS,   \* the wrong options of a question
    MIN_DISPLACEMENT_M, MIN_MARGIN_M

\* Both the environments and the centroids of a scan are dicts, so that no two
\* have one id.
ASSUME RelocationAssumption ==
    /\ N_DISTRACTORS \in Nat \ {0} /\ MIN_MARGIN_M \in Nat \ {0} /\ MIN_DISPLACEMENT_M \in Nat
    /\ \A c \in Commands : c.cap \in Int
    /\ \A d \in Datasets :
          /\ d.rooms \in Seq(ToSet(d.rooms))
          /\ \A j, k \in DOMAIN d.rooms : d.rooms[j].id = d.rooms[k].id => j = k
          /\ \A scan \in DOMAIN d.boxes :
                /\ d.boxes[scan] \in Seq([id : Int, at : Int])
                /\ \A j, k \in DOMAIN d.boxes[scan] : d.boxes[scan][j].id = d.boxes[scan][k].id => j = k

Letters == 1..N_DISTRACTORS + 1

VARIABLES
    data, command,
    room, moves,     \* the room being mined and its moves still to be considered
    asked,           \* rescan and subject of a question of this room -> its gold
    items,           \* the questions mined so far
    verdict,         \* of the audit: its failures and its warnings
    suite, exit
minerVars == <<data, command, room, moves, asked, items, verdict, suite, exit>>

-----------------------------------------------------------------------------
(* r3scan.py *)

\* str.lower. Only where the code calls it are two spellings one label.
Lower(label) == label.lower

LabelOf(scan, id) ==
    IF scan \in DOMAIN data.labels /\ id \in DOMAIN data.labels[scan]
    THEN data.labels[scan][id] ELSE None
Boxes(scan) == IF scan \in DOMAIN data.boxes THEN data.boxes[scan] ELSE <<>>

\* _load_environments, _make_move: a move without transform or without a label
\* in the reference scan is dropped.
MovesOf(env) ==
    LET ofScan(scan) ==
          LET named == SelectSeq(scan.rigid, LAMBDA m :
                          /\ m # Withheld
                          /\ m.displacement # None /\ LabelOf(env.id, m.instance) # None)
          IN  [k \in DOMAIN named |->
                 [rescan |-> scan.id, instance |-> named[k].instance,
                  label |-> LabelOf(env.id, named[k].instance),
                  displacement |-> named[k].displacement,
                  instance_rescan |-> IF named[k].instance_rescan = None THEN named[k].instance
                                      ELSE named[k].instance_rescan]]
    IN  FlattenSeq([s \in DOMAIN env.scans |-> ofScan(env.scans[s])])
AnswersWithheld(env) == \E s \in DOMAIN env.scans : Withheld \in ToSet(env.scans[s].rigid)

\* multi_session
Minable(env) ==
    env.split \in {"train", "validation"} /\ env.scans # <<>> /\ ~AnswersWithheld(env)

Distance(a, b) == IF a < b THEN b - a ELSE a - b

\* What seq has at these places, sorted as the code sorts: by a key, the order
\* kept between equals.
Sorted(seq, places, Before(_, _)) ==
    LET ahead(j, i) == Before(seq[j], seq[i]) \/ (~Before(seq[i], seq[j]) /\ j < i)
        rank(i) == 1 + Cardinality({j \in places : ahead(j, i)})
    IN  [k \in 1..Cardinality(places) |-> seq[CHOOSE i \in places : rank(i) = k]]

\* nearest_to: the boxed objects with a usable label, the nearest first; none
\* when the object itself has no box.
NearestTo(scan, id) ==
    LET boxes == Boxes(scan)
        origin == {b \in ToSet(boxes) : b.id = id}
        label(k) == LabelOf(scan, boxes[k].id)
        others == {k \in DOMAIN boxes :
                      boxes[k].id # id /\ label(k) # None /\ Lower(label(k)) \notin UNUSABLE_LABELS}
        measured == [k \in DOMAIN boxes |->
                       [id |-> boxes[k].id, label |-> label(k),
                        away |-> Distance((CHOOSE b \in origin : TRUE).at, boxes[k].at)]]
    IN  IF origin = {} THEN <<>> ELSE Sorted(measured, others, LAMBDA a, b : a.away < b.away)

\* moved_objects, farthest first
Relocations(env) ==
    LET made == MovesOf(env)
    IN  Sorted(made, {k \in DOMAIN made : /\ Lower(made[k].label) \notin STRUCTURAL_LABELS
                                         /\ made[k].displacement >= MIN_DISPLACEMENT_M},
               LAMBDA a, b : a.displacement > b.displacement)

-----------------------------------------------------------------------------
(* a3_relocation.py *)

Env == data.rooms[room]

\* _question: one rescan is "the later scan", one of several is numbered.
Question(move) ==
    [about |-> <<"In room", Env.id[1], "the">> \o Lower(move.label),
     when |-> IF Len(Env.scans) = 1 THEN None
              ELSE CHOOSE s \in DOMAIN Env.scans : Env.scans[s].id = move.rescan]

Named(scan, label) ==
    {id \in UNION {DOMAIN data.labels[s] : s \in {scan} \cap DOMAIN data.labels} :
        LabelOf(scan, id) # None /\ Lower(LabelOf(scan, id)) = Lower(label)}

\* The next-nearest labels, without the gold's and without repeats, another
\* spelling being another label.
Distractors(near) ==
    LET first == {k \in 2..Len(near) :
                     /\ near[k].label # near[1].label
                     /\ \A j \in 2..k - 1 : near[j].label # near[k].label}
    IN  {near[k].label : k \in {k \in first : Cardinality({j \in first : j < k}) < N_DISTRACTORS}}

\* Mutant of Near: the object is looked up under its id in the reference scan.
NearReference(move) == NearestTo(move.rescan, move.instance)

Near(move) == NearestTo(move.rescan, move.instance_rescan)

\* _build: what keeps a move from becoming a question. The subject's label is
\* counted in lower case, the gold's as it is written.
Buildable(move) ==
    LET near == Near(move)
    IN  /\ Cardinality(Named(move.rescan, move.label)) = 1
        /\ Len(near) >= N_DISTRACTORS + 1
        /\ near[2].away - near[1].away >= MIN_MARGIN_M
        /\ \A k \in 2..Len(near) : near[k].label # near[1].label
        /\ Cardinality(Distractors(near)) = N_DISTRACTORS

\* Mutant of MirrorOf: the question is looked up the way it would be asked.
MirrorOfItself(move, gold) ==
    \E q \in asked : q.rescan = move.rescan /\ q.subject = Lower(move.label) /\ q.gold = Lower(gold)

\* The mirror image of a question of this scan.
MirrorOf(move, gold) ==
    \E q \in asked : q.rescan = move.rescan /\ q.subject = Lower(gold) /\ q.gold = Lower(move.label)

Fresh(move) ==
    /\ Lower(move.label) \notin UNUSABLE_LABELS
    /\ \A q \in asked : q.subject # Lower(move.label)
    /\ Buildable(move)
    /\ ~MirrorOf(move, Near(move)[1].label)

\* The letter of the gold answer is drawn; the order of the others is left out.
\* `gold` and `wrong` are labels; the options read them in lower case.
Item(move, letter) ==
    [env |-> Env.id, scan |-> move.rescan, move |-> move, question |-> Question(move),
     gold |-> Near(move)[1].label, wrong |-> Distractors(Near(move)), answer |-> letter]

Mining == exit = None /\ verdict = None
Enough == command.limit \notin {None, 0} /\ Len(items) >= command.limit
Capped == Cardinality(asked) >= command.cap

\* _mine_environment: the next move of the room.
Consider ==
    /\ Mining /\ ~Enough /\ ~Capped /\ moves # <<>>
    /\ IF Fresh(Head(moves))
       THEN LET gold == Near(Head(moves))[1].label
            IN  /\ \E letter \in Letters : items' = Append(items, Item(Head(moves), letter))
                /\ asked' = asked \cup {[rescan |-> Head(moves).rescan,
                                         subject |-> Lower(Head(moves).label),
                                         gold |-> Lower(gold)]}
       ELSE UNCHANGED <<items, asked>>
    /\ moves' = Tail(moves)
    /\ UNCHANGED <<data, command, room, verdict, suite, exit>>

\* mine: the next room.
NextRoom ==
    /\ Mining /\ ~Enough /\ (Capped \/ moves = <<>>) /\ room < Len(data.rooms)
    /\ room' = room + 1 /\ asked' = {}
    /\ moves' = IF Minable(data.rooms[room']) THEN Relocations(data.rooms[room']) ELSE <<>>
    /\ UNCHANGED <<data, command, items, verdict, suite, exit>>

-----------------------------------------------------------------------------
(* mine_r3scan_a3.py *)

AllItems == DOMAIN items
Score(letter) == Cardinality({x \in AllItems : items[x].answer = letter})
Options(item) == {Lower(label) : label \in item.wrong \cup {item.gold}}

\* What the audit takes for the subject: the text before " was moved", less a
\* leading "The".
Subject(question) ==
    IF Head(question.about) = "The" THEN Tail(question.about) ELSE question.about

\* audit. MAX_CONSTANT_GUESSER is 0.30.
Failures ==
    {f \in {"guesser", "letters", "duplicated", "subject"} :
        CASE f = "guesser" -> \E l \in Letters : 10 * Score(l) > 3 * Len(items)
          [] f = "letters" -> \E l \in Letters : Score(l) = 0
          [] f = "duplicated" -> \E x, y \in AllItems :
                                    x # y /\ items[x].question = items[y].question
          [] f = "subject" -> \E x \in AllItems :
                                 Subject(items[x].question) \in Options(items[x])}
Warnings ==
    {w \in {"reciprocal", "environment"} :
        CASE w = "reciprocal" -> \E x, y \in AllItems :
                                    /\ items[x].scan = items[y].scan
                                    /\ Subject(items[x].question) = Lower(items[y].gold)
                                    /\ Subject(items[y].question) = Lower(items[x].gold)
          [] w = "environment" -> \E x \in AllItems :
                 20 * Cardinality({y \in AllItems : items[y].env = items[x].env}) > Len(items)}

\* report, which dies of an empty list before the audit can call it a failure.
Audit ==
    /\ Mining /\ (Enough \/ (room = Len(data.rooms) /\ (Capped \/ moves = <<>>)))
    /\ IF items = <<>> THEN exit' = "died" /\ UNCHANGED verdict
       ELSE verdict' = [failures |-> Failures, warnings |-> Warnings] /\ UNCHANGED exit
    /\ UNCHANGED <<data, command, room, moves, asked, items, suite>>

\* build_suite: a room's sessions are those of its first item.
Freeze ==
    /\ exit = None /\ verdict # None
    /\ IF verdict.failures # {} /\ ~command.force THEN UNCHANGED suite
       ELSE suite' = [items |-> items, envs |-> {items[x].env : x \in AllItems}]
    /\ exit' = IF verdict.failures # {} THEN 1 ELSE 0
    /\ UNCHANGED <<data, command, room, moves, asked, items, verdict>>

MinerInit ==
    /\ data \in Datasets /\ command \in Commands
    /\ room = 0 /\ moves = <<>> /\ asked = {} /\ items = <<>>
    /\ verdict = None /\ suite = None /\ exit = None

MinerNext == Consider \/ NextRoom \/ Audit \/ Freeze

MinerSpec == MinerInit /\ [][MinerNext]_minerVars

-----------------------------------------------------------------------------
(* Properties *)

\* The usable objects of a scan other than this one that have a box, and how
\* far each one is.
Around(scan, id) ==
    {b \in ToSet(Boxes(scan)) :
        /\ b.id # id
        /\ LabelOf(scan, b.id) # None /\ Lower(LabelOf(scan, b.id)) \notin UNUSABLE_LABELS}
Away(scan, id, b) ==
    Distance((CHOOSE o \in ToSet(Boxes(scan)) : o.id = id).at, b.at)

\* Nothing the options are taken from is written in two ways.
WrittenOneWay(scan, around) ==
    \A b, c \in around :
       Lower(LabelOf(scan, b.id)) = Lower(LabelOf(scan, c.id)) => LabelOf(scan, b.id) = LabelOf(scan, c.id)

\* Why the gold of this item is right and its wrong options are wrong.
Defensible(item) ==
    LET id == item.move.instance_rescan
        away(b) == Away(item.scan, id, b)
        around == Around(item.scan, id)
        called(label) == {b \in around : LabelOf(item.scan, b.id) = label}
    IN  /\ Cardinality(Named(item.scan, item.move.label)) = 1
        /\ Cardinality(called(item.gold)) = 1
        /\ \A g \in called(item.gold), b \in around \ called(item.gold) :
              away(b) >= away(g) + MIN_MARGIN_M
        /\ item.gold \notin item.wrong /\ Cardinality(item.wrong) = N_DISTRACTORS
        /\ \A label \in item.wrong :
              \E w \in called(label) : \A b \in around :
                 away(b) < away(w) => LabelOf(item.scan, b.id) \in item.wrong \cup {item.gold}
        /\ WrittenOneWay(item.scan, around) => Cardinality(Options(item)) = N_DISTRACTORS + 1

(* "The gold answer is the geometrically nearest object": one object alone  *)
(* in the scan bears the subject's label, however written; the gold's       *)
(* label, as it is written, is that of one object with a box, the nearest   *)
(* to where the moved instance is in the later scan, by the margin; a wrong *)
(* label is that of an object of the scan, and nothing nearer than it bears *)
(* a label that is not the gold's or another wrong one. Where no label is   *)
(* written in two ways, the options all read apart.                         *)
GoldIsDefensible == \A x \in DOMAIN items : Defensible(items[x])

(* Auditing 907 items found questions repeated verbatim and questions that  *)
(* answer each other: no room asks of one label twice, no scan holds a      *)
(* question and its mirror image, in whatever spelling, no room exceeds its *)
(* cap, and rooms whose answers are withheld give none.                     *)
NoGiveaways ==
    \A x \in DOMAIN items :
       LET mine == {y \in DOMAIN items : items[y].env = items[x].env}
       IN  /\ Cardinality(mine) <= command.cap
           /\ \A y \in mine \ {x} :
                 /\ Lower(items[y].move.label) # Lower(items[x].move.label)
                 /\ ~(/\ items[y].scan = items[x].scan
                      /\ Lower(items[y].gold) = Lower(items[x].move.label)
                      /\ Lower(items[x].gold) = Lower(items[y].move.label))
           /\ \A k \in DOMAIN data.rooms :
                 data.rooms[k].id = items[x].env => Minable(data.rooms[k])

(* "An option that is the same word as the subject is unanswerable          *)
(* nonsense" (mine_r3scan_a3.py:94): no suite frozen without --force holds  *)
(* one. Refuted: questions begin with "In room", so the audit never finds   *)
(* the subject in them.                                                     *)
AuditSeesSubject ==
    suite # None /\ ~command.force =>
       \A x \in DOMAIN suite.items : Lower(suite.items[x].move.label) \notin Options(suite.items[x])

(* "The gold label must be unique in the room, or 'closest to the chair'    *)
(* does not identify one object" (a3_relocation.py:214): no wrong option    *)
(* reads like the gold. Refuted: labels are told apart as they are written  *)
(* and the options lowercased afterwards, so that "Chair" and "chair" are   *)
(* two options that read "chair", one of them right.                        *)
GoldReadsApart ==
    \A x \in DOMAIN items : Lower(items[x].gold) \notin {Lower(label) : label \in items[x].wrong}
=============================================================================
