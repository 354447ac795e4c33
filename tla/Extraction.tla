------------------------------ MODULE Extraction ------------------------------
(***************************************************************************)
(* scoring/deterministic.py: what is read from a reply. A reply, as the    *)
(* text of an option, is the sequence of its pieces: words, and the parts  *)
(* of a word that other words are made of, as "bed-" and "room". The code  *)
(* looks for options in the letters of a reply, wherever words begin and   *)
(* end, and for labels, negations and refusals between the bounds of       *)
(* words. Pieces hold nothing of each other; case and punctuation are      *)
(* gone, but for what makes a word a label, as in "B)" or "(B)".           *)
(***************************************************************************)
EXTENDS Integers, Sequences, FiniteSets, SequencesExt

CONSTANTS
    Letters,        \* "A" to "E", as words of their own
    LabelOf,        \* of a decorated letter: the letter
    Glued,          \* of a piece with no space behind it: the same as a word
    Emphasis,       \* a word that is nothing but markup
    Naming,         \* "answer", "option", "choice"
    Negations,      \* _NEGATION
    Refusals,       \* _ABSTENTION: the phrases that say it cannot be told
    Unanswerable,   \* schema.UNANSWERABLE_TEXT
    None

ASSUME ExtractionAssumption ==
    /\ \A w \in DOMAIN LabelOf : LabelOf[w] \in Letters
    /\ \A w \in DOMAIN Glued : Glued[w] \notin DOMAIN Glued
    /\ DOMAIN Glued \cap (Letters \cup DOMAIN LabelOf \cup Naming) = {}
    /\ Unanswerable # <<>>
    /\ None \notin Letters

\* What a piece reads, and whether the word goes on behind the one at place i.
Text(w) == IF w \in DOMAIN Glued THEN Glued[w] ELSE w
GoesOn(t, i) == i \in 1..(Len(t) - 1) /\ t[i] \in DOMAIN Glued

\* Does p, as a string, begin at place i of t? Its end need not end a word.
Begins(p, t, i) ==
    /\ i + Len(p) - 1 <= Len(t)
    /\ \A x \in 1..Len(p) - 1 : t[i + x - 1] = p[x]
    /\ Text(t[i + Len(p) - 1]) = Text(p[Len(p)])
Mentions(p, t) == {i \in 1..Len(t) : p # <<>> /\ Begins(p, t, i)}
Within(p, t) == Mentions(p, t) # {}
Same(p, t) == 1 \in Mentions(p, t) /\ Len(p) = Len(t)

\* Does p stand in t as words of its own?
Stands(p, t) ==
    \E i \in Mentions(p, t) : ~GoesOn(t, i - 1) /\ ~GoesOn(t, i + Len(p) - 1)

\* What s has at these places, in its order.
Kept(s, places) ==
    [k \in 1..Cardinality(places) |->
        s[CHOOSE x \in places : Cardinality({y \in places : y <= x}) = k]]

Stripped(text) == Kept(text, {x \in DOMAIN text : text[x] # Emphasis})

LetterOf(w) == IF w \in DOMAIN LabelOf THEN LabelOf[w] ELSE w
IsLetter(w) == LetterOf(w) \in Letters

\* The places where "answer", "option" or "choice" is followed by a letter.
Named(t) ==
    {i \in 1..(Len(t) - 1) :
       /\ t[i] \in Naming /\ ~GoesOn(t, i - 1)
       /\ \/ IsLetter(t[i + 1])
          \/ t[i + 1] = "is" /\ i + 2 <= Len(t) /\ IsLetter(t[i + 2])}
NamedLetter(t) ==
    LET i == CHOOSE i \in Named(t) : \A j \in Named(t) : i <= j
    IN  LetterOf(IF IsLetter(t[i + 1]) THEN t[i + 1] ELSE t[i + 2])

\* The rules for letters, each tried once, at the first place it fits.
ByLetter(t, options) ==
    IF t[1] \in Letters /\ t[1] \in DOMAIN options THEN t[1]
    ELSE IF Len(t) = 1 /\ LetterOf(t[1]) \in DOMAIN options THEN LetterOf(t[1])
    ELSE IF Named(t) # {} /\ NamedLetter(t) \in DOMAIN options THEN NamedLetter(t)
    ELSE IF t[1] \in DOMAIN LabelOf /\ LabelOf[t[1]] \in DOMAIN options THEN LabelOf[t[1]]
    ELSE None

-----------------------------------------------------------------------------
(* The rules for the text of an option. *)

\* The places of t that are left when the mentions of p are replaced, from the
\* left, by spaces (str.replace).
Outside(t, p) ==
    LET taken[i \in 0..Len(t)] ==       \* the end of the last mention replaced
            IF i = 0 THEN 0
            ELSE IF taken[i - 1] < i /\ Begins(p, t, i) THEN i + Len(p) - 1
            ELSE taken[i - 1]
    IN  {j \in 1..Len(t) : taken[j] < j}

\* A negation is a word of what is left at these places.
NegatedIn(t, places) ==
    \E i \in places :
       /\ Text(t[i]) \in Negations
       /\ GoesOn(t, i - 1) => i - 1 \notin places
       /\ GoesOn(t, i) => i + 1 \notin places

\* Mutant of Denies: the negation is looked for in the whole reply.
DeniesAnywhere(t, p) == NegatedIn(t, 1..Len(t))

Denies(t, p) == NegatedIn(t, Outside(t, p))

\* The options contained in t that contain every option contained in t.
Covering(t, options) ==
    LET contained == {k \in DOMAIN options : Within(options[k], t)}
    IN  {k \in contained : \A j \in contained : Within(options[j], options[k])}

ByText(t, options) ==
    LET exact == {k \in DOMAIN options : Same(options[k], t)}
        best  == CHOOSE k \in Covering(t, options) : TRUE
    IN  IF Cardinality(exact) = 1 THEN CHOOSE k \in exact : TRUE
        ELSE IF Covering(t, options) # {}
             THEN IF Denies(t, options[best]) THEN None ELSE best
        ELSE IF /\ "E" \in DOMAIN options /\ options["E"] = Unanswerable
                /\ \E p \in Refusals : Stands(p, t)
             THEN "E"
        ELSE None

\* extract_mcq_letter; no reply is the empty one.
Extract(text, options) ==
    LET t == Stripped(text)
    IN  IF t = <<>> THEN None
        ELSE IF ByLetter(t, options) # None THEN ByLetter(t, options)
        ELSE ByText(t, options)

-----------------------------------------------------------------------------
(* mean_relative_accuracy, in tenths: 1 - theta is 10/20, 9/20, ..., 1/20,   *)
(* and a prediction without a number is None.                                *)
Abs(x) == IF x < 0 THEN -x ELSE x

RelativeAccuracy(pred, target) ==
    IF pred = None THEN 0
    ELSE Cardinality({k \in 1..10 : 20 * Abs(pred - target) <= k * Abs(target)})
=============================================================================
