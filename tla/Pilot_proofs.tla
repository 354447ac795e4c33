----------------------------- MODULE Pilot_proofs -----------------------------
(***************************************************************************)
(* Proofs about the pilot: what a reply is read as (ReplyRead), that the   *)
(* aggregates keep errors in the denominator (DenominatorIsHonest), that   *)
(* the memory gain adds up (GainAddsUp), and that the reports say what was *)
(* taken in (ReportsAreTrue).                                              *)
(*                                                                         *)
(* The last three rest on the invariant Inv below: an item has one row in  *)
(* a run, the rows of an environment show what was taken in of it or that  *)
(* nothing was, and an arm that is over has a row of every item.           *)
(***************************************************************************)
EXTENDS Pilot, FiniteSetTheorems, SequenceTheorems, WellFoundedInduction, TLAPS

\* What the rows of e show, if they show anything.
Had(t, e) == IF ingested[t][e] = None THEN NothingTaken ELSE ingested[t][e]

RowOK(t, row) ==
    /\ row.item \in Items /\ row.status \in {"ok", "error"}
    /\ row.env_run \in {None, Had(t, EnvOf(row))}
    /\ row.status = "ok" => row.env_run # None /\ ingested[t][EnvOf(row)] # None

RowsOK(t) ==
    /\ Len(rows[t]) \in Nat /\ rows[t] = [x \in 1..Len(rows[t]) |-> rows[t][x]]
    /\ \A x \in DOMAIN rows[t] : RowOK(t, rows[t][x])
    /\ \A x, y \in DOMAIN rows[t] : rows[t][x].item = rows[t][y].item => x = y

Asked(t) == {rows[t][x].item : x \in DOMAIN rows[t]}

TypeOK ==
    /\ reply \in Seq(Vocabulary)
    /\ judged \in [Items -> {None} \cup Verdicts]
    /\ DOMAIN rows = Tracks /\ DOMAIN reports = Tracks
    /\ ingested \in [Tracks -> [Range(Env) -> {None} \cup Evidence]]
    /\ run \in [env : {None} \cup Range(Env), info : {None} \cup Evidence,
               crashed : BOOLEAN, contested : BOOLEAN]
    /\ had_errors \in BOOLEAN
    /\ pc \in {"start", "run", "report", "compare", "done", "raised"}
    /\ pc # "start" => plan \in Plans /\ at \in DOMAIN plan

\* Nothing is there of an arm before it runs.
Untouched(t) ==
    /\ rows[t] = <<>> /\ reports[t] = None
    /\ \A e \in Range(Env) : ingested[t][e] = None
Ahead ==
    /\ pc = "start" => (\A t \in Tracks : Untouched(t)) /\ run = NewRun /\ at = 1 /\ ~had_errors
    /\ pc \notin {"start", "raised"} =>
          \A x \in DOMAIN plan : x > at => Untouched(plan[x])

\* The arm that runs: of an environment that has rows or was taken in no item
\* is left, but of the one that is there.
ArmOK ==
    /\ pc \in {"run", "report"} =>
          /\ reports[Arm] = None
          /\ \A e \in Range(Env) :
                ingested[Arm][e] # None /\ ingested[Arm][e].contested => run.contested
    /\ pc = "run" =>
          /\ \A i \in Items \ Recorded :
                \/ run.env = Env[i]
                \/ /\ ingested[Arm][Env[i]] = None
                   /\ \A x \in DOMAIN rows[Arm] : EnvOf(rows[Arm][x]) # Env[i]
          /\ run.env # None =>
                /\ \E i \in Items \ Recorded : Env[i] = run.env
                /\ ingested[Arm][run.env] # None /\ run.info = ingested[Arm][run.env]
    /\ pc = "report" => Recorded = Items

\* The arms that are over.
Over == {plan[x] : x \in {y \in DOMAIN plan : y < at \/ pc \in {"compare", "done"}}}
OverOK ==
    pc \notin {"start", "raised"} =>
       /\ \A t \in Over :
             /\ reports[t] = BuildReport(rows[t], Mode(t))
             /\ Asked(t) = Items
             /\ \A e \in Range(Env) : ingested[t][e] # None => ~ingested[t][e].contested
       /\ had_errors <=> \E t \in Over : \E x \in DOMAIN rows[t] : rows[t][x].status # "ok"
       /\ pc \in {"compare", "done"} => at = Len(plan)

ReportsOK == \A t \in Tracks : reports[t] # None => reports[t] = BuildReport(rows[t], Mode(t))

Compared ==
    [b \in {c \in Baselines \cap ToSet(plan) : "memory" \in ToSet(plan)} |->
        MemoryGain(ScoresOf(rows["memory"], NoVerdict), ScoresOf(rows[b], NoVerdict))]
ComparedOK == pc = "done" => comparison = Compared

RowsAll == \A t \in Tracks : RowsOK(t)

Inv ==
    /\ TypeOK /\ Ahead /\ ArmOK /\ OverOK /\ ReportsOK /\ ComparedOK
    /\ RowsAll

-----------------------------------------------------------------------------
(* Kept: a sequence at some of its places. *)

LEMMA KeptIs ==
    ASSUME NEW D, NEW s \in Seq(D), NEW places \in SUBSET DOMAIN s
    PROVE  LET k == Kept(s, places)
           IN  /\ Cardinality(places) \in Nat
               /\ k \in Seq(D) /\ Len(k) = Cardinality(places)
               /\ {k[j] : j \in DOMAIN k} = {s[x] : x \in places}
               /\ (\A x, y \in places : s[x] = s[y] => x = y) =>
                     \A i, j \in DOMAIN k : k[i] = k[j] => i = j
<1> DEFINE n == Cardinality(places)
           P(x) == {y \in places : y <= x}
           rank == [x \in places |-> Cardinality(P(x))]
<1>0. places \in SUBSET (1..Len(s)) /\ Len(s) \in Nat
  OBVIOUS
<1>1. IsFiniteSet(places) /\ n \in Nat
  <2>1. IsFiniteSet(1..Len(s))
    BY <1>0, FS_Interval
  <2>2. IsFiniteSet(places)
    BY <1>0, <2>1, FS_Subset
  <2> QED
    BY <2>2, FS_CardinalityType
<1>2. ASSUME NEW x \in places PROVE IsFiniteSet(P(x)) /\ Cardinality(P(x)) \in 1..n
  <2>1. P(x) \in SUBSET places /\ x \in P(x)
    BY <1>0
  <2> HIDE DEF P
  <2>2. IsFiniteSet(P(x)) /\ Cardinality(P(x)) <= n /\ Cardinality(P(x)) \in Nat
    BY <1>1, <2>1, FS_Subset, FS_CardinalityType
  <2>3. Cardinality(P(x)) # 0
    BY <2>1, <2>2, FS_EmptySet
  <2> QED
    BY <1>1, <2>2, <2>3
<1>3. ASSUME NEW x \in places, NEW y \in places, x < y
      PROVE  Cardinality(P(x)) < Cardinality(P(y))
  <2>1. P(x) \in SUBSET (P(y) \ {y}) /\ y \in P(y)
    BY <1>0, <1>3
  <2> HIDE DEF P
  <2>2. IsFiniteSet(P(y) \ {y}) /\ Cardinality(P(y) \ {y}) = Cardinality(P(y)) - 1
    BY <1>2, <2>1, FS_RemoveElement
  <2>3. Cardinality(P(x)) <= Cardinality(P(y)) - 1
    BY <2>1, <2>2, FS_Subset
  <2>4. Cardinality(P(x)) \in Int /\ Cardinality(P(y)) \in Int
    BY <1>2
  <2> QED
    BY <2>3, <2>4
<1>4. rank \in [places -> 1..n]
  BY <1>2
<1>5. \A x, y \in places : rank[x] = rank[y] => x = y
  <2>1. \A x, y \in places : x < y => rank[x] < rank[y]
    BY <1>3
  <2>2. \A x \in places : rank[x] \in Int /\ x \in Int
    BY <1>0, <1>4
  <2> HIDE DEF rank
  <2> QED
    BY <2>1, <2>2
<1>6. \A j \in 1..n : \E x \in places : rank[x] = j
  <2> HIDE DEF rank
  <2>1. rank \in Injection(places, 1..n)
    BY <1>4, <1>5 DEF Injection, IsInjective
  <2>2. IsFiniteSet(1..n) /\ Cardinality(1..n) = n
    BY <1>1, FS_Interval
  <2>3. rank \in Surjection(places, 1..n)
    BY <2>1, <2>2, FS_Injection
  <2> QED
    BY <2>3 DEF Surjection
<1> DEFINE spot(j) == CHOOSE x \in places : rank[x] = j
           k == Kept(s, places)
<1>7. \A j \in 1..n : spot(j) \in places /\ rank[spot(j)] = j
  <2> HIDE DEF rank
  <2> QED
    BY <1>6
<1>8. \A x \in places : rank[x] \in 1..n /\ spot(rank[x]) = x
  <2> HIDE DEF rank
  <2> QED
    BY <1>4, <1>5, <1>7
<1>9. k = [j \in 1..n |-> s[spot(j)]]
  <2> DEFINE place(j) == CHOOSE x \in places : Cardinality(P(x)) = j
  <2>1. \A j \in 1..n : place(j) = spot(j)
    BY Zenon
  <2>2. k = [j \in 1..n |-> s[place(j)]]
    BY DEF Kept
  <2> HIDE DEF k, spot, place
  <2> QED
    BY <2>1, <2>2
<1> HIDE DEF k, spot, rank, P
<1>10. k \in [1..n -> D]
  BY <1>0, <1>7, <1>9
<1>11. k \in Seq(D) /\ Len(k) = n /\ DOMAIN k = 1..n
  BY <1>1, <1>10
<1>12. {k[j] : j \in DOMAIN k} = {s[x] : x \in places}
  <2>1. \A j \in 1..n : k[j] = s[spot(j)]
    BY <1>9
  <2>2. \A j \in 1..n : \E x \in places : k[j] = s[x]
    BY <1>7, <2>1
  <2>3. \A x \in places : k[rank[x]] = s[x] /\ rank[x] \in 1..n
    BY <1>8, <2>1
  <2> QED
    BY <1>11, <2>2, <2>3
<1>13. ASSUME \A x, y \in places : s[x] = s[y] => x = y,
              NEW i \in DOMAIN k, NEW j \in DOMAIN k, k[i] = k[j]
       PROVE  i = j
  <2>1. k[i] = s[spot(i)] /\ k[j] = s[spot(j)] /\ i \in 1..n /\ j \in 1..n
    BY <1>9, <1>11, <1>13
  <2>2. spot(i) = spot(j)
    BY <1>7, <1>13, <2>1
  <2> QED
    BY <1>7, <2>1, <2>2
<1> QED
  BY <1>1, <1>11, <1>12, <1>13 DEF k

-----------------------------------------------------------------------------
(* Sums. SumFunctionOnSet is defined by recursion over the subsets of a     *)
(* set, so the first of these lemmas look at a smallest set that would not  *)
(* be as they say.                                                          *)

Some(s) == CHOOSE x \in s : TRUE

\* h sums f over each subset of S.
Folds(f, h, S) ==
    h = [s \in SUBSET S |-> IF s = {} THEN 0 ELSE f[Some(s)] + h[s \ {Some(s)}]]

\* A smallest one of some subsets of a finite set.
LEMMA SmallestIs ==
    ASSUME NEW S, IsFiniteSet(S), NEW Bad \in SUBSET SUBSET S, Bad # {}
    PROVE  \E T \in Bad : \A U \in SUBSET T : U # T => U \notin Bad
<1>1. Bad \subseteq FiniteSubsetsOf(S)
  BY FS_FiniteSubsetsOfFinite
<1>2. PICK T \in Bad : \A U \in Bad : <<U, T>> \notin StrictSubsetOrdering(S)
  BY <1>1, FS_StrictSubsetOrderingWellFounded, WFMin
<1>3. ASSUME NEW U \in SUBSET T, U # T, U \in Bad PROVE FALSE
  <2>1. <<U, T>> \in StrictSubsetOrdering(S)
    BY <1>3 DEF StrictSubsetOrdering
  <2> QED
    BY <1>2, <1>3, <2>1
<1> QED
  BY <1>3

LEMMA SumIs == ASSUME NEW f, NEW S PROVE SumFunctionOnSet(f, S) = (CHOOSE h : Folds(f, h, S))[S]
BY Zenon DEF SumFunctionOnSet, FoldFunctionOnSet, MapThenFoldSet, Folds, Some

LEMMA FoldsAgree ==
    ASSUME NEW f, NEW S, IsFiniteSet(S), NEW T \in SUBSET S, NEW h, Folds(f, h, S), NEW g, Folds(f, g, T)
    PROVE  h[T] = g[T]
<1> DEFINE Bad == {s \in SUBSET T : h[s] # g[s]}
<1>1. IsFiniteSet(T)
  BY FS_Subset
<1> SUFFICES ASSUME Bad # {} PROVE FALSE
  OBVIOUS
<1>2. PICK s \in Bad : \A u \in SUBSET s : u # s => u \notin Bad
  <2>1. Bad \in SUBSET SUBSET T
    OBVIOUS
  <2> HIDE DEF Bad
  <2> QED
    BY <1>1, <2>1, SmallestIs
<1>3. /\ h[s] = IF s = {} THEN 0 ELSE f[Some(s)] + h[s \ {Some(s)}]
      /\ g[s] = IF s = {} THEN 0 ELSE f[Some(s)] + g[s \ {Some(s)}]
  BY Zenon DEF Folds
<1>4. s # {}
  BY <1>3
<1>5. Some(s) \in s
  BY <1>4 DEF Some
<1>6. h[s \ {Some(s)}] = g[s \ {Some(s)}]
  BY <1>2, <1>5
<1> QED
  BY <1>3, <1>4, <1>6

LEMMA FoldsExist ==
    ASSUME NEW f, NEW S, IsFiniteSet(S)
    PROVE  \E h : Folds(f, h, S)
<1> DEFINE Bad == {s \in SUBSET S : ~ \E h : Folds(f, h, s)}
<1> SUFFICES ASSUME Bad # {} PROVE FALSE
  OBVIOUS
<1>1. PICK T \in Bad : \A u \in SUBSET T : u # T => u \notin Bad
  <2>1. Bad \in SUBSET SUBSET S
    OBVIOUS
  <2> HIDE DEF Bad
  <2> QED
    BY <2>1, SmallestIs
<1>2. \A u \in SUBSET T : u # T => \E h : Folds(f, h, u)
  BY <1>1
<1>3. ~ \E h : Folds(f, h, T)
  BY <1>1
<1> DEFINE H(s) == CHOOSE h : Folds(f, h, s)
           rest(s) == s \ {Some(s)}
           g == [s \in SUBSET T |-> IF s = {} THEN 0 ELSE f[Some(s)] + H(rest(s))[rest(s)]]
<1>4. \A u \in SUBSET T : u # T => Folds(f, H(u), u)
  BY <1>2
<1>5. ASSUME NEW s \in SUBSET T, s # {}
      PROVE  rest(s) \in SUBSET T /\ rest(s) # T /\ rest(s) \in SUBSET s
  <2>1. Some(s) \in s
    BY <1>5 DEF Some
  <2> QED
    BY <2>1
<1>6. ASSUME NEW s \in SUBSET T, s # {} PROVE g[rest(s)] = H(rest(s))[rest(s)]
  <2> DEFINE r == rest(s)
  <2>1. r \in SUBSET T /\ r # T /\ Folds(f, H(r), r)
    BY <1>4, <1>5, <1>6
  <2>2. H(r)[r] = IF r = {} THEN 0 ELSE f[Some(r)] + H(r)[rest(r)]
    <3> HIDE DEF r, H
    <3>1. r \in SUBSET r
      OBVIOUS
    <3> QED
      BY <2>1, <3>1, Zenon DEF Folds
  <2>3. CASE r = {}
    BY <2>1, <2>2, <2>3
  <2>4. CASE r # {}
    <3>1. rest(r) \in SUBSET T /\ rest(r) # T /\ rest(r) \in SUBSET r
      BY <1>5, <2>1, <2>4
    <3>2. Folds(f, H(rest(r)), rest(r))
      BY <1>4, <3>1
    <3>3. IsFiniteSet(r)
      BY <2>1, FS_Subset
    <3>4. H(r)[rest(r)] = H(rest(r))[rest(r)]
      <4> HIDE DEF r, H, rest
      <4> QED
        BY <2>1, <3>1, <3>2, <3>3, FoldsAgree
    <3>5. g[r] = f[Some(r)] + H(rest(r))[rest(r)]
      BY <2>1, <2>4
    <3>6. g[r] = H(r)[r]
      <4> HIDE DEF r, H, g
      <4> QED
        BY <2>2, <2>4, <3>4, <3>5
    <3> HIDE DEF H, g
    <3> QED
      BY <3>6
  <2> QED
    BY <2>3, <2>4
<1>7. Folds(f, g, T)
  <2>1. \A s \in SUBSET T : (IF s = {} THEN 0 ELSE f[Some(s)] + H(rest(s))[rest(s)])
                         = (IF s = {} THEN 0 ELSE f[Some(s)] + g[rest(s)])
    <3> HIDE DEF g, H, rest
    <3> QED
      BY <1>6
  <2>2. g = [s \in SUBSET T |-> IF s = {} THEN 0 ELSE f[Some(s)] + g[rest(s)]]
    <3> DEFINE a(s) == IF s = {} THEN 0 ELSE f[Some(s)] + H(rest(s))[rest(s)]
               b(s) == IF s = {} THEN 0 ELSE f[Some(s)] + g[rest(s)]
    <3>1. g = [s \in SUBSET T |-> a(s)]
      OBVIOUS
    <3>2. \A s \in SUBSET T : a(s) = b(s)
      BY <2>1
    <3> HIDE DEF g, a, b
    <3>3. g = [s \in SUBSET T |-> b(s)]
      BY <3>1, <3>2
    <3> QED
      BY <3>3 DEF b
  <2> HIDE DEF g
  <2> QED
    BY <2>2 DEF Folds
<1> QED
  BY <1>3, <1>7

LEMMA SumStep ==
    ASSUME NEW f, NEW S, IsFiniteSet(S)
    PROVE  /\ S = {} => SumFunctionOnSet(f, S) = 0
           /\ S # {} => SumFunctionOnSet(f, S) = f[Some(S)] + SumFunctionOnSet(f, S \ {Some(S)})
<1> DEFINE h == CHOOSE h : Folds(f, h, S)
<1>1. Folds(f, h, S)
  BY FoldsExist
<1>2. SumFunctionOnSet(f, S) = h[S]
  BY SumIs
<1> HIDE DEF h
<1>3. h[S] = IF S = {} THEN 0 ELSE f[Some(S)] + h[S \ {Some(S)}]
  <2>1. S \in SUBSET S
    OBVIOUS
  <2> QED
    BY <1>1, <2>1, Zenon DEF Folds
<1>4. S # {} => h[S \ {Some(S)}] = SumFunctionOnSet(f, S \ {Some(S)})
  <2> DEFINE T == S \ {Some(S)}
             g == CHOOSE g : Folds(f, g, T)
  <2>1. T \in SUBSET S
    OBVIOUS
  <2>2. IsFiniteSet(T)
    BY <2>1, FS_Subset
  <2>3. Folds(f, g, T) /\ SumFunctionOnSet(f, T) = g[T]
    <3> HIDE DEF T
    <3> QED
      BY <2>2, FoldsExist, SumIs
  <2> HIDE DEF T, g
  <2>4. h[T] = g[T]
    BY <1>1, <2>1, <2>3, FoldsAgree
  <2> QED
    BY <2>3, <2>4 DEF T
<1> QED
  BY <1>2, <1>3, <1>4

\* The sum is a number, and takes each element once, in whatever order.
LEMMA SumAdds ==
    ASSUME NEW f, NEW S, IsFiniteSet(S), \A c \in S : f[c] \in Int
    PROVE  /\ SumFunctionOnSet(f, S) \in Int
           /\ \A c \in S : SumFunctionOnSet(f, S) = f[c] + SumFunctionOnSet(f, S \ {c})
<1> DEFINE Good(s) == /\ SumFunctionOnSet(f, s) \in Int
                      /\ \A c \in s : SumFunctionOnSet(f, s) = f[c] + SumFunctionOnSet(f, s \ {c})
           Bad == {s \in SUBSET S : ~Good(s)}
<1> SUFFICES ASSUME Bad # {} PROVE FALSE
  OBVIOUS
<1>1. PICK s \in Bad : \A u \in SUBSET s : u # s => u \notin Bad
  <2>1. Bad \in SUBSET SUBSET S
    OBVIOUS
  <2> HIDE DEF Bad
  <2> QED
    BY <2>1, SmallestIs
<1>2. \A u \in SUBSET s : u # s => Good(u)
  <2> HIDE DEF Good
  <2> QED
    BY <1>1
<1>3. IsFiniteSet(s) /\ s \in SUBSET S /\ ~Good(s)
  <2> HIDE DEF Good
  <2> QED
    BY <1>1, FS_Subset
<1>4. s # {}
  <2>1. SumFunctionOnSet(f, {}) = 0
    BY FS_EmptySet, SumStep
  <2>2. Good({})
    BY <2>1
  <2> QED
    BY <1>3, <2>2
<1> DEFINE p == Some(s)
<1>5. p \in s /\ SumFunctionOnSet(f, s) = f[p] + SumFunctionOnSet(f, s \ {p})
  BY <1>3, <1>4, SumStep DEF Some
<1> HIDE DEF p
<1>6. Good(s \ {p}) /\ f[p] \in Int
  BY <1>2, <1>3, <1>5
<1>7. ASSUME NEW c \in s PROVE SumFunctionOnSet(f, s) = f[c] + SumFunctionOnSet(f, s \ {c})
  <2>1. CASE c = p
    BY <1>5, <2>1
  <2>2. CASE c # p
    <3>1. c \in s \ {p} /\ p \in s \ {c} /\ Good(s \ {c}) /\ f[c] \in Int
      BY <1>2, <1>3, <1>5, <2>2
    <3>2. SumFunctionOnSet(f, s \ {p}) = f[c] + SumFunctionOnSet(f, (s \ {p}) \ {c})
      BY <1>6, <3>1
    <3>3. SumFunctionOnSet(f, s \ {c}) = f[p] + SumFunctionOnSet(f, (s \ {c}) \ {p})
      BY <3>1
    <3>4. (s \ {p}) \ {c} = (s \ {c}) \ {p}
      OBVIOUS
    <3>5. SumFunctionOnSet(f, (s \ {p}) \ {c}) \in Int
      <4>1. (s \ {p}) \ {c} \in SUBSET s /\ (s \ {p}) \ {c} # s
        BY <1>5
      <4> QED
        BY <1>2, <4>1
    <3> DEFINE rest == (s \ {p}) \ {c}
    <3>6. /\ SumFunctionOnSet(f, s) = f[p] + (f[c] + SumFunctionOnSet(f, rest))
          /\ SumFunctionOnSet(f, s \ {c}) = f[p] + SumFunctionOnSet(f, rest)
          /\ SumFunctionOnSet(f, rest) \in Int
      BY <1>5, <3>2, <3>3, <3>4, <3>5
    <3> HIDE DEF rest
    <3> QED
      BY <1>6, <3>1, <3>6
  <2> QED
    BY <2>1, <2>2
<1>8. SumFunctionOnSet(f, s) \in Int
  BY <1>5, <1>6
<1> QED
  BY <1>3, <1>7, <1>8

\* What holds of no elements, and of a set when it does of the set less one
\* element, holds of every finite set.
LEMMA OneByOne ==
    ASSUME NEW S, IsFiniteSet(S), NEW Good, {} \in Good,
           \A T \in SUBSET S : \A x \in T : T \ {x} \in Good => T \in Good
    PROVE  S \in Good
<1> DEFINE Bad == {T \in SUBSET S : T \notin Good}
<1> SUFFICES ASSUME Bad # {} PROVE FALSE
  OBVIOUS
<1>1. PICK T \in Bad : \A U \in SUBSET T : U # T => U \notin Bad
  <2>1. Bad \in SUBSET SUBSET S
    OBVIOUS
  <2> HIDE DEF Bad
  <2> QED
    BY <2>1, SmallestIs
<1>2. PICK x \in T : TRUE
  BY <1>1
<1>3. T \ {x} \in Good
  BY <1>1, <1>2
<1> QED
  BY <1>1, <1>2, <1>3

LEMMA SumOfNone == ASSUME NEW f PROVE SumFunctionOnSet(f, {}) = 0
BY FS_EmptySet, SumStep

LEMMA SumSame ==
    ASSUME NEW f, NEW g, NEW S, IsFiniteSet(S), \A x \in S : f[x] \in Int /\ f[x] = g[x]
    PROVE  SumFunctionOnSet(f, S) = SumFunctionOnSet(g, S)
<1> DEFINE Good == {T \in SUBSET S : SumFunctionOnSet(f, T) = SumFunctionOnSet(g, T)}
<1>1. {} \in Good
  BY SumOfNone
<1>2. ASSUME NEW T \in SUBSET S, NEW x \in T, T \ {x} \in Good PROVE T \in Good
  <2>1. IsFiniteSet(T) /\ (\A y \in T : f[y] \in Int) /\ (\A y \in T : g[y] \in Int)
    BY FS_Subset
  <2>2. /\ SumFunctionOnSet(f, T) = f[x] + SumFunctionOnSet(f, T \ {x})
        /\ SumFunctionOnSet(g, T) = g[x] + SumFunctionOnSet(g, T \ {x})
    BY <2>1, SumAdds
  <2> QED
    BY <1>2, <2>2
<1>3. S \in Good
  <2> HIDE DEF Good
  <2> QED
    BY <1>1, <1>2, OneByOne
<1> QED
  BY <1>3

LEMMA SumDiff ==
    ASSUME NEW f, NEW g, NEW h, NEW S, IsFiniteSet(S),
           \A x \in S : f[x] \in Int /\ g[x] \in Int /\ h[x] = f[x] - g[x]
    PROVE  SumFunctionOnSet(h, S) = SumFunctionOnSet(f, S) - SumFunctionOnSet(g, S)
<1> DEFINE Good == {T \in SUBSET S : SumFunctionOnSet(h, T)
                                        = SumFunctionOnSet(f, T) - SumFunctionOnSet(g, T)}
<1>1. {} \in Good
  BY SumOfNone
<1>2. ASSUME NEW T \in SUBSET S, NEW x \in T, T \ {x} \in Good PROVE T \in Good
  <2>1. IsFiniteSet(T) /\ IsFiniteSet(T \ {x})
    BY FS_Subset
  <2>2. /\ \A y \in T : f[y] \in Int
        /\ \A y \in T : g[y] \in Int
        /\ \A y \in T : h[y] \in Int
    OBVIOUS
  <2>3. /\ SumFunctionOnSet(f, T) = f[x] + SumFunctionOnSet(f, T \ {x})
        /\ SumFunctionOnSet(g, T) = g[x] + SumFunctionOnSet(g, T \ {x})
        /\ SumFunctionOnSet(h, T) = h[x] + SumFunctionOnSet(h, T \ {x})
    BY <2>1, <2>2, SumAdds
  <2>4. SumFunctionOnSet(f, T \ {x}) \in Int /\ SumFunctionOnSet(g, T \ {x}) \in Int
    BY <2>1, <2>2, SumAdds
  <2> QED
    BY <1>2, <2>3, <2>4
<1>3. S \in Good
  <2> HIDE DEF Good
  <2> QED
    BY <1>1, <1>2, OneByOne
<1> QED
  BY <1>3

LEMMA SumOfNats ==
    ASSUME NEW f, NEW S, IsFiniteSet(S), \A x \in S : f[x] \in Nat
    PROVE  /\ SumFunctionOnSet(f, S) \in Nat
           /\ \A x \in S : f[x] <= SumFunctionOnSet(f, S)
           /\ SumFunctionOnSet(f, S) > 0 => \E x \in S : f[x] > 0
<1> DEFINE Good == {T \in SUBSET S :
                      /\ SumFunctionOnSet(f, T) \in Nat
                      /\ SumFunctionOnSet(f, T) > 0 => \E x \in T : f[x] > 0}
<1>1. {} \in Good
  BY SumOfNone
<1>2. ASSUME NEW T \in SUBSET S, NEW x \in T, T \ {x} \in Good PROVE T \in Good
  <2>1. IsFiniteSet(T) /\ \A y \in T : f[y] \in Int
    BY FS_Subset
  <2>2. SumFunctionOnSet(f, T) = f[x] + SumFunctionOnSet(f, T \ {x})
    BY <2>1, SumAdds
  <2> QED
    BY <1>2, <2>2
<1>3. \A T \in SUBSET S : T \in Good
  <2> HIDE DEF Good
  <2> SUFFICES ASSUME NEW T \in SUBSET S PROVE T \in Good
    OBVIOUS
  <2>1. IsFiniteSet(T)
    BY FS_Subset
  <2> QED
    BY <1>1, <1>2, <2>1, OneByOne
<1>4. ASSUME NEW x \in S PROVE f[x] <= SumFunctionOnSet(f, S)
  <2>1. SumFunctionOnSet(f, S) = f[x] + SumFunctionOnSet(f, S \ {x})
    BY SumAdds
  <2>2. SumFunctionOnSet(f, S \ {x}) \in Nat
    BY <1>3
  <2> QED
    BY <2>1, <2>2
<1> QED
  BY <1>3, <1>4

LEMMA SumOfOnes ==
    ASSUME NEW f, NEW S, IsFiniteSet(S), \A x \in S : f[x] = 1
    PROVE  SumFunctionOnSet(f, S) = Cardinality(S)
<1> DEFINE Good == {T \in SUBSET S : SumFunctionOnSet(f, T) = Cardinality(T)}
<1>1. {} \in Good
  BY SumOfNone, FS_EmptySet
<1>2. ASSUME NEW T \in SUBSET S, NEW x \in T, T \ {x} \in Good PROVE T \in Good
  <2>1. IsFiniteSet(T) /\ \A y \in T : f[y] \in Int
    BY FS_Subset
  <2>2. SumFunctionOnSet(f, T) = f[x] + SumFunctionOnSet(f, T \ {x})
    BY <2>1, SumAdds
  <2>3. Cardinality(T \ {x}) = Cardinality(T) - 1 /\ Cardinality(T) \in Nat
    BY <2>1, FS_RemoveElement, FS_CardinalityType
  <2> QED
    BY <1>2, <2>2, <2>3
<1>3. S \in Good
  <2> HIDE DEF Good
  <2> QED
    BY <1>1, <1>2, OneByOne
<1> QED
  BY <1>3

LEMMA SumOfZeros ==
    ASSUME NEW f, NEW S, IsFiniteSet(S), \A x \in S : f[x] = 0
    PROVE  SumFunctionOnSet(f, S) = 0
<1>1. SumFunctionOnSet(f, S) \in Nat
  BY SumOfNats
<1>2. ~ SumFunctionOnSet(f, S) > 0
  BY SumOfNats
<1> QED
  BY <1>1, <1>2

LEMMA ImageIs ==
    ASSUME NEW m, NEW S, IsFiniteSet(S)
    PROVE  /\ IsFiniteSet({m[x] : x \in S})
           /\ (\A x, y \in S : m[x] = m[y] => x = y) =>
                 Cardinality({m[x] : x \in S}) = Cardinality(S)
<1> DEFINE T == {m[x] : x \in S}
           f == [x \in S |-> m[x]]
<1>1. f \in Surjection(S, T)
  BY DEF Surjection
<1>2. IsFiniteSet(T)
  <2> HIDE DEF T, f
  <2> QED
    BY <1>1, FS_Surjection
<1>3. ASSUME \A x, y \in S : m[x] = m[y] => x = y PROVE Cardinality(T) = Cardinality(S)
  <2>1. f \in Injection(S, T)
    BY <1>3 DEF Injection, IsInjective
  <2> HIDE DEF T, f
  <2> QED
    BY <1>1, <2>1, FS_Surjection
<1> QED
  BY <1>2, <1>3

\* The same values under other names.
LEMMA SumMoved ==
    ASSUME NEW f, NEW g, NEW m, NEW S, IsFiniteSet(S),
           \A x \in S : f[x] \in Int /\ f[x] = g[m[x]],
           \A x, y \in S : m[x] = m[y] => x = y
    PROVE  SumFunctionOnSet(f, S) = SumFunctionOnSet(g, {m[x] : x \in S})
<1> DEFINE Image(T) == {m[x] : x \in T}
           Good == {T \in SUBSET S : SumFunctionOnSet(f, T) = SumFunctionOnSet(g, Image(T))}
<1>1. {} \in Good
  <2>1. Image({}) = {}
    OBVIOUS
  <2> HIDE DEF Image
  <2> QED
    BY <2>1, SumOfNone
<1>2. ASSUME NEW T \in SUBSET S, NEW x \in T, T \ {x} \in Good PROVE T \in Good
  <2>1. IsFiniteSet(T) /\ \A y \in T : f[y] \in Int
    BY FS_Subset
  <2>2. SumFunctionOnSet(f, T) = f[x] + SumFunctionOnSet(f, T \ {x})
    BY <2>1, SumAdds
  <2>3. IsFiniteSet(Image(T)) /\ \A z \in Image(T) : g[z] \in Int
    <3>1. IsFiniteSet({m[y] : y \in T})
      BY <2>1, ImageIs
    <3> QED
      BY <3>1
  <2>4. m[x] \in Image(T) /\ Image(T) \ {m[x]} = Image(T \ {x}) /\ g[m[x]] = f[x]
    OBVIOUS
  <2> DEFINE I == Image(T)
  <2>5. SumFunctionOnSet(g, I) = f[x] + SumFunctionOnSet(g, Image(T \ {x}))
    <3>1. SumFunctionOnSet(g, I) = g[m[x]] + SumFunctionOnSet(g, I \ {m[x]})
      <4>1. IsFiniteSet(I) /\ (\A z \in I : g[z] \in Int) /\ m[x] \in I
        BY <2>3, <2>4
      <4> HIDE DEF I, Image
      <4> QED
        BY <4>1, SumAdds
    <3> HIDE DEF Image
    <3> QED
      BY <2>4, <3>1
  <2> HIDE DEF Image
  <2> QED
    BY <1>2, <2>2, <2>5
<1>3. S \in Good
  <2> HIDE DEF Good
  <2> QED
    BY <1>1, <1>2, OneByOne
<1> QED
  BY <1>3

\* The elements of S that c puts under k, for each k in K.
Parts(c, S, K) == [k \in K |-> {x \in S : c[x] = k}]

\* The sum of the parts.
LEMMA SumParts ==
    ASSUME NEW f, NEW c, NEW p, NEW S, NEW K, IsFiniteSet(S), IsFiniteSet(K),
           \A x \in S : f[x] \in Int /\ c[x] \in K,
           \A k \in K : p[k] = SumFunctionOnSet(f, Parts(c, S, K)[k])
    PROVE  SumFunctionOnSet(p, K) = SumFunctionOnSet(f, S)
<1> DEFINE Part(T, k) == {x \in T : c[x] = k}
           P(T) == [k \in K |-> SumFunctionOnSet(f, Part(T, k))]
           Good == {T \in SUBSET S : SumFunctionOnSet(P(T), K) = SumFunctionOnSet(f, T)}
<1>1. {} \in Good
  <2>1. \A k \in K : Part({}, k) = {}
    OBVIOUS
  <2>2. \A k \in K : P({})[k] = 0
    <3> HIDE DEF Part
    <3> QED
      BY <2>1, SumOfNone
  <2> HIDE DEF P
  <2>3. SumFunctionOnSet(P({}), K) = 0
    BY <2>2, SumOfZeros
  <2> QED
    BY <2>3, SumOfNone
<1>2. ASSUME NEW T \in SUBSET S, NEW x \in T, T \ {x} \in Good PROVE T \in Good
  <2> DEFINE R == T \ {x}
             k == c[x]
  <2>1. IsFiniteSet(T) /\ IsFiniteSet(R) /\ \A y \in T : f[y] \in Int
    BY FS_Subset
  <2>2. SumFunctionOnSet(f, T) = f[x] + SumFunctionOnSet(f, R)
    BY <2>1, SumAdds
  <2>3. /\ Part(T, k) \ {x} = Part(R, k) /\ x \in Part(T, k) /\ k \in K
        /\ \A j \in K : j # k => Part(T, j) = Part(R, j)
    OBVIOUS
  <2>4. \A j \in K : /\ IsFiniteSet(Part(T, j)) /\ IsFiniteSet(Part(R, j))
                     /\ \A y \in Part(T, j) : f[y] \in Int
                     /\ \A y \in Part(R, j) : f[y] \in Int
    BY <2>1, FS_Subset
  <2> HIDE DEF Part, R, k
  <2>5. \A j \in K : P(T)[j] \in Int /\ P(R)[j] \in Int
    <3> SUFFICES ASSUME NEW j \in K PROVE P(T)[j] \in Int /\ P(R)[j] \in Int
      OBVIOUS
    <3>1. SumFunctionOnSet(f, Part(T, j)) \in Int /\ SumFunctionOnSet(f, Part(R, j)) \in Int
      BY <2>4, SumAdds
    <3> QED
      BY <3>1
  <2>6. P(T)[k] = f[x] + P(R)[k]
    <3>1. SumFunctionOnSet(f, Part(T, k)) = f[x] + SumFunctionOnSet(f, Part(R, k))
      BY <2>3, <2>4, SumAdds
    <3> QED
      BY <2>3, <3>1
  <2>7. \A j \in K : j # k => P(T)[j] = P(R)[j]
    BY <2>3
  <2> HIDE DEF P
  <2>8. SumFunctionOnSet(P(T), K \ {k}) = SumFunctionOnSet(P(R), K \ {k})
    <3>1. IsFiniteSet(K \ {k}) /\ \A j \in K \ {k} : P(T)[j] \in Int /\ P(T)[j] = P(R)[j]
      BY <2>5, <2>7, FS_Subset
    <3> QED
      BY <3>1, SumSame
  <2>9. /\ SumFunctionOnSet(P(T), K) = P(T)[k] + SumFunctionOnSet(P(T), K \ {k})
        /\ SumFunctionOnSet(P(R), K) = P(R)[k] + SumFunctionOnSet(P(R), K \ {k})
    BY <2>3, <2>5, SumAdds
  <2>10. SumFunctionOnSet(P(R), K \ {k}) \in Int /\ f[x] \in Int /\ P(R)[k] \in Int
    <3>1. IsFiniteSet(K \ {k}) /\ \A j \in K \ {k} : P(R)[j] \in Int
      BY <2>5, FS_Subset
    <3> QED
      BY <2>1, <2>3, <2>5, <3>1, SumAdds
  <2>11. SumFunctionOnSet(P(R), K) = SumFunctionOnSet(f, R)
    BY <1>2 DEF R
  <2>12. SumFunctionOnSet(P(T), K) = SumFunctionOnSet(f, T)
    BY <2>2, <2>6, <2>8, <2>9, <2>10, <2>11
  <2> QED
    BY <2>12
<1>3. S \in Good
  <2> HIDE DEF Good
  <2> QED
    BY <1>1, <1>2, OneByOne
<1>4. SumFunctionOnSet(P(S), K) = SumFunctionOnSet(f, S)
  BY <1>3
<1>5. \A k \in K : P(S)[k] \in Int /\ P(S)[k] = p[k]
  <2> SUFFICES ASSUME NEW k \in K PROVE P(S)[k] \in Int /\ P(S)[k] = p[k]
    OBVIOUS
  <2>1. IsFiniteSet(Part(S, k)) /\ \A x \in Part(S, k) : f[x] \in Int
    BY FS_Subset
  <2>2. SumFunctionOnSet(f, Part(S, k)) \in Int
    <3> HIDE DEF Part
    <3> QED
      BY <2>1, SumAdds
  <2>3. Parts(c, S, K)[k] = Part(S, k)
    BY DEF Parts
  <2>4. p[k] = SumFunctionOnSet(f, Part(S, k))
    <3> HIDE DEF Part
    <3> QED
      BY <2>3
  <2> QED
    BY <2>2, <2>4
<1> HIDE DEF P
<1>6. SumFunctionOnSet(P(S), K) = SumFunctionOnSet(p, K)
  BY <1>5, SumSame
<1> QED
  BY <1>4, <1>6

LEMMA CountParts ==
    ASSUME NEW c, NEW p, NEW S, NEW K, IsFiniteSet(S), IsFiniteSet(K),
           \A x \in S : c[x] \in K,
           \A k \in K : p[k] = Cardinality(Parts(c, S, K)[k])
    PROVE  SumFunctionOnSet(p, K) = Cardinality(S)
<1> DEFINE one == [x \in S |-> 1]
<1>1. ASSUME NEW k \in K PROVE p[k] = SumFunctionOnSet(one, Parts(c, S, K)[k])
  <2> DEFINE part == Parts(c, S, K)[k]
  <2>1. part \in SUBSET S
    BY DEF Parts
  <2>2. IsFiniteSet(part) /\ \A x \in part : one[x] = 1
    BY <2>1, FS_Subset
  <2>3. p[k] = Cardinality(part)
    OBVIOUS
  <2> HIDE DEF one, part
  <2>4. p[k] = SumFunctionOnSet(one, part)
    BY <2>2, <2>3, SumOfOnes
  <2> QED
    BY <2>4 DEF part
<1>2. \A x \in S : one[x] \in Int /\ one[x] = 1 /\ c[x] \in K
  OBVIOUS
<1> HIDE DEF one
<1>3. SumFunctionOnSet(p, K) = SumFunctionOnSet(one, S)
  BY <1>1, <1>2, SumParts
<1>4. SumFunctionOnSet(one, S) = Cardinality(S)
  BY <1>2, SumOfOnes
<1> QED
  BY <1>3, <1>4

LEMMA CountSplit ==
    ASSUME NEW S, IsFiniteSet(S), NEW A, NEW B, S = A \cup B, A \cap B = {}
    PROVE  /\ Cardinality(S) = Cardinality(A) + Cardinality(B)
           /\ Cardinality(A) \in Nat /\ Cardinality(B) \in Nat
<1>1. IsFiniteSet(A) /\ IsFiniteSet(B)
  BY FS_Subset
<1>2. Cardinality(S) = Cardinality(A) + Cardinality(B) - Cardinality({})
  BY <1>1, FS_Union
<1>3. Cardinality({}) = 0 /\ Cardinality(A) \in Nat /\ Cardinality(B) \in Nat
  BY <1>1, FS_EmptySet, FS_CardinalityType
<1> QED
  BY <1>2, <1>3

-----------------------------------------------------------------------------
(* The scores of a run. *)

Score == [item : Items, score : {None} \cup 0..10, abstained : BOOLEAN, pending : BOOLEAN]

\* One score an item, and none for one that awaits its judge.
ScoresOK(scores) ==
    /\ IsFiniteSet(scores) /\ scores \subseteq Score
    /\ \A s \in scores : s.pending => s.score = None /\ Format[s.item] = "open"
    /\ \A s, u \in scores : s.item = u.item => s = u

Rated(verdicts) == \A i \in Items : verdicts[i] \in {None} \cup 0..10

LEMMA AccuracyIs ==
    ASSUME NEW pred, NEW target
    PROVE  RelativeAccuracy(pred, target) \in 0..10
<1> DEFINE within == {k \in 1..10 : 20 * Abs(pred - target) <= k * Abs(target)}
<1>1. within \in SUBSET (1..10)
  OBVIOUS
<1>2. IsFiniteSet(1..10) /\ Cardinality(1..10) = 10
  <2>1. 1 \in Int /\ 10 \in Int
    OBVIOUS
  <2>2. IsFiniteSet(1..10) /\ Cardinality(1..10) = IF 1 > 10 THEN 0 ELSE 10 - 1 + 1
    BY <2>1, FS_Interval
  <2> QED
    BY <2>2
<1> HIDE DEF within
<1>3. IsFiniteSet(within) /\ Cardinality(within) <= 10
  BY <1>1, <1>2, FS_Subset
<1>4. Cardinality(within) \in Nat
  BY <1>3, FS_CardinalityType
<1>5. Cardinality(within) \in 0..10
  BY <1>3, <1>4
<1> QED
  BY <1>5 DEF RelativeAccuracy, within

LEMMA PredictionIs ==
    ASSUME NEW row, row.item \in Items, row.status \in {"ok", "error"},
           NEW verdicts, Rated(verdicts)
    PROVE  LET s == ScorePrediction(row, verdicts)
           IN  /\ s \in Score /\ s.item = row.item
               /\ s.pending => s.score = None /\ Format[s.item] = "open"
               /\ s.pending <=> /\ row.status = "ok" /\ Format[row.item] = "open"
                                /\ verdicts[row.item] = None
               /\ s.score = None <=> s.pending \/ row.status # "ok"
<1>1. None \notin Int /\ Format[row.item] \in {"mcq", "mcq5", "numeric", "open"}
  BY ScoringAssumption
<1>2. CASE row.status # "ok"
  <2>1. ScorePrediction(row, verdicts) = ItemScore(row, None, FALSE, FALSE)
    BY <1>2 DEF ScorePrediction
  <2> QED
    BY <1>2, <2>1 DEF ItemScore, Score
<1>3. CASE row.status = "ok" /\ Format[row.item] \in {"mcq", "mcq5"}
  <2> DEFINE letter == Extract(row.answer, Options[row.item])
             abstained == letter # None /\ letter = (IF Format[row.item] = "mcq5" THEN "E"
                                                     ELSE Abstention[row.item])
             score == IF letter = Gold[row.item] THEN 10 ELSE 0
  <2>1. ScorePrediction(row, verdicts) = ItemScore(row, score, abstained, FALSE)
    BY <1>3 DEF ScorePrediction, ScoreChoice
  <2>2. abstained \in BOOLEAN /\ score \in 0..10
    OBVIOUS
  <2> HIDE DEF abstained, score
  <2> QED
    BY <1>1, <1>3, <2>1, <2>2 DEF ItemScore, Score
<1>4. CASE row.status = "ok" /\ Format[row.item] = "numeric"
  <2>1. ScorePrediction(row, verdicts)
          = ItemScore(row, RelativeAccuracy(row.answer, Gold[row.item]), FALSE, FALSE)
    BY <1>4 DEF ScorePrediction
  <2>2. RelativeAccuracy(row.answer, Gold[row.item]) \in 0..10
    BY AccuracyIs
  <2> QED
    BY <1>1, <1>4, <2>1, <2>2 DEF ItemScore, Score
<1>5. CASE row.status = "ok" /\ Format[row.item] = "open"
  <2> DEFINE pending == verdicts[row.item] = None
  <2>1. ScorePrediction(row, verdicts) = ItemScore(row, verdicts[row.item], FALSE, pending)
    BY <1>5 DEF ScorePrediction
  <2>2. pending \in BOOLEAN /\ verdicts[row.item] \in {None} \cup 0..10
    BY DEF Rated
  <2>3. pending <=> verdicts[row.item] = None
    OBVIOUS
  <2> HIDE DEF pending
  <2> QED
    BY <1>5, <2>1, <2>2, <2>3 DEF ItemScore, Score
<1> QED
  BY <1>1, <1>2, <1>3, <1>4, <1>5

\* What RowsOK says whatever was taken in.
OneRowEach(rs) ==
    /\ DOMAIN rs = 1..Len(rs) /\ Len(rs) \in Nat
    /\ \A x \in DOMAIN rs : rs[x].item \in Items /\ rs[x].status \in {"ok", "error"}
    /\ \A x, y \in DOMAIN rs : rs[x].item = rs[y].item => x = y

LEMMA ScoresAre ==
    ASSUME NEW rs, OneRowEach(rs), NEW verdicts, Rated(verdicts)
    PROVE  LET scores == ScoresOf(rs, verdicts)
           IN  /\ ScoresOK(scores)
               /\ Cardinality(scores) = Len(rs)
               /\ ItemsOf(scores) = {rs[x].item : x \in DOMAIN rs}
<1> DEFINE m == [x \in DOMAIN rs |-> ScorePrediction(rs[x], verdicts)]
           scores == ScoresOf(rs, verdicts)
<1>1. scores = {m[x] : x \in DOMAIN rs}
  BY DEF ScoresOf
<1>2. \A x \in DOMAIN rs :
         /\ m[x] \in Score /\ m[x].item = rs[x].item
         /\ m[x].pending => m[x].score = None /\ Format[m[x].item] = "open"
  <2> SUFFICES ASSUME NEW x \in DOMAIN rs
               PROVE  LET s == ScorePrediction(rs[x], verdicts)
                      IN  /\ s \in Score /\ s.item = rs[x].item
                          /\ s.pending => s.score = None /\ Format[s.item] = "open"
    OBVIOUS
  <2>1. rs[x].item \in Items /\ rs[x].status \in {"ok", "error"}
    BY DEF OneRowEach
  <2> QED
    BY <2>1, PredictionIs
<1> HIDE DEF m, scores
<1>3. IsFiniteSet(DOMAIN rs) /\ Cardinality(DOMAIN rs) = Len(rs)
  BY FS_Interval DEF OneRowEach
<1>4. \A x, y \in DOMAIN rs : m[x].item = m[y].item => x = y
  BY <1>2 DEF OneRowEach
<1>5. IsFiniteSet(scores) /\ Cardinality(scores) = Len(rs)
  <2>1. \A x, y \in DOMAIN rs : m[x] = m[y] => x = y
    BY <1>4
  <2> QED
    BY <1>1, <1>3, <2>1, ImageIs
<1>6. ScoresOK(scores)
  BY <1>1, <1>2, <1>4, <1>5 DEF ScoresOK
<1>7. ItemsOf(scores) = {rs[x].item : x \in DOMAIN rs}
  <2>1. \A x \in DOMAIN rs : m[x].item = rs[x].item
    BY <1>2
  <2> QED
    BY <1>1, <2>1 DEF ItemsOf
<1> QED
  BY <1>5, <1>6, <1>7 DEF scores

LEMMA ScoredIs ==
    ASSUME NEW scores, ScoresOK(scores)
    PROVE  /\ IsFiniteSet(Scored(scores))
           /\ \A s \in Scored(scores) : s \in scores /\ s.score \in 0..10 /\ ~s.pending
           /\ SumOf(Scored(scores)) \in Nat
<1> DEFINE f == [s \in Scored(scores) |-> s.score]
<1>1. IsFiniteSet(Scored(scores))
  <2>1. IsFiniteSet(scores) /\ Scored(scores) \in SUBSET scores
    BY DEF ScoresOK, Scored
  <2> QED
    BY <2>1, FS_Subset
<1>2. \A s \in Scored(scores) : s \in scores /\ s.score \in 0..10 /\ ~s.pending
  BY DEF ScoresOK, Scored, Score
<1>3. SumOf(Scored(scores)) = SumFunctionOnSet(f, Scored(scores))
  BY DEF SumOf, SumFunction
<1>4. \A s \in Scored(scores) : f[s] \in Nat
  BY <1>2
<1> HIDE DEF f
<1> QED
  BY <1>1, <1>2, <1>3, <1>4, SumOfNats

\* Every score is counted once.
LEMMA AggregateIs ==
    ASSUME NEW scores, ScoresOK(scores)
    PROVE  LET r == Aggregate(scores)
           IN  /\ r.n \in Nat /\ r.n_pending \in Nat /\ r.n_error \in Nat /\ r.score_sum \in Nat
               /\ r.n + r.n_pending = Cardinality(scores)
               /\ r.n = r.n_correct + r.n_incorrect + r.n_error
               /\ r.n_error > 0 <=> \E s \in scores : s.score = None /\ ~s.pending
<1> DEFINE counted == {s \in scores : ~s.pending}
           pending == {s \in scores : s.pending}
           right == {s \in Scored(scores) : s.score >= 10}
           wrong == {s \in Scored(scores) : s.score < 10}
           failed == {s \in scores : s.score = None /\ ~s.pending}
<1>1. IsFiniteSet(scores) /\ IsFiniteSet(counted) /\ IsFiniteSet(Scored(scores))
      /\ IsFiniteSet(failed)
  <2>1. IsFiniteSet(scores)
    BY DEF ScoresOK
  <2> QED
    BY <2>1, FS_Subset, ScoredIs
<1>2. scores = counted \cup pending /\ counted \cap pending = {}
  OBVIOUS
<1>3. counted = Scored(scores) \cup failed /\ Scored(scores) \cap failed = {}
  BY ScoredIs DEF Scored
<1>4. Scored(scores) = right \cup wrong /\ right \cap wrong = {}
  BY ScoredIs
<1>5. failed # {} <=> Cardinality(failed) # 0
  <2> HIDE DEF failed
  <2> QED
    BY <1>1, FS_EmptySet
<1>6. SumOf(Scored(scores)) \in Nat
  BY ScoredIs
<1> HIDE DEF counted, pending, right, wrong, failed
<1>7. /\ Cardinality(scores) = Cardinality(counted) + Cardinality(pending)
      /\ Cardinality(counted) \in Nat /\ Cardinality(pending) \in Nat
  BY <1>1, <1>2, CountSplit
<1>8. /\ Cardinality(counted) = Cardinality(Scored(scores)) + Cardinality(failed)
      /\ Cardinality(failed) \in Nat
  BY <1>1, <1>3, CountSplit
<1>9. Cardinality(Scored(scores)) = Cardinality(right) + Cardinality(wrong)
  BY <1>1, <1>4, CountSplit
<1>10. Cardinality(right) \in Nat /\ Cardinality(wrong) \in Nat
  BY <1>1, <1>4, CountSplit
<1>11. /\ Aggregate(scores).n = Cardinality(counted)
       /\ Aggregate(scores).n_pending = Cardinality(pending)
       /\ Aggregate(scores).n_correct = Cardinality(right)
       /\ Aggregate(scores).n_incorrect = Cardinality(wrong)
       /\ Aggregate(scores).n_error = Cardinality(failed)
       /\ Aggregate(scores).score_sum = SumOf(Scored(scores))
  BY DEF Aggregate, counted, pending, right, wrong, failed
<1>12. failed # {} <=> \E s \in scores : s.score = None /\ ~s.pending
  BY DEF failed
<1>13. Cardinality(failed) > 0 <=> \E s \in scores : s.score = None /\ ~s.pending
  BY <1>5, <1>8, <1>12
<1> HIDE DEF Aggregate
<1> QED
  BY <1>6, <1>7, <1>8, <1>9, <1>10, <1>11, <1>13

LEMMA AxisIs ==
    ASSUME NEW scores, ScoresOK(scores)
    PROVE  /\ IsFiniteSet(AxesOf(scores))
           /\ \A a : ScoresOK(OnAxis(scores, a))
<1>1. IsFiniteSet(scores)
  BY DEF ScoresOK
<1> DEFINE m == [s \in scores |-> Axis[s.item]]
<1>2. AxesOf(scores) = {m[s] : s \in scores}
  BY DEF AxesOf
<1>3. IsFiniteSet(AxesOf(scores))
  <2> HIDE DEF m
  <2> QED
    BY <1>1, <1>2, ImageIs
<1>4. ASSUME NEW a PROVE ScoresOK(OnAxis(scores, a))
  <2>1. OnAxis(scores, a) \in SUBSET scores
    BY DEF OnAxis
  <2>2. IsFiniteSet(OnAxis(scores, a))
    BY <1>1, <2>1, FS_Subset
  <2> QED
    BY <2>1, <2>2 DEF ScoresOK
<1> QED
  BY <1>3, <1>4

\* The reports of the axes come to that of the run.
LEMMA AxesAdd ==
    ASSUME NEW scores, ScoresOK(scores)
    PROVE  LET r == Aggregate(scores)
               axes == ByAxis(scores)
           IN  /\ r.n = SumFunction([a \in DOMAIN axes |-> axes[a].n])
               /\ r.score_sum = SumFunction([a \in DOMAIN axes |-> axes[a].score_sum])
<1> DEFINE K == AxesOf(scores)
           axis == [s \in scores |-> Axis[s.item]]
           counted == {s \in scores : ~s.pending}
           n == [a \in K |-> Aggregate(OnAxis(scores, a)).n]
           total == [a \in K |-> Aggregate(OnAxis(scores, a)).score_sum]
           f == [s \in Scored(scores) |-> s.score]
<1>1. /\ DOMAIN ByAxis(scores) = K
      /\ [a \in DOMAIN ByAxis(scores) |-> ByAxis(scores)[a].n] = n
      /\ [a \in DOMAIN ByAxis(scores) |-> ByAxis(scores)[a].score_sum] = total
  BY DEF ByAxis
<1>2. IsFiniteSet(scores) /\ IsFiniteSet(K) /\ IsFiniteSet(counted)
  <2>1. IsFiniteSet(scores)
    BY DEF ScoresOK
  <2> QED
    BY <2>1, AxisIs, FS_Subset
<1>3. \A s \in scores : axis[s] \in K
  BY DEF AxesOf
<1>4. SumFunctionOnSet(n, K) = Cardinality(counted)
  <2>1. \A a \in K : n[a] = Cardinality(Parts(axis, counted, K)[a])
    <3> SUFFICES ASSUME NEW a \in K PROVE n[a] = Cardinality(Parts(axis, counted, K)[a])
      OBVIOUS
    <3>1. n[a] = Cardinality({s \in OnAxis(scores, a) : ~s.pending})
      BY DEF Aggregate
    <3>2. {s \in OnAxis(scores, a) : ~s.pending} = Parts(axis, counted, K)[a]
      BY DEF OnAxis, Parts
    <3> QED
      BY <3>1, <3>2
  <2>2. \A s \in counted : axis[s] \in K
    BY <1>3
  <2> HIDE DEF n, K, axis, counted
  <2> QED
    BY <1>2, <2>1, <2>2, CountParts
<1>5. SumFunctionOnSet(total, K) = SumFunctionOnSet(f, Scored(scores))
  <2>1. ASSUME NEW a \in K
        PROVE  total[a] = SumFunctionOnSet(f, Parts(axis, Scored(scores), K)[a])
    <3> DEFINE part == Parts(axis, Scored(scores), K)[a]
               g == [s \in part |-> s.score]
    <3>1. part = Scored(OnAxis(scores, a)) /\ part \in SUBSET Scored(scores)
      BY DEF Scored, OnAxis, Parts
    <3>2. total[a] = SumOf(Scored(OnAxis(scores, a)))
      BY DEF Aggregate
    <3>3. SumOf(part) = SumFunctionOnSet(g, part)
      BY DEF SumOf, SumFunction
    <3>4. IsFiniteSet(part)
      <4> HIDE DEF part
      <4> QED
        BY <3>1, ScoredIs, FS_Subset
    <3>5. \A s \in part : g[s] \in Int /\ g[s] = f[s]
      <4> HIDE DEF part
      <4> QED
        BY <3>1, ScoredIs
    <3> HIDE DEF part, g, f, total
    <3>6. SumFunctionOnSet(g, part) = SumFunctionOnSet(f, part)
      BY <3>4, <3>5, SumSame
    <3>7. total[a] = SumFunctionOnSet(f, part)
      BY <3>1, <3>2, <3>3, <3>6
    <3> QED
      BY <3>7 DEF part
  <2>2. \A s \in Scored(scores) : f[s] \in Int /\ axis[s] \in K
    BY <1>3, ScoredIs
  <2>3. IsFiniteSet(Scored(scores))
    BY ScoredIs
  <2> HIDE DEF total, K, axis, f
  <2> QED
    BY <1>2, <2>1, <2>2, <2>3, SumParts
<1>6. SumFunction(n) = SumFunctionOnSet(n, K) /\ SumFunction(total) = SumFunctionOnSet(total, K)
  BY DEF SumFunction
<1>7. /\ Aggregate(scores).n = Cardinality(counted)
      /\ Aggregate(scores).score_sum = SumFunctionOnSet(f, Scored(scores))
  BY DEF Aggregate, SumOf, SumFunction
<1> HIDE DEF n, total, K, counted, f, axis, Aggregate, ByAxis
<1> QED
  BY <1>1, <1>4, <1>5, <1>6, <1>7

\* Failing on an item is never better.
LEMMA ErrorIsNoGain ==
    ASSUME NEW scores, ScoresOK(scores), NEW s \in scores
    PROVE  LET r == Aggregate(scores)
               f == Aggregate((scores \ {s}) \cup {AsError(s)})
           IN  f.score_sum * r.n <= r.score_sum * f.n
<1> DEFINE e == AsError(s)
           others == scores \ {s}
           T == others \cup {e}
           counted(set) == {u \in set : ~u.pending}
           r == Aggregate(scores)
           f == Aggregate(T)
<1>1. e \in Score /\ e.score = None /\ ~e.pending /\ e.item = s.item
  BY DEF AsError, ScoresOK, Score
<1>2. e \notin others
  BY <1>1 DEF ScoresOK
<1>3. IsFiniteSet(scores) /\ IsFiniteSet(others) /\ IsFiniteSet(counted(others))
  <2>1. IsFiniteSet(scores)
    BY DEF ScoresOK
  <2>2. IsFiniteSet(others)
    BY <2>1, FS_Subset
  <2> QED
    BY <2>1, <2>2, FS_Subset
<1>4. ScoresOK(T)
  <2>1. IsFiniteSet(T)
    BY <1>3, FS_AddElement
  <2>2. T \subseteq Score
    BY <1>1 DEF ScoresOK
  <2>3. \A u \in T : u.pending => u.score = None /\ Format[u.item] = "open"
    BY <1>1 DEF ScoresOK
  <2>4. \A u, v \in T : u.item = v.item => u = v
    BY <1>1 DEF ScoresOK
  <2> HIDE DEF T
  <2> QED
    BY <2>1, <2>2, <2>3, <2>4 DEF ScoresOK
<1>5. /\ r.n = Cardinality(counted(scores)) /\ f.n = Cardinality(counted(T))
      /\ r.score_sum = SumOf(Scored(scores)) /\ f.score_sum = SumOf(Scored(T))
  BY DEF Aggregate
<1>6. r.n \in Nat /\ f.n \in Nat /\ r.score_sum \in Nat /\ f.score_sum \in Nat
  <2> HIDE DEF T
  <2> QED
    BY <1>4, AggregateIs
<1>7. Cardinality(counted(T)) = Cardinality(counted(others)) + 1
  <2>1. counted(T) = counted(others) \cup {e} /\ e \notin counted(others)
    BY <1>1, <1>2
  <2> HIDE DEF T, others, counted, e
  <2> QED
    BY <1>3, <2>1, FS_AddElement
<1>8. Cardinality(counted(scores)) <= Cardinality(counted(others)) + 1
  <2> DEFINE O == counted(others)
  <2>1. Cardinality(O) \in Nat
    BY <1>3, FS_CardinalityType
  <2>2. CASE s.pending
    <3>1. counted(scores) = O
      BY <2>2
    <3>2. Cardinality(counted(scores)) = Cardinality(O)
      BY <3>1
    <3> DEFINE m == Cardinality(O)
    <3> HIDE DEF m
    <3>3. m <= m + 1
      BY <2>1 DEF m
    <3> QED
      BY <3>2, <3>3 DEF m
  <2>3. CASE ~s.pending
    <3>1. counted(scores) = O \cup {s} /\ s \notin O
      BY <2>3
    <3>2. IsFiniteSet(O)
      BY <1>3
    <3> HIDE DEF O
    <3>3. Cardinality(O \cup {s}) = Cardinality(O) + 1
      BY <3>1, <3>2, FS_AddElement
    <3>4. Cardinality(counted(scores)) = Cardinality(O) + 1
      BY <3>1, <3>3
    <3> DEFINE m == Cardinality(O) + 1
    <3> HIDE DEF m
    <3>5. m <= m
      BY <2>1 DEF m
    <3> QED
      BY <3>4, <3>5 DEF m, O
  <2> QED
    BY <2>2, <2>3 DEF ScoresOK, Score
<1>9. SumOf(Scored(T)) <= SumOf(Scored(scores))
  <2>1. Scored(T) = Scored(others)
    BY <1>1 DEF Scored
  <2>2. CASE s.score = None
    <3>1. Scored(others) = Scored(scores)
      BY <2>2 DEF Scored
    <3> QED
      BY <1>5, <1>6, <2>1, <3>1
  <2>3. CASE s.score # None
    <3> DEFINE A == Scored(scores)
               B == Scored(others)
               a == [u \in A |-> u.score]
               b == [u \in B |-> u.score]
    <3>1. s \in A /\ A \ {s} = B
      BY <2>3 DEF Scored
    <3>2. /\ IsFiniteSet(A) /\ IsFiniteSet(B)
          /\ \A u \in A : a[u] \in Int /\ a[u] >= 0
          /\ \A u \in B : a[u] \in Int /\ a[u] = b[u]
      <4>1. IsFiniteSet(A) /\ \A u \in A : u.score \in 0..10
        BY ScoredIs
      <4> HIDE DEF A, B
      <4>2. IsFiniteSet(B) /\ \A u \in B : u \in A
        BY <3>1, <4>1, FS_Subset
      <4> QED
        BY <4>1, <4>2
    <3>3. SumOf(A) = SumFunctionOnSet(a, A) /\ SumOf(B) = SumFunctionOnSet(b, B)
      BY DEF SumOf, SumFunction
    <3> HIDE DEF A, B, a, b
    <3>4. SumFunctionOnSet(a, A) = a[s] + SumFunctionOnSet(a, B)
      BY <3>1, <3>2, SumAdds
    <3>5. SumFunctionOnSet(a, B) = SumFunctionOnSet(b, B)
      BY <3>2, SumSame
    <3>6. SumFunctionOnSet(a, B) \in Int
      BY <3>2, SumAdds
    <3>7. SumOf(B) <= SumOf(A)
      BY <3>1, <3>2, <3>3, <3>4, <3>5, <3>6
    <3> QED
      BY <2>1, <3>7 DEF A, B
  <2> QED
    BY <2>2, <2>3
<1>10. r.n <= f.n /\ f.score_sum <= r.score_sum
  <2>1. r.n <= f.n
    <3> HIDE DEF T, others, counted, r, f
    <3> QED
      BY <1>5, <1>7, <1>8
  <2>2. f.score_sum <= r.score_sum
    <3> HIDE DEF T, r, f
    <3> QED
      BY <1>5, <1>9
  <2> QED
    BY <2>1, <2>2
<1>11. \A a, b, c, d \in Nat : a <= b /\ c <= d => a * c <= b * d
  <2> SUFFICES ASSUME NEW a \in Nat, NEW b \in Nat, NEW c \in Nat, NEW d \in Nat,
                      a <= b, c <= d
               PROVE  a * c <= b * d
    OBVIOUS
  <2>1. a * c <= b * c
    OBVIOUS
  <2>2. b * c <= b * d
    OBVIOUS
  <2>3. a * c \in Nat /\ b * c \in Nat /\ b * d \in Nat
    OBVIOUS
  <2> QED
    BY <2>1, <2>2, <2>3
<1> HIDE DEF r, f, T, e, others
<1>12. f.score_sum * r.n <= r.score_sum * f.n
  BY <1>6, <1>10, <1>11
<1> QED
  BY <1>12 DEF r, f, T, e, others

-----------------------------------------------------------------------------
(* The memory gain. *)

Pairs(a, b) == ItemsOf(Scored(a)) \cap ItemsOf(Scored(b))
Mine(a, b) == [i \in Pairs(a, b) |-> ScoreIn(a, i)]
Theirs(a, b) == [i \in Pairs(a, b) |-> ScoreIn(b, i)]
Gap(a, b) == [i \in Pairs(a, b) |-> ScoreIn(a, i) - ScoreIn(b, i)]
Squares(a, b) == [i \in Pairs(a, b) |-> Gap(a, b)[i] * Gap(a, b)[i]]
Flat(a, b) == \A i, j \in Pairs(a, b) : Gap(a, b)[i] = Gap(a, b)[j]
Significant(n, s, q, flat) == ~flat /\ 10000 * s * s * (n - 1) > 38415 * (n * q - s * s)

\* paired_gain by these names.
LEMMA GainIs ==
    ASSUME NEW a, NEW b
    PROVE  LET P == Pairs(a, b)
               n == Cardinality(P)
               s == SumFunctionOnSet(Gap(a, b), P)
               q == SumFunctionOnSet(Squares(a, b), P)
           IN  /\ P = {} => PairedGain(a, b) = None
               /\ P # {} => PairedGain(a, b) =
                     [n_paired |-> n,
                      n_dropped |-> Cardinality(ItemsOf(a) \cup ItemsOf(b)) - n,
                      sum_a |-> SumFunctionOnSet(Mine(a, b), P),
                      sum_b |-> SumFunctionOnSet(Theirs(a, b), P),
                      gain |-> s,
                      degenerate |-> Flat(a, b),
                      significant |-> Significant(n, s, q, Flat(a, b))]
BY DEF PairedGain, SumFunction, Pairs, Mine, Theirs, Gap, Squares, Flat, Significant

LEMMA ScoreInIs ==
    ASSUME NEW scores, ScoresOK(scores), NEW s \in scores
    PROVE  ScoreIn(scores, s.item) = s.score
BY DEF ScoresOK, ScoreIn

LEMMA PairsAre ==
    ASSUME NEW a, NEW b, ScoresOK(a), ScoresOK(b)
    PROVE  /\ IsFiniteSet(ItemsOf(a)) /\ IsFiniteSet(ItemsOf(b))
           /\ IsFiniteSet(Pairs(a, b)) /\ Pairs(a, b) = Pairs(b, a)
           /\ Pairs(a, b) \subseteq ItemsOf(a) /\ Pairs(a, b) \subseteq ItemsOf(b)
           /\ \A i \in Pairs(a, b) : ScoreIn(a, i) \in 0..10 /\ ScoreIn(b, i) \in 0..10
<1>1. ASSUME NEW scores, ScoresOK(scores)
      PROVE  /\ IsFiniteSet(ItemsOf(scores))
             /\ ItemsOf(Scored(scores)) \subseteq ItemsOf(scores)
             /\ \A i \in ItemsOf(Scored(scores)) : ScoreIn(scores, i) \in 0..10
  <2> DEFINE m == [s \in scores |-> s.item]
  <2>1. IsFiniteSet(scores)
    BY <1>1 DEF ScoresOK
  <2>2. ItemsOf(scores) = {m[s] : s \in scores}
    BY DEF ItemsOf
  <2>3. IsFiniteSet(ItemsOf(scores))
    <3> HIDE DEF m
    <3> QED
      BY <2>1, <2>2, ImageIs
  <2>4. ASSUME NEW i \in ItemsOf(Scored(scores)) PROVE ScoreIn(scores, i) \in 0..10
    <3>1. PICK s \in Scored(scores) : s.item = i
      BY DEF ItemsOf
    <3>2. s \in scores /\ s.score \in 0..10
      BY <1>1, ScoredIs
    <3> QED
      BY <1>1, <3>1, <3>2, ScoreInIs
  <2>5. ItemsOf(Scored(scores)) \subseteq ItemsOf(scores)
    BY DEF ItemsOf, Scored
  <2> QED
    BY <2>3, <2>4, <2>5
<1>2. Pairs(a, b) \subseteq ItemsOf(a) /\ Pairs(a, b) \subseteq ItemsOf(b)
  BY <1>1 DEF Pairs
<1>3. IsFiniteSet(Pairs(a, b))
  BY <1>1, <1>2, FS_Subset
<1> QED
  BY <1>1, <1>2, <1>3 DEF Pairs

LEMMA GapIs ==
    ASSUME NEW a, NEW b, ScoresOK(a), ScoresOK(b)
    PROVE  LET P == Pairs(a, b)
           IN  /\ \A i \in P : /\ Mine(a, b)[i] \in 0..10 /\ Theirs(a, b)[i] \in 0..10
                               /\ Gap(a, b)[i] = Mine(a, b)[i] - Theirs(a, b)[i]
                               /\ Gap(a, b)[i] \in Int
                               /\ Squares(a, b)[i] \in Nat
               /\ SumFunctionOnSet(Mine(a, b), P) \in Nat
               /\ SumFunctionOnSet(Theirs(a, b), P) \in Nat
               /\ SumFunctionOnSet(Gap(a, b), P)
                    = SumFunctionOnSet(Mine(a, b), P) - SumFunctionOnSet(Theirs(a, b), P)
               /\ SumFunctionOnSet(Gap(a, b), P) \in Int
               /\ SumFunctionOnSet(Squares(a, b), P) \in Nat
<1> DEFINE P == Pairs(a, b)
<1>1. IsFiniteSet(P) /\ \A i \in P : ScoreIn(a, i) \in 0..10 /\ ScoreIn(b, i) \in 0..10
  BY PairsAre
<1>2. \A i \in P : /\ Mine(a, b)[i] \in 0..10 /\ Theirs(a, b)[i] \in 0..10
                   /\ Gap(a, b)[i] = Mine(a, b)[i] - Theirs(a, b)[i]
                   /\ Gap(a, b)[i] \in Int
  BY <1>1 DEF Mine, Theirs, Gap
<1>3. \A i \in P : Squares(a, b)[i] \in Nat
  <2>1. \A x \in Int : x * x \in Nat
    OBVIOUS
  <2>2. \A i \in P : Squares(a, b)[i] = Gap(a, b)[i] * Gap(a, b)[i]
    BY DEF Squares
  <2> QED
    BY <1>2, <2>1, <2>2
<1> HIDE DEF P
<1>4. /\ SumFunctionOnSet(Mine(a, b), P) \in Nat
      /\ SumFunctionOnSet(Theirs(a, b), P) \in Nat
      /\ SumFunctionOnSet(Squares(a, b), P) \in Nat
  <2>1. /\ \A i \in P : Mine(a, b)[i] \in Nat
        /\ \A i \in P : Theirs(a, b)[i] \in Nat
    BY <1>2
  <2> QED
    BY <1>1, <1>3, <2>1, SumOfNats
<1>5. SumFunctionOnSet(Gap(a, b), P)
        = SumFunctionOnSet(Mine(a, b), P) - SumFunctionOnSet(Theirs(a, b), P)
  <2>1. \A i \in P : /\ Mine(a, b)[i] \in Int /\ Theirs(a, b)[i] \in Int
                     /\ Gap(a, b)[i] = Mine(a, b)[i] - Theirs(a, b)[i]
    BY <1>2
  <2> QED
    BY <1>1, <2>1, SumDiff
<1>6. SumFunctionOnSet(Gap(a, b), P) \in Int
  BY <1>4, <1>5
<1> QED
  BY <1>2, <1>3, <1>4, <1>5, <1>6 DEF P

LEMMA EstimateIs ==
    ASSUME NEW a, NEW b, ScoresOK(a), ScoresOK(b)
    PROVE  LET P == Pairs(a, b)
               o == PairedGain(a, b)
           IN  /\ o = None <=> P = {}
               /\ o # None =>
                     /\ o.n_paired = Cardinality(P) /\ o.n_paired \in Nat /\ o.gain \in Int
                     /\ o.n_dropped = Cardinality(ItemsOf(a) \cup ItemsOf(b)) - Cardinality(P)
                     /\ o.n_paired + o.n_dropped = Cardinality(ItemsOf(a) \cup ItemsOf(b))
                     /\ o.gain = SumFunctionOnSet(Gap(a, b), P)
                     /\ o.gain = o.sum_a - o.sum_b
                     /\ o.sum_a = SumFunctionOnSet(Mine(a, b), P)
                     /\ o.sum_b = SumFunctionOnSet(Theirs(a, b), P)
                     /\ o.significant => o.n_paired > 1 /\ o.gain # 0 /\ ~o.degenerate
<1> DEFINE P == Pairs(a, b)
           n == Cardinality(P)
           all == Cardinality(ItemsOf(a) \cup ItemsOf(b))
           s == SumFunctionOnSet(Gap(a, b), P)
           q == SumFunctionOnSet(Squares(a, b), P)
           flat == Flat(a, b)
           o == PairedGain(a, b)
<1>1. IsFiniteSet(P) /\ n \in Nat /\ all \in Nat
  <2>1. IsFiniteSet(ItemsOf(a)) /\ IsFiniteSet(ItemsOf(b)) /\ IsFiniteSet(P)
    BY PairsAre
  <2>2. IsFiniteSet(ItemsOf(a) \cup ItemsOf(b))
    BY <2>1, FS_Union
  <2> QED
    BY <2>1, <2>2, FS_CardinalityType
<1>2. CASE P = {}
  BY <1>2, GainIs
<1>3. CASE P # {}
  <2>1. /\ SumFunctionOnSet(Mine(a, b), P) \in Nat /\ SumFunctionOnSet(Theirs(a, b), P) \in Nat
        /\ s = SumFunctionOnSet(Mine(a, b), P) - SumFunctionOnSet(Theirs(a, b), P)
        /\ s \in Int /\ q \in Nat
    BY GapIs
  <2>2. o = [n_paired |-> n, n_dropped |-> all - n,
             sum_a |-> SumFunctionOnSet(Mine(a, b), P),
             sum_b |-> SumFunctionOnSet(Theirs(a, b), P),
             gain |-> s, degenerate |-> flat, significant |-> Significant(n, s, q, flat)]
    BY <1>3, GainIs
  <2>3. flat \in BOOLEAN /\ Significant(n, s, q, flat) \in BOOLEAN
    BY DEF Flat, Significant
  <2>4. Significant(n, s, q, flat) => n > 1 /\ s # 0 /\ ~flat
    <3> SUFFICES ASSUME Significant(n, s, q, flat) PROVE n > 1 /\ s # 0 /\ ~flat
      OBVIOUS
    <3>1. ~flat /\ 10000 * s * s * (n - 1) > 38415 * (n * q - s * s)
      BY DEF Significant
    <3>2. n > 1
      <4>1. PICK i \in P, j \in P : Gap(a, b)[i] # Gap(a, b)[j]
        BY <3>1 DEF Flat
      <4>2. {i, j} \in SUBSET P /\ i # j
        BY <4>1
      <4>3. Cardinality({i, j}) = 2
        <5>1. IsFiniteSet({i}) /\ Cardinality({i}) = 1 /\ j \notin {i}
          BY <4>2, FS_Singleton
        <5>2. Cardinality({i} \cup {j}) = 1 + 1
          BY <5>1, FS_AddElement
        <5>3. {i, j} = {i} \cup {j}
          OBVIOUS
        <5> QED
          BY <5>2, <5>3
      <4>4. Cardinality({i, j}) <= n
        BY <1>1, <4>2, FS_Subset
      <4> HIDE DEF n, P
      <4> QED
        BY <1>1, <4>3, <4>4
    <3>3. s # 0
      <4> SUFFICES ASSUME s = 0 PROVE FALSE
        OBVIOUS
      <4> DEFINE l == 10000 * s * s * (n - 1)
                 r == 38415 * (n * q - s * s)
      <4>0. l > r
        BY <3>1
      <4> HIDE DEF s, n, q
      <4>1. l = 0 /\ s * s = 0
        BY <1>1
      <4>2. n * q \in Nat
        BY <1>1, <2>1
      <4>3. r \in Int /\ r >= 0
        BY <4>1, <4>2
      <4> HIDE DEF l, r
      <4> QED
        BY <4>0, <4>1, <4>3
    <3> QED
      BY <3>1, <3>2, <3>3
  <2>5. o # None
    <3>1. all - n \in Int
      BY <1>1
    <3> HIDE DEF n, all, s, q, flat, o, P
    <3>2. o \in Estimate
      BY <1>1, <2>1, <2>2, <2>3, <3>1 DEF Estimate
    <3> QED
      BY <3>2, ScoringAssumption
  <2>6. n + (all - n) = all
    <3> HIDE DEF n, all
    <3> QED
      BY <1>1
  <2> HIDE DEF n, all, s, q, flat, o
  <2>7. /\ o.n_paired = n /\ o.n_dropped = all - n /\ o.gain = s
        /\ o.sum_a = SumFunctionOnSet(Mine(a, b), P)
        /\ o.sum_b = SumFunctionOnSet(Theirs(a, b), P)
        /\ o.degenerate = flat /\ o.significant = Significant(n, s, q, flat)
    BY <2>2
  <2>8. /\ o.n_paired \in Nat /\ o.gain \in Int /\ o.n_paired + o.n_dropped = all
        /\ o.gain = o.sum_a - o.sum_b
        /\ o.significant => o.n_paired > 1 /\ o.gain # 0 /\ ~o.degenerate
    BY <1>1, <2>1, <2>4, <2>6, <2>7
  <2> QED
    BY <1>3, <2>5, <2>7, <2>8 DEF n, all, s, o
<1> QED
  BY <1>2, <1>3

\* The other way round only the sign turns.
LEMMA TurnedIs ==
    ASSUME NEW a, NEW b, ScoresOK(a), ScoresOK(b), Pairs(a, b) # {}
    PROVE  LET o == PairedGain(a, b)
           IN  PairedGain(b, a) = [o EXCEPT !.gain = -@, !.sum_a = o.sum_b, !.sum_b = o.sum_a]
<1> DEFINE P == Pairs(a, b)
           n == Cardinality(P)
           dropped == Cardinality(ItemsOf(a) \cup ItemsOf(b)) - n
           x == SumFunctionOnSet(Mine(a, b), P)
           y == SumFunctionOnSet(Theirs(a, b), P)
           s == SumFunctionOnSet(Gap(a, b), P)
           q == SumFunctionOnSet(Squares(a, b), P)
           flat == Flat(a, b)
           t == SumFunctionOnSet(Gap(b, a), P)
<1>1. Pairs(b, a) = P /\ IsFiniteSet(P)
  BY PairsAre
<1>2. ItemsOf(b) \cup ItemsOf(a) = ItemsOf(a) \cup ItemsOf(b)
  OBVIOUS
<1>3. Mine(b, a) = Theirs(a, b) /\ Theirs(b, a) = Mine(a, b)
  BY <1>1 DEF Mine, Theirs
<1>4. \A i \in P : /\ Gap(a, b)[i] \in Int /\ Gap(b, a)[i] = -Gap(a, b)[i]
                   /\ Squares(a, b)[i] \in Int
  <2>1. \A i \in P : ScoreIn(a, i) \in 0..10 /\ ScoreIn(b, i) \in 0..10
    BY PairsAre
  <2>2. \A i \in P : /\ Gap(a, b)[i] = ScoreIn(a, i) - ScoreIn(b, i)
                     /\ Gap(b, a)[i] = ScoreIn(b, i) - ScoreIn(a, i)
    BY <1>1 DEF Gap
  <2>3. \A i \in P : Squares(a, b)[i] \in Int
    BY GapIs
  <2> HIDE DEF P
  <2> QED
    BY <2>1, <2>2, <2>3
<1>5. \A u, v \in Int : v = -u => v * v = u * u /\ 10000 * v * v = 10000 * u * u
  OBVIOUS
<1>6. SumFunctionOnSet(Squares(a, b), P) = SumFunctionOnSet(Squares(b, a), P)
  <2>1. \A i \in P : Squares(a, b)[i] = Gap(a, b)[i] * Gap(a, b)[i]
    BY DEF Squares
  <2>2. \A i \in P : Squares(b, a)[i] = Gap(b, a)[i] * Gap(b, a)[i]
    BY <1>1 DEF Squares
  <2>3. \A i \in P : Gap(b, a)[i] * Gap(b, a)[i] = Gap(a, b)[i] * Gap(a, b)[i]
    <3> SUFFICES ASSUME NEW i \in P
                 PROVE  Gap(b, a)[i] * Gap(b, a)[i] = Gap(a, b)[i] * Gap(a, b)[i]
      OBVIOUS
    <3> DEFINE u == Gap(a, b)[i]
               v == Gap(b, a)[i]
    <3>1. u \in Int /\ v \in Int /\ v = -u
      BY <1>4
    <3> HIDE DEF u, v
    <3>2. v * v = u * u
      BY <1>5, <3>1
    <3> QED
      BY <3>2 DEF u, v
  <2> HIDE DEF P
  <2>4. \A i \in P : Squares(a, b)[i] \in Int /\ Squares(a, b)[i] = Squares(b, a)[i]
    BY <1>4, <2>1, <2>2, <2>3
  <2> QED
    BY <1>1, <2>4, SumSame
<1>7. s \in Int /\ t = -s /\ x \in Nat /\ y \in Nat
  <2>1. s = x - y /\ x \in Nat /\ y \in Nat
    BY GapIs
  <2>2. t = SumFunctionOnSet(Mine(b, a), P) - SumFunctionOnSet(Theirs(b, a), P)
    BY <1>1, GapIs
  <2>3. t = y - x
    BY <1>3, <2>2
  <2> HIDE DEF s, t, x, y
  <2> QED
    BY <2>1, <2>3
<1>8. Flat(b, a) = flat
  <2>1. Flat(b, a) <=> Flat(a, b)
    <3> SUFFICES (\A i, j \in P : Gap(b, a)[i] = Gap(b, a)[j])
                   <=> (\A i, j \in P : Gap(a, b)[i] = Gap(a, b)[j])
      BY <1>1 DEF Flat
    <3>1. \A i, j \in P : Gap(b, a)[i] = Gap(b, a)[j] <=> Gap(a, b)[i] = Gap(a, b)[j]
      BY <1>4
    <3> HIDE DEF P
    <3> QED
      BY <3>1
  <2>2. Flat(b, a) \in BOOLEAN /\ Flat(a, b) \in BOOLEAN
    BY DEF Flat
  <2> QED
    BY <2>1, <2>2
<1>9. Significant(n, t, q, flat) = Significant(n, s, q, flat)
  <2> HIDE DEF n, s, q, flat, t
  <2>1. t * t = s * s /\ 10000 * t * t = 10000 * s * s
    BY <1>5, <1>7
  <2> DEFINE Test(l, k) == l * (n - 1) > 38415 * (n * q - k)
  <2>2. Test(10000 * t * t, t * t) <=> Test(10000 * s * s, s * s)
    <3> DEFINE l == 10000 * t * t
               m == 10000 * s * s
               k == t * t
               j == s * s
    <3>1. l = m /\ k = j
      BY <2>1
    <3> HIDE DEF l, m, k, j
    <3>2. Test(l, k) <=> Test(m, j)
      BY <3>1
    <3> QED
      BY <3>2 DEF l, m, k, j
  <2>3. /\ Significant(n, t, q, flat) <=> ~flat /\ Test(10000 * t * t, t * t)
        /\ Significant(n, s, q, flat) <=> ~flat /\ Test(10000 * s * s, s * s)
    BY DEF Significant
  <2> HIDE DEF Test
  <2>4. Significant(n, t, q, flat) <=> Significant(n, s, q, flat)
    BY <2>2, <2>3
  <2>5. Significant(n, t, q, flat) \in BOOLEAN /\ Significant(n, s, q, flat) \in BOOLEAN
    BY DEF Significant
  <2> QED
    BY <2>4, <2>5
<1>10. PairedGain(a, b) = [n_paired |-> n, n_dropped |-> dropped, sum_a |-> x, sum_b |-> y,
                           gain |-> s, degenerate |-> flat,
                           significant |-> Significant(n, s, q, flat)]
  BY GainIs
<1>11. PairedGain(b, a) = [n_paired |-> n, n_dropped |-> dropped, sum_a |-> y, sum_b |-> x,
                           gain |-> t, degenerate |-> flat,
                           significant |-> Significant(n, t, q, flat)]
  <2>1. PairedGain(b, a) =
          [n_paired |-> n, n_dropped |-> Cardinality(ItemsOf(b) \cup ItemsOf(a)) - n,
           sum_a |-> SumFunctionOnSet(Mine(b, a), P),
           sum_b |-> SumFunctionOnSet(Theirs(b, a), P),
           gain |-> SumFunctionOnSet(Gap(b, a), P),
           degenerate |-> Flat(b, a),
           significant |-> Significant(n, SumFunctionOnSet(Gap(b, a), P),
                                       SumFunctionOnSet(Squares(b, a), P), Flat(b, a))]
    BY <1>1, GainIs
  <2> QED
    BY <1>2, <1>3, <1>6, <1>8, <2>1
<1> DEFINE sig == Significant(n, s, q, flat)
<1> HIDE DEF P, n, dropped, x, y, s, q, flat, t
<1>12. /\ PairedGain(a, b) = [n_paired |-> n, n_dropped |-> dropped, sum_a |-> x, sum_b |-> y,
                              gain |-> s, degenerate |-> flat, significant |-> sig]
       /\ PairedGain(b, a) = [n_paired |-> n, n_dropped |-> dropped, sum_a |-> y, sum_b |-> x,
                              gain |-> -s, degenerate |-> flat, significant |-> sig]
  BY <1>7, <1>9, <1>10, <1>11
<1> HIDE DEF sig
<1> DEFINE o == PairedGain(a, b)
           o1 == [o EXCEPT !.gain = -o.gain]
           o2 == [o1 EXCEPT !.sum_a = o.sum_b]
           o3 == [o2 EXCEPT !.sum_b = o.sum_a]
<1>13. /\ o.gain = s /\ o.sum_a = x /\ o.sum_b = y
       /\ o1 = [n_paired |-> n, n_dropped |-> dropped, sum_a |-> x, sum_b |-> y,
                gain |-> -s, degenerate |-> flat, significant |-> sig]
  BY <1>12
<1> HIDE DEF o1, o
<1>14. o2 = [n_paired |-> n, n_dropped |-> dropped, sum_a |-> y, sum_b |-> y,
             gain |-> -s, degenerate |-> flat, significant |-> sig]
  BY <1>13
<1> HIDE DEF o2
<1>15. o3 = [n_paired |-> n, n_dropped |-> dropped, sum_a |-> y, sum_b |-> x,
             gain |-> -s, degenerate |-> flat, significant |-> sig]
  BY <1>13, <1>14
<1> HIDE DEF o3
<1>16. PairedGain(b, a) = o3
  BY <1>12, <1>15
<1> QED
  BY <1>16 DEF o3, o2, o1, o

LEMMA AxisPairs ==
    ASSUME NEW a, NEW b, ScoresOK(a), ScoresOK(b), NEW x
    PROVE  /\ Pairs(OnAxis(a, x), OnAxis(b, x)) = {i \in Pairs(a, b) : Axis[i] = x}
           /\ \A i \in Pairs(OnAxis(a, x), OnAxis(b, x)) :
                 Gap(OnAxis(a, x), OnAxis(b, x))[i] = Gap(a, b)[i]
<1>1. ASSUME NEW scores, ScoresOK(scores)
      PROVE  /\ ItemsOf(Scored(OnAxis(scores, x)))
                  = {i \in ItemsOf(Scored(scores)) : Axis[i] = x}
             /\ \A i \in ItemsOf(Scored(OnAxis(scores, x))) :
                   ScoreIn(OnAxis(scores, x), i) = ScoreIn(scores, i)
  <2>1. ItemsOf(Scored(OnAxis(scores, x))) = {i \in ItemsOf(Scored(scores)) : Axis[i] = x}
    BY DEF ItemsOf, Scored, OnAxis
  <2>2. ASSUME NEW i \in ItemsOf(Scored(OnAxis(scores, x)))
        PROVE  ScoreIn(OnAxis(scores, x), i) = ScoreIn(scores, i)
    <3>1. PICK s \in OnAxis(scores, x) : s.item = i
      BY DEF ItemsOf, Scored
    <3>2. s \in scores
      BY DEF OnAxis
    <3>3. ScoresOK(OnAxis(scores, x))
      BY <1>1, AxisIs
    <3>4. ScoreIn(OnAxis(scores, x), i) = s.score
      BY <3>1, <3>3, ScoreInIs
    <3> QED
      BY <1>1, <3>1, <3>2, <3>4, ScoreInIs
  <2> QED
    BY <2>1, <2>2
<1>2. Pairs(OnAxis(a, x), OnAxis(b, x)) = {i \in Pairs(a, b) : Axis[i] = x}
  BY <1>1 DEF Pairs
<1>3. \A i \in Pairs(OnAxis(a, x), OnAxis(b, x)) :
         /\ ScoreIn(OnAxis(a, x), i) = ScoreIn(a, i)
         /\ ScoreIn(OnAxis(b, x), i) = ScoreIn(b, i)
  BY <1>1 DEF Pairs
<1> QED
  BY <1>2, <1>3 DEF Gap

\* Where nothing is dropped, the reports of both have the pairs and no more.
LEMMA NoneDropped ==
    ASSUME NEW t, ScoresOK(t), NEW f, NEW P, ItemsOf(t) = P,
           P \subseteq ItemsOf(Scored(t)), \A i \in P : f[i] = ScoreIn(t, i)
    PROVE  /\ Aggregate(t).n = Cardinality(P)
           /\ Aggregate(t).score_sum = SumFunctionOnSet(f, P)
<1> DEFINE m == [s \in t |-> s.item]
           g == [s \in t |-> s.score]
<1>1. IsFiniteSet(t) /\ \A s, u \in t : s.item = u.item => s = u
  BY DEF ScoresOK
<1>2. Scored(t) = t
  <2>1. ASSUME NEW s \in t PROVE s \in Scored(t)
    <3>1. s.item \in ItemsOf(Scored(t))
      BY DEF ItemsOf
    <3>2. PICK u \in Scored(t) : u.item = s.item
      BY <3>1 DEF ItemsOf
    <3> QED
      BY <1>1, <3>2 DEF Scored
  <2> QED
    BY <2>1 DEF Scored
<1>3. \A s \in t : s.score \in 0..10 /\ ~s.pending
  BY <1>2, ScoredIs
<1>4. P = {m[s] : s \in t} /\ \A s, u \in t : m[s] = m[u] => s = u
  BY <1>1 DEF ItemsOf
<1>5. Aggregate(t).n = Cardinality(P)
  <2>1. {s \in t : ~s.pending} = t
    BY <1>3
  <2>2. Aggregate(t).n = Cardinality(t)
    BY <2>1 DEF Aggregate
  <2> HIDE DEF m
  <2>3. Cardinality({m[s] : s \in t}) = Cardinality(t)
    BY <1>1, <1>4, ImageIs
  <2> QED
    BY <1>4, <2>2, <2>3
<1>6. Aggregate(t).score_sum = SumFunctionOnSet(f, P)
  <2>1. Aggregate(t).score_sum = SumFunctionOnSet(g, t)
    BY <1>2 DEF Aggregate, SumOf, SumFunction
  <2>2. \A s \in t : g[s] \in Int /\ g[s] = f[m[s]]
    <3>1. \A s \in t : ScoreIn(t, s.item) = s.score
      BY ScoreInIs
    <3>2. \A s \in t : m[s] = s.item /\ m[s] \in P
      BY <1>4
    <3>3. \A s \in t : g[s] = s.score
      OBVIOUS
    <3> HIDE DEF m, g
    <3> QED
      BY <1>3, <3>1, <3>2, <3>3
  <2> HIDE DEF m, g
  <2>3. SumFunctionOnSet(g, t) = SumFunctionOnSet(f, {m[s] : s \in t})
    BY <1>1, <1>4, <2>2, SumMoved
  <2> QED
    BY <1>4, <2>1, <2>3
<1> QED
  BY <1>5, <1>6

\* What GainAddsUp says of one baseline.
LEMMA GainAdds ==
    ASSUME NEW a, NEW b, ScoresOK(a), ScoresOK(b)
    PROVE  LET g == MemoryGain(a, b)
               o == g.overall
               given == {x \in DOMAIN g.axes : g.axes[x] # None}
               Counts(e, p, q) == e.n_paired + e.n_dropped = Cardinality(ItemsOf(p) \cup ItemsOf(q))
           IN  /\ \A x \in given : Counts(g.axes[x], OnAxis(a, x), OnAxis(b, x))
               /\ (o = None) <=> (given = {})
               /\ o # None =>
                     /\ Counts(o, a, b)
                     /\ o.n_paired = SumFunction([x \in given |-> g.axes[x].n_paired])
                     /\ o.gain = SumFunction([x \in given |-> g.axes[x].gain])
                     /\ o.n_dropped = 0 =>
                           /\ o.n_paired = Aggregate(a).n /\ o.n_paired = Aggregate(b).n
                           /\ o.gain = Aggregate(a).score_sum - Aggregate(b).score_sum
                     /\ PairedGain(b, a)
                          = [o EXCEPT !.gain = -@, !.sum_a = o.sum_b, !.sum_b = o.sum_a]
                     /\ o.significant => o.n_paired > 1 /\ o.gain # 0 /\ ~o.degenerate
<1> DEFINE P == Pairs(a, b)
           K == AxesOf(a) \cup AxesOf(b)
           axes == MemoryGain(a, b).axes
           o == PairedGain(a, b)
           given == {x \in K : axes[x] # None}
           axis == [i \in P |-> Axis[i]]
           Part(x) == Pairs(OnAxis(a, x), OnAxis(b, x))
           counts == [x \in given |-> axes[x].n_paired]
           gains == [x \in given |-> axes[x].gain]
<1>1. /\ MemoryGain(a, b).overall = o /\ DOMAIN axes = K
      /\ \A x \in K : axes[x] = PairedGain(OnAxis(a, x), OnAxis(b, x))
  BY DEF MemoryGain
<1>2. \A x : ScoresOK(OnAxis(a, x)) /\ ScoresOK(OnAxis(b, x))
  BY AxisIs
<1>3. ASSUME NEW x \in K
      PROVE  /\ axes[x] = None <=> Part(x) = {}
             /\ axes[x] # None =>
                   /\ axes[x].n_paired = Cardinality(Part(x))
                   /\ axes[x].n_paired + axes[x].n_dropped
                        = Cardinality(ItemsOf(OnAxis(a, x)) \cup ItemsOf(OnAxis(b, x)))
                   /\ axes[x].gain
                        = SumFunctionOnSet(Gap(OnAxis(a, x), OnAxis(b, x)), Part(x))
  <2>1. axes[x] = PairedGain(OnAxis(a, x), OnAxis(b, x))
    BY <1>1
  <2> HIDE DEF axes
  <2> QED
    BY <1>2, <2>1, EstimateIs
<1>4. IsFiniteSet(P) /\ IsFiniteSet(K) /\ IsFiniteSet(given)
  <2>1. IsFiniteSet(K)
    BY AxisIs, FS_Union
  <2>2. IsFiniteSet(given)
    BY <2>1, FS_Subset
  <2> QED
    BY <2>1, <2>2, PairsAre
<1>5. \A i \in P : Axis[i] \in K /\ i \in Part(Axis[i])
  <2>1. ASSUME NEW i \in P PROVE Axis[i] \in AxesOf(a)
    <3>1. i \in ItemsOf(a)
      BY PairsAre
    <3> QED
      BY <3>1 DEF ItemsOf, AxesOf
  <2> QED
    BY <2>1, AxisPairs
<1>6. \A x : Part(x) = {i \in P : Axis[i] = x}
  BY AxisPairs
<1> HIDE DEF axes
<1>7. \A i \in P : axis[i] \in given /\ axis[i] = Axis[i]
  BY <1>3, <1>5
<1>8. \A x \in given : Part(x) = Parts(axis, P, given)[x]
  BY <1>6, <1>7 DEF Parts
<1>9. (o = None) <=> (given = {})
  <2>1. o = None <=> P = {}
    BY EstimateIs
  <2>2. given # {} => P # {}
    BY <1>3, <1>6
  <2>3. P # {} => given # {}
    BY <1>7
  <2> QED
    BY <2>1, <2>2, <2>3
<1>10. Cardinality(P) = SumFunction(counts)
  <2>1. \A x \in given : counts[x] = Cardinality(Part(x))
    BY <1>3
  <2>2. \A x \in given : counts[x] = Cardinality(Parts(axis, P, given)[x])
    BY <1>8, <2>1
  <2>3. SumFunction(counts) = SumFunctionOnSet(counts, given)
    BY DEF SumFunction
  <2> HIDE DEF counts, given, axis, P
  <2> QED
    BY <1>4, <1>7, <2>2, <2>3, CountParts
<1>11. SumFunctionOnSet(Gap(a, b), P) = SumFunction(gains)
  <2>1. ASSUME NEW x \in given
        PROVE  gains[x] = SumFunctionOnSet(Gap(a, b), Parts(axis, P, given)[x])
    <3> DEFINE h == Gap(OnAxis(a, x), OnAxis(b, x))
    <3>1. gains[x] = SumFunctionOnSet(h, Part(x))
      BY <1>3
    <3>2. IsFiniteSet(Part(x)) /\ \A i \in Part(x) : h[i] \in Int
      BY <1>2, PairsAre, GapIs
    <3>3. \A i \in Part(x) : h[i] = Gap(a, b)[i]
      BY AxisPairs
    <3> HIDE DEF h, Part, gains
    <3>4. SumFunctionOnSet(h, Part(x)) = SumFunctionOnSet(Gap(a, b), Part(x))
      BY <3>2, <3>3, SumSame
    <3> QED
      BY <1>8, <3>1, <3>4
  <2>2. \A i \in P : Gap(a, b)[i] \in Int
    BY GapIs
  <2>3. SumFunction(gains) = SumFunctionOnSet(gains, given)
    BY DEF SumFunction
  <2> HIDE DEF gains, given, axis, P
  <2> QED
    BY <1>4, <1>7, <2>1, <2>2, <2>3, SumParts
<1>12. ASSUME o # None
       PROVE  /\ o.n_paired + o.n_dropped = Cardinality(ItemsOf(a) \cup ItemsOf(b))
              /\ o.n_paired = SumFunction(counts)
              /\ o.gain = SumFunction(gains)
              /\ PairedGain(b, a) = [o EXCEPT !.gain = -@, !.sum_a = o.sum_b, !.sum_b = o.sum_a]
              /\ o.significant => o.n_paired > 1 /\ o.gain # 0 /\ ~o.degenerate
  <2>1. P # {}
    BY <1>12, EstimateIs
  <2>2. PairedGain(b, a) = [o EXCEPT !.gain = -@, !.sum_a = o.sum_b, !.sum_b = o.sum_a]
    BY <2>1, TurnedIs
  <2>3. /\ o.n_paired + o.n_dropped = Cardinality(ItemsOf(a) \cup ItemsOf(b))
        /\ o.n_paired = Cardinality(P)
        /\ o.gain = SumFunctionOnSet(Gap(a, b), P)
        /\ o.significant => o.n_paired > 1 /\ o.gain # 0 /\ ~o.degenerate
    BY <1>12, EstimateIs
  <2> HIDE DEF o, P, counts, gains
  <2> QED
    BY <1>10, <1>11, <2>2, <2>3
<1>13. ASSUME o # None, o.n_dropped = 0
       PROVE  /\ o.n_paired = Aggregate(a).n /\ o.n_paired = Aggregate(b).n
              /\ o.gain = Aggregate(a).score_sum - Aggregate(b).score_sum
  <2> DEFINE all == ItemsOf(a) \cup ItemsOf(b)
  <2>1. /\ o.n_dropped = Cardinality(all) - Cardinality(P)
        /\ o.n_paired = Cardinality(P) /\ o.gain = o.sum_a - o.sum_b
        /\ o.sum_a = SumFunctionOnSet(Mine(a, b), P)
        /\ o.sum_b = SumFunctionOnSet(Theirs(a, b), P)
    BY <1>13, EstimateIs
  <2>2. IsFiniteSet(all) /\ P \in SUBSET all
    BY PairsAre, FS_Union
  <2>3. Cardinality(all) \in Nat /\ Cardinality(P) \in Nat
    BY <1>4, <2>2, FS_CardinalityType
  <2>4. Cardinality(all) = Cardinality(P)
    <3> HIDE DEF all, P
    <3> QED
      BY <1>13, <2>1, <2>3
  <2>5. all = P
    <3> HIDE DEF all, P
    <3> QED
      BY <2>2, <2>4, FS_Subset
  <2>6. /\ ItemsOf(a) = P /\ ItemsOf(b) = P
        /\ P \subseteq ItemsOf(Scored(a)) /\ P \subseteq ItemsOf(Scored(b))
    BY <2>5, PairsAre DEF Pairs
  <2>7. /\ \A i \in P : Mine(a, b)[i] = ScoreIn(a, i)
        /\ \A i \in P : Theirs(a, b)[i] = ScoreIn(b, i)
    BY DEF Mine, Theirs
  <2> HIDE DEF P, o
  <2>8. /\ Aggregate(a).n = Cardinality(P)
        /\ Aggregate(a).score_sum = SumFunctionOnSet(Mine(a, b), P)
    BY <2>6, <2>7, NoneDropped
  <2>9. /\ Aggregate(b).n = Cardinality(P)
        /\ Aggregate(b).score_sum = SumFunctionOnSet(Theirs(a, b), P)
    BY <2>6, <2>7, NoneDropped
  <2> QED
    BY <2>1, <2>8, <2>9
<1>14. /\ {x \in DOMAIN axes : axes[x] # None} = given
       /\ \A x \in given : axes[x].n_paired + axes[x].n_dropped
                             = Cardinality(ItemsOf(OnAxis(a, x)) \cup ItemsOf(OnAxis(b, x)))
  BY <1>1, <1>3
<1> HIDE DEF given, o
<1> QED
  BY <1>1, <1>9, <1>12, <1>13, <1>14 DEF axes

-----------------------------------------------------------------------------
(* What a reply is read as. *)

LEMMA MinIs ==
    ASSUME NEW S \in SUBSET Nat, S # {}
    PROVE  Min(S) \in S /\ \A y \in S : Min(S) <= y
<1> DEFINE T == {0..x : x \in S}
<1>1. T \subseteq FiniteSubsetsOf(Nat) /\ T # {}
  <2>1. ASSUME NEW x \in S PROVE 0..x \in SUBSET Nat /\ IsFiniteSet(0..x)
    BY FS_Interval
  <2> QED
    BY <2>1 DEF FiniteSubsetsOf
<1>2. PICK t \in T : \A u \in T : <<u, t>> \notin StrictSubsetOrdering(Nat)
  BY <1>1, FS_StrictSubsetOrderingWellFounded, WFMin
<1>3. PICK m \in S : t = 0..m
  OBVIOUS
<1>4. ASSUME NEW y \in S, y < m PROVE FALSE
  <2>1. 0..y \in T /\ 0..y \subseteq 0..m /\ 0..y # 0..m
    BY <1>4
  <2>2. <<0..y, 0..m>> \in StrictSubsetOrdering(Nat)
    BY <1>3, <2>1 DEF StrictSubsetOrdering
  <2> QED
    BY <1>2, <1>3, <2>1, <2>2
<1>5. \A y \in S : m <= y
  BY <1>4
<1> QED
  BY <1>5 DEF Min

LEMMA MaxIs ==
    ASSUME NEW S \in SUBSET Nat, S # {}, IsFiniteSet(S)
    PROVE  Max(S) \in S /\ \A y \in S : y <= Max(S)
<1> DEFINE U(x) == {y \in S : x < y}
           T == {U(x) : x \in S}
<1>1. T \subseteq FiniteSubsetsOf(S) /\ T # {}
  <2>1. ASSUME NEW x \in S PROVE U(x) \in SUBSET S /\ IsFiniteSet(U(x))
    BY FS_Subset
  <2> QED
    BY <2>1 DEF FiniteSubsetsOf
<1>2. PICK t \in T : \A u \in T : <<u, t>> \notin StrictSubsetOrdering(S)
  <2> HIDE DEF T
  <2> QED
    BY <1>1, FS_StrictSubsetOrderingWellFounded, WFMin
<1>3. PICK m \in S : t = U(m)
  OBVIOUS
<1>4. ASSUME NEW y \in S, m < y PROVE FALSE
  <2>1. y \in U(m) /\ y \notin U(y) /\ U(y) \in T
    <3>1. y \in Nat /\ ~(y < y)
      OBVIOUS
    <3> QED
      BY <1>4, <3>1
  <2>3. U(y) \subseteq U(m)
    <3>1. ASSUME NEW z \in S, y < z PROVE m < z
      <4>1. m \in Nat /\ y \in Nat /\ z \in Nat
        OBVIOUS
      <4> QED
        BY <1>4, <3>1, <4>1
    <3> QED
      BY <3>1
  <2>2. <<U(y), U(m)>> \in StrictSubsetOrdering(S)
    BY <2>1, <2>3 DEF StrictSubsetOrdering
  <2> QED
    BY <1>2, <1>3, <2>1, <2>2
<1>5. \A y \in S : y <= m
  BY <1>4
<1> QED
  BY <1>5 DEF Max


Phrase(p) == Len(p) \in Nat /\ (p # <<>> => Len(p) > 0)

LEMMA PhraseIs == ASSUME NEW D, NEW p \in Seq(D) PROVE Phrase(p)
BY EmptySeq DEF Phrase

LEMMA MentionIs ==
    ASSUME NEW p, Phrase(p), NEW t, Len(t) \in Nat, NEW i
    PROVE  i \in Mentions(p, t) <=>
              /\ i \in 1..Len(t) /\ p # <<>> /\ Len(p) > 0 /\ i + Len(p) - 1 <= Len(t)
              /\ \A x \in 1..Len(p) - 1 : t[i + x - 1] = p[x]
              /\ Text(t[i + Len(p) - 1]) = Text(p[Len(p)])
BY DEF Mentions, Begins, Phrase

LEMMA WithinItself ==
    ASSUME NEW p, Phrase(p), p # <<>>
    PROVE  1 \in Mentions(p, p)
<1>1. 1 \in 1..Len(p) /\ Len(p) \in Nat /\ Len(p) > 0 /\ 1 + Len(p) - 1 <= Len(p)
  BY DEF Phrase
<1>2. (\A x \in 1..Len(p) - 1 : p[1 + x - 1] = p[x]) /\ Text(p[1 + Len(p) - 1]) = Text(p[Len(p)])
  BY <1>1
<1> QED
  BY <1>1, <1>2, MentionIs

\* A mention in a mention.
LEMMA MentionInside ==
    ASSUME NEW p, Phrase(p), NEW q, Phrase(q), NEW t, Len(t) \in Nat,
           NEW i \in Mentions(p, t), NEW x \in Mentions(q, t),
           x <= i, i + Len(p) <= x + Len(q)
    PROVE  i - x + 1 \in Mentions(p, q)
<1>1. /\ i \in 1..Len(t) /\ p # <<>> /\ Len(p) > 0
      /\ \A k \in 1..Len(p) - 1 : t[i + k - 1] = p[k]
      /\ Text(t[i + Len(p) - 1]) = Text(p[Len(p)])
  BY MentionIs
<1>2. /\ x \in 1..Len(t)
      /\ \A k \in 1..Len(q) - 1 : t[x + k - 1] = q[k]
      /\ Text(t[x + Len(q) - 1]) = Text(q[Len(q)])
  BY MentionIs
<1> DEFINE j == i - x + 1
<1>3. Len(p) \in Nat /\ Len(q) \in Nat
  BY DEF Phrase
<1>4. j \in 1..Len(q) /\ j + Len(p) - 1 <= Len(q)
  BY <1>1, <1>2, <1>3
<1>5. ASSUME NEW k \in 1..Len(p) - 1 PROVE q[j + k - 1] = p[k]
  <2>1. j + k - 1 \in 1..Len(q) - 1 /\ x + (j + k - 1) - 1 = i + k - 1
    BY <1>1, <1>2, <1>3, <1>4
  <2>2. t[x + (j + k - 1) - 1] = q[j + k - 1]
    BY <1>2, <2>1
  <2> QED
    BY <1>1, <2>1, <2>2
<1>7. Text(q[j + Len(p) - 1]) = Text(p[Len(p)])
  <2> DEFINE l == j + Len(p) - 1
  <2>1. l \in 1..Len(q) /\ x + l - 1 = i + Len(p) - 1
    BY <1>1, <1>2, <1>3, <1>4
  <2>2. CASE l = Len(q)
    <3>1. Text(t[i + Len(p) - 1]) = Text(q[Len(q)])
      BY <1>2, <2>1, <2>2
    <3> QED
      BY <1>1, <2>2, <3>1
  <2>3. CASE l # Len(q)
    <3>1. l \in 1..Len(q) - 1
      BY <1>3, <2>1, <2>3
    <3>2. t[x + l - 1] = q[l]
      BY <1>2, <3>1
    <3> QED
      BY <1>1, <2>1, <3>2
  <2> QED
    BY <2>2, <2>3
<1> HIDE DEF j
<1>6. j \in Mentions(p, q)
  BY <1>1, <1>3, <1>4, <1>5, <1>7, MentionIs
<1> QED
  BY <1>6 DEF j

LEMMA WithinIsShorter ==
    ASSUME NEW p, Phrase(p), NEW q, Len(q) \in Nat, Within(p, q)
    PROVE  Len(p) <= Len(q)
<1>1. PICK i : i \in Mentions(p, q)
  BY DEF Within
<1>2. i \in 1..Len(q) /\ i + Len(p) - 1 <= Len(q)
  BY <1>1, MentionIs
<1> QED
  BY <1>2 DEF Phrase

Readable(t, options) ==
    /\ \E D : t \in Seq(D)
    /\ DOMAIN options = Letters /\ \A k \in Letters : Phrase(options[k])

\* Around a mention of an option there is one that is no part of a longer option's.
LEMMA OwnMentionIs ==
    ASSUME NEW t, NEW options, Readable(t, options),
           NEW k \in DOMAIN options, NEW i \in Mentions(options[k], t)
    PROVE  \E j \in OptionsNamed(t, options) : \E x \in OwnMentions(t, j, options) :
              x <= i /\ i + Len(options[k]) <= x + Len(options[j])
<1> DEFINE Around(j, x) == x <= i /\ i + Len(options[k]) <= x + Len(options[j])
           S == {n \in 0..Len(t) : \E j \in DOMAIN options : \E x \in Mentions(options[j], t) :
                                       Around(j, x) /\ n = Len(options[j])}
<1>1. Len(t) \in Nat /\ \A j \in DOMAIN options : Phrase(options[j]) /\ Len(options[j]) \in Nat
  BY DEF Readable, Phrase
<1>2. ASSUME NEW j \in DOMAIN options, NEW x \in Mentions(options[j], t)
      PROVE  Len(options[j]) \in 0..Len(t) /\ x \in Nat
  <2>1. x \in 1..Len(t) /\ x + Len(options[j]) - 1 <= Len(t)
    BY <1>1, MentionIs
  <2> QED
    BY <1>1, <2>1
<1>3. Around(k, i) /\ Len(options[k]) \in S
  <2>1. i \in Nat /\ Len(options[k]) \in 0..Len(t)
    BY <1>2
  <2>2. Around(k, i)
    BY <1>1, <2>1
  <2> QED
    BY <2>1, <2>2
<1>4. S \in SUBSET Nat /\ S # {} /\ IsFiniteSet(S)
  <2>1. IsFiniteSet(0..Len(t)) /\ S \in SUBSET (0..Len(t))
    BY <1>1, FS_Interval
  <2>2. S \in SUBSET Nat
    BY <1>1
  <2>3. S # {}
    BY <1>3
  <2> HIDE DEF S
  <2>4. IsFiniteSet(S)
    BY <2>1, FS_Subset
  <2> QED
    BY <2>2, <2>3, <2>4
<1>5. Max(S) \in S /\ \A n \in S : n <= Max(S)
  <2> HIDE DEF S
  <2> QED
    BY <1>4, MaxIs
<1>6. PICK j \in DOMAIN options : \E x \in Mentions(options[j], t) :
          Around(j, x) /\ Max(S) = Len(options[j])
  BY <1>5
<1>7. PICK x \in Mentions(options[j], t) : Around(j, x) /\ Max(S) = Len(options[j])
  BY <1>6
<1>8. x \in OwnMentions(t, j, options)
  <2> SUFFICES ASSUME NEW l \in DOMAIN options, NEW y \in Mentions(options[l], t),
                      Len(options[l]) > Len(options[j]),
                      y <= x, x + Len(options[j]) <= y + Len(options[l])
               PROVE  FALSE
    BY DEF OwnMentions
  <2>1. x \in Nat /\ y \in Nat /\ i \in Nat /\ Len(options[l]) \in 0..Len(t)
    BY <1>2
  <2>2. Around(l, y)
    BY <1>1, <1>7, <2>1
  <2>3. Len(options[l]) \in S
    BY <2>1, <2>2
  <2> HIDE DEF S
  <2>4. Len(options[l]) <= Len(options[j])
    BY <1>5, <1>7, <2>3
  <2> QED
    BY <1>1, <2>4
<1> QED
  BY <1>7, <1>8 DEF OptionsNamed

\* h says of each place of t where the last mention of p that str.replace takes
\* up to there ends.
Takes(t, p, n, h) ==
    h = [i \in 0..n |-> IF i = 0 THEN 0
                        ELSE IF h[i - 1] < i /\ Begins(p, t, i) THEN i + Len(p) - 1
                        ELSE h[i - 1]]

LEMMA TakesExist ==
    ASSUME NEW t, NEW p, NEW n \in Nat
    PROVE  \E h : Takes(t, p, n, h)
<1> DEFINE Bad == {k \in Nat : ~ \E h : Takes(t, p, k, h)}
<1> SUFFICES ASSUME Bad # {} PROVE FALSE
  OBVIOUS
<1> DEFINE m == Min(Bad)
<1>1. m \in Nat /\ ~(\E h : Takes(t, p, m, h)) /\ \A k \in Bad : m <= k
  <2>1. Bad \in SUBSET Nat
    OBVIOUS
  <2>2. m \in Bad /\ \A k \in Bad : m <= k
    <3> HIDE DEF Bad
    <3> QED
      BY <2>1, MinIs
  <2> QED
    BY <2>2
<1> HIDE DEF m
<1> DEFINE Place(f, i) == IF f[i - 1] < i /\ Begins(p, t, i) THEN i + Len(p) - 1 ELSE f[i - 1]
<1>2. m # 0
  <2> DEFINE g == [i \in 0..0 |-> 0]
             a(i) == IF i = 0 THEN 0 ELSE Place(g, i)
  <2>1. \A i \in 0..0 : a(i) = 0
    OBVIOUS
  <2>2. g = [i \in 0..0 |-> a(i)]
    <3> HIDE DEF a
    <3> QED
      BY <2>1
  <2> HIDE DEF g
  <2>3. Takes(t, p, 0, g)
    BY <2>2 DEF Takes
  <2> QED
    BY <1>1, <2>3
<1>3. m - 1 \in Nat /\ m - 1 \notin Bad
  <2>1. m - 1 \in Nat /\ ~(m <= m - 1)
    BY <1>1, <1>2
  <2> HIDE DEF Bad
  <2> QED
    BY <1>1, <2>1
<1>4. PICK f : Takes(t, p, m - 1, f)
  BY <1>3
<1> DEFINE a(i) == IF i = 0 THEN 0 ELSE Place(f, i)
           g == [i \in 0..m |-> a(i)]
           b(i) == IF i = 0 THEN 0 ELSE Place(g, i)
<1>5. f = [i \in 0..(m - 1) |-> a(i)]
  BY <1>4 DEF Takes
<1>6. \A i \in 0..m : i # 0 => g[i - 1] = f[i - 1]
  <2> SUFFICES ASSUME NEW i \in 0..m, i # 0 PROVE g[i - 1] = f[i - 1]
    OBVIOUS
  <2>1. i - 1 \in 0..(m - 1) /\ i - 1 \in 0..m
    BY <1>1
  <2> HIDE DEF a
  <2>2. g[i - 1] = a(i - 1)
    BY <2>1
  <2>3. f[i - 1] = a(i - 1)
    BY <1>5, <2>1
  <2> QED
    BY <2>2, <2>3
<1>7. \A i \in 0..m : a(i) = b(i)
  <2> HIDE DEF g
  <2> QED
    BY <1>6
<1>8. g = [i \in 0..m |-> b(i)]
  <2> HIDE DEF a, b
  <2> QED
    BY <1>7
<1> HIDE DEF g
<1>9. Takes(t, p, m, g)
  BY <1>8 DEF Takes
<1> QED
  BY <1>1, <1>9

\* What is taken is mentioned, and where mentions are apart all of them are taken.
LEMMA TakesIs ==
    ASSUME NEW t, Len(t) \in Nat, NEW p, Phrase(p), p # <<>>, NEW h, Takes(t, p, Len(t), h)
    PROVE  \A j \in 1..Len(t) :
              /\ h[j] \in Nat
              /\ h[j] >= j => \E x \in Mentions(p, t) : x <= j /\ j < x + Len(p)
              /\ Apart(t, p) =>
                    \A x \in Mentions(p, t) : x <= j /\ j < x + Len(p) => h[j] >= j
<1> DEFINE n == Len(t)
           From(e) == e = 0 \/ \E x \in Mentions(p, t) : x <= n /\ e = x + Len(p) - 1
<1>1. Len(p) \in Nat /\ Len(p) > 0
  BY DEF Phrase
<1>2. /\ h[0] = 0
      /\ \A i \in 1..n : h[i] = IF h[i - 1] < i /\ Begins(p, t, i) THEN i + Len(p) - 1
                                ELSE h[i - 1]
  <2>1. \A i \in 0..n : h[i] = IF i = 0 THEN 0
                               ELSE IF h[i - 1] < i /\ Begins(p, t, i) THEN i + Len(p) - 1
                               ELSE h[i - 1]
    BY Zenon DEF Takes
  <2>2. 0 \in 0..n /\ \A i \in 1..n : i \in 0..n /\ i # 0
    OBVIOUS
  <2> QED
    BY <2>1, <2>2
<1>3. \A i \in 1..n : i \in Mentions(p, t) <=> Begins(p, t, i)
  BY DEF Mentions
<1> DEFINE OK(j) == /\ h[j] \in Nat
                    /\ h[j] = 0 \/ \E x \in Mentions(p, t) : x <= j /\ h[j] = x + Len(p) - 1
                    /\ \A x \in Mentions(p, t) : x <= j => h[j] >= x
                    /\ Apart(t, p) =>
                          \A x \in Mentions(p, t) : x <= j => h[j] >= x + Len(p) - 1
           Bad == {j \in 0..n : ~OK(j)}
<1>4. Mentions(p, t) \subseteq 1..n
  BY DEF Mentions
<1>5. Bad = {}
  <2> SUFFICES ASSUME Bad # {} PROVE FALSE
    OBVIOUS
  <2> DEFINE j == Min(Bad)
  <2>1. j \in 0..n /\ ~OK(j) /\ \A k \in Bad : j <= k
    <3>1. Bad \in SUBSET Nat
      OBVIOUS
    <3>2. j \in Bad /\ \A k \in Bad : j <= k
      <4> HIDE DEF Bad
      <4> QED
        BY <3>1, MinIs
    <3> HIDE DEF OK
    <3> QED
      BY <3>2
  <2> HIDE DEF j
  <2>2. OK(0)
    BY <1>2, <1>4
  <2>3. j \in 1..n
    <3> HIDE DEF OK
    <3> QED
      BY <2>1, <2>2
  <2>4. OK(j - 1)
    <3>1. j - 1 \in 0..n /\ ~(j <= j - 1)
      BY <2>3
    <3> HIDE DEF OK
    <3> QED
      BY <2>1, <3>1
  <2>5. CASE h[j - 1] < j /\ Begins(p, t, j)
    <3>1. h[j] = j + Len(p) - 1 /\ j \in Mentions(p, t)
      BY <1>2, <1>3, <2>3, <2>5
    <3>2. h[j] \in Nat /\ h[j] >= j
      BY <1>1, <2>3, <3>1
    <3>3. \A x \in Mentions(p, t) : x <= j => x \in Nat /\ h[j] >= x + Len(p) - 1
      BY <1>1, <1>4, <2>3, <3>1
    <3>4. OK(j)
      BY <1>1, <2>3, <3>1, <3>2, <3>3
    <3> QED
      BY <2>1, <3>4
  <2>6. CASE ~(h[j - 1] < j /\ Begins(p, t, j))
    <3>1. h[j] = h[j - 1]
      BY <1>2, <2>3, <2>6
    <3>2. h[j] \in Nat
      BY <2>4, <3>1
    <3>3. h[j] = 0 \/ \E x \in Mentions(p, t) : x <= j /\ h[j] = x + Len(p) - 1
      BY <1>4, <2>3, <2>4, <3>1
    <3>4. ASSUME NEW x \in Mentions(p, t), x <= j PROVE h[j] >= x
      <4>1. x \in Nat
        BY <1>4
      <4>2. CASE x = j
        <5>1. ~ h[j - 1] < j
          BY <1>3, <2>3, <2>6, <4>2
        <5> QED
          BY <2>3, <3>1, <3>2, <4>2, <5>1
      <4>3. CASE x <= j - 1
        BY <2>4, <3>1, <4>3
      <4> QED
        BY <2>3, <3>4, <4>1, <4>2, <4>3
    <3>5. ASSUME Apart(t, p), NEW x \in Mentions(p, t), x <= j PROVE h[j] >= x + Len(p) - 1
      <4>1. x \in Nat
        BY <1>4
      <4>2. CASE x = j
        <5>1. ~ h[j - 1] < j
          BY <1>3, <2>3, <2>6, <4>2
        <5>2. PICK y \in Mentions(p, t) : y <= j - 1 /\ h[j - 1] = y + Len(p) - 1
          BY <2>3, <2>4, <3>1, <3>2, <5>1
        <5>3. y \in Nat /\ y < x
          BY <1>4, <2>3, <4>2, <5>2
        <5>4. y + Len(p) <= x
          BY <3>5, <5>3 DEF Apart
        <5> QED
          BY <1>1, <2>3, <4>2, <5>1, <5>2, <5>3, <5>4
      <4>3. CASE x <= j - 1
        BY <2>4, <3>1, <3>5, <4>3
      <4> QED
        BY <2>3, <3>5, <4>1, <4>2, <4>3
    <3>6. OK(j)
      BY <3>2, <3>3, <3>4, <3>5
    <3> QED
      BY <2>1, <3>6
  <2> QED
    BY <2>5, <2>6
<1>6. ASSUME NEW j \in 1..n PROVE OK(j)
  <2>1. j \in 0..n
    OBVIOUS
  <2> HIDE DEF OK
  <2> QED
    BY <1>5, <2>1
<1>7. ASSUME NEW j \in 1..n, h[j] >= j
      PROVE  \E x \in Mentions(p, t) : x <= j /\ j < x + Len(p)
  <2>1. PICK x \in Mentions(p, t) : x <= j /\ h[j] = x + Len(p) - 1
    BY <1>6, <1>7
  <2>2. j < x + Len(p)
    BY <1>1, <1>4, <1>7, <2>1
  <2> QED
    BY <2>1, <2>2
<1>8. ASSUME Apart(t, p), NEW j \in 1..n, NEW x \in Mentions(p, t), x <= j, j < x + Len(p)
      PROVE  h[j] >= j
  <2>1. h[j] >= x + Len(p) - 1 /\ h[j] \in Nat
    BY <1>6, <1>8
  <2> QED
    BY <1>1, <1>4, <1>8, <2>1
<1>9. \A j \in 1..n : h[j] \in Nat
  BY <1>6
<1> HIDE DEF OK
<1> QED
  BY <1>7, <1>8, <1>9

\* Where mentions are apart, what is left is what is beside them.
LEMMA DeniesIs ==
    ASSUME NEW t, Len(t) \in Nat, NEW p, Phrase(p), p # <<>>, Apart(t, p)
    PROVE  Denies(t, p) <=> DeniedBeside(t, p)
<1> DEFINE h == CHOOSE h : Takes(t, p, Len(t), h)
<1>1. Takes(t, p, Len(t), h)
  BY TakesExist
<1>2. Outside(t, p) = {j \in 1..Len(t) : h[j] < j}
  BY Zenon DEF Outside, Takes
<1> HIDE DEF h
<1>3. \A j \in 1..Len(t) :
         /\ h[j] \in Nat
         /\ h[j] >= j <=> \E x \in Mentions(p, t) : x <= j /\ j < x + Len(p)
  BY <1>1, TakesIs
<1>4. Outside(t, p) = Beside(t, p)
  BY <1>2, <1>3 DEF Beside
<1> QED
  BY <1>4 DEF Denies, DeniedBeside

\* Without a letter in the reply the rules for letters find none.
LEMMA NoLetter ==
    ASSUME NEW t, NEW options, Readable(t, options), t # <<>>,
           \A w \in ToSet(t) : ~IsLetter(w)
    PROVE  ByLetter(t, options) = None
<1>1. Len(t) \in Nat /\ DOMAIN t = 1..Len(t) /\ 1 \in 1..Len(t) /\ DOMAIN options = Letters
  BY EmptySeq DEF Readable
<1>2. \A i \in 1..Len(t) : ~IsLetter(t[i])
  BY <1>1 DEF ToSet
<1>3. t[1] \notin Letters
  BY <1>1, <1>2, ExtractionAssumption DEF IsLetter, LetterOf
<1>4. LetterOf(t[1]) \notin DOMAIN options
  BY <1>1, <1>2 DEF IsLetter
<1>5. Named(t) = {}
  <2> SUFFICES ASSUME NEW i \in Named(t) PROVE FALSE
    OBVIOUS
  <2>1. i \in 1..(Len(t) - 1) /\ (IsLetter(t[i + 1]) \/ (i + 2 <= Len(t) /\ IsLetter(t[i + 2])))
    BY DEF Named
  <2>2. i + 1 \in 1..Len(t) /\ (i + 2 <= Len(t) => i + 2 \in 1..Len(t))
    BY <1>1, <2>1
  <2> QED
    BY <1>2, <2>1, <2>2
<1>6. t[1] \notin DOMAIN LabelOf
  BY <1>1, <1>2, ExtractionAssumption DEF IsLetter, LetterOf
<1> QED
  BY <1>3, <1>4, <1>5, <1>6 DEF ByLetter

\* What is contained is a part of an option that is named.
LEMMA NamedIs ==
    ASSUME NEW t, NEW options, Readable(t, options)
    PROVE  LET named == OptionsNamed(t, options)
           IN  /\ \A k \in named : k \in DOMAIN options /\ Within(options[k], t)
               /\ \A k \in DOMAIN options : Within(options[k], t) =>
                     \E j \in named : Within(options[k], options[j])
               /\ \A k \in Covering(t, options) :
                     k \in named /\ \A j \in named : Within(options[j], options[k])
               /\ \A k \in named : named = {k} => k \in Covering(t, options)
               /\ \A k \in DOMAIN options : Same(options[k], t) =>
                     /\ k \in named /\ ~DeniedBeside(t, options[k])
                     /\ \A j \in named : Within(options[j], options[k])
<1> DEFINE named == OptionsNamed(t, options)
<1>1. /\ Len(t) \in Nat /\ DOMAIN options = Letters
      /\ \A k \in DOMAIN options : Phrase(options[k]) /\ Len(options[k]) \in Nat
  BY DEF Readable, Phrase
<1>2. ASSUME NEW k \in named PROVE k \in DOMAIN options /\ Within(options[k], t)
  BY DEF OptionsNamed, OwnMentions, Within
<1>3. ASSUME NEW k \in DOMAIN options, Within(options[k], t)
      PROVE  \E j \in named : Within(options[k], options[j])
  <2>1. PICK i : i \in Mentions(options[k], t)
    BY <1>3 DEF Within
  <2>2. PICK j \in named : \E x \in OwnMentions(t, j, options) :
           x <= i /\ i + Len(options[k]) <= x + Len(options[j])
    BY <2>1, OwnMentionIs
  <2>3. PICK x \in Mentions(options[j], t) :
           x <= i /\ i + Len(options[k]) <= x + Len(options[j])
    BY <2>2 DEF OwnMentions
  <2>4. j \in DOMAIN options
    BY <1>2
  <2>5. i - x + 1 \in Mentions(options[k], options[j])
    BY <1>1, <2>1, <2>3, <2>4, MentionInside
  <2> QED
    BY <2>5 DEF Within
<1>4. ASSUME NEW k \in Covering(t, options)
      PROVE  k \in named /\ \A j \in named : Within(options[j], options[k])
  <2>1. /\ k \in DOMAIN options /\ Within(options[k], t)
        /\ \A j \in DOMAIN options : Within(options[j], t) => Within(options[j], options[k])
    BY DEF Covering
  <2>2. PICK i : i \in Mentions(options[k], t)
    BY <2>1 DEF Within
  <2>3. i \in OwnMentions(t, k, options)
    <3> SUFFICES ASSUME NEW j \in DOMAIN options, NEW x \in Mentions(options[j], t),
                        Len(options[j]) > Len(options[k])
                 PROVE  FALSE
      BY <2>2 DEF OwnMentions
    <3>1. Within(options[j], options[k])
      BY <2>1 DEF Within
    <3>2. Len(options[j]) <= Len(options[k])
      BY <1>1, <2>1, <3>1, WithinIsShorter
    <3> QED
      BY <1>1, <2>1, <3>2
  <2> QED
    BY <1>2, <2>1, <2>3 DEF OptionsNamed
<1>5. ASSUME NEW k \in named, named = {k} PROVE k \in Covering(t, options)
  <2>1. \A j \in DOMAIN options : Within(options[j], t) => Within(options[j], options[k])
    BY <1>3, <1>5
  <2> QED
    BY <1>2, <2>1 DEF Covering
<1>6. ASSUME NEW k \in DOMAIN options, Same(options[k], t)
      PROVE  /\ k \in named /\ ~DeniedBeside(t, options[k])
             /\ \A j \in named : Within(options[j], options[k])
  <2>1. 1 \in Mentions(options[k], t) /\ Len(options[k]) = Len(t)
    BY <1>6 DEF Same
  <2>2. 1 \in OwnMentions(t, k, options)
    <3> SUFFICES ASSUME NEW j \in DOMAIN options, NEW x \in Mentions(options[j], t),
                        Len(options[j]) > Len(options[k])
                 PROVE  FALSE
      BY <2>1 DEF OwnMentions
    <3>1. Within(options[j], t)
      BY DEF Within
    <3>2. Len(options[j]) <= Len(t)
      BY <1>1, <3>1, WithinIsShorter
    <3> QED
      BY <1>1, <2>1, <3>2
  <2>3. ~DeniedBeside(t, options[k])
    <3>1. \A i \in 1..Len(t) : 1 <= i /\ i < 1 + Len(t)
      BY <1>1
    <3>2. Beside(t, options[k]) = {}
      BY <2>1, <3>1 DEF Beside
    <3> QED
      BY <3>2 DEF DeniedBeside, NegatedIn
  <2>4. k \in named
    BY <1>6, <2>2 DEF OptionsNamed
  <2>5. ASSUME NEW j \in named PROVE Within(options[j], options[k])
    <3>1. j \in DOMAIN options
      BY <1>2
    <3>2. PICK x : x \in Mentions(options[j], t)
      BY <1>2 DEF Within
    <3>3. x \in 1..Len(t) /\ x + Len(options[j]) - 1 <= Len(t)
      BY <1>1, <3>1, <3>2, MentionIs
    <3>4. 1 <= x /\ x + Len(options[j]) <= 1 + Len(options[k])
      BY <1>1, <1>6, <2>1, <3>1, <3>3
    <3>5. x - 1 + 1 \in Mentions(options[j], options[k])
      BY <1>1, <1>6, <2>1, <3>1, <3>2, <3>4, MentionInside
    <3> QED
      BY <3>5 DEF Within
  <2> QED
    BY <2>3, <2>4, <2>5
<1> QED
  BY <1>2, <1>3, <1>4, <1>5, <1>6

LEMMA ReadIs ==
    ASSUME NEW options, Readable(Stripped(reply), options),
           "E" \in DOMAIN options, options["E"] = Unanswerable
    PROVE  ReplyReadBy(options)
<1> DEFINE t == Stripped(reply)
           x == Extract(reply, options)
           named == OptionsNamed(t, options)
           exact == {k \in DOMAIN options : Same(options[k], t)}
           best == CHOOSE k \in Covering(t, options) : TRUE
           Committed == x # None => \/ /\ x \in named /\ \A k \in named : Within(options[k], options[x])
                                       /\ Apart(t, options[x]) => ~DeniedBeside(t, options[x])
                                    \/ x = "E" /\ Refuses(t)
           Heard == \A k \in named :
                       named = {k} /\ Apart(t, options[k]) /\ ~DeniedBeside(t, options[k])
                          => x = k
           Refused == named = {} => x = IF Refuses(t) THEN "E" ELSE None
<1> HIDE DEF t
<1>0. Readable(t, options) /\ Len(t) \in Nat
  BY DEF t, Readable
<1> SUFFICES ASSUME \A w \in ToSet(t) : ~IsLetter(w)
             PROVE  Committed /\ Heard /\ Refused
  BY DEF ReplyReadBy, t
<1>1. /\ \A k \in named : k \in DOMAIN options /\ Within(options[k], t)
      /\ \A k \in DOMAIN options : Within(options[k], t) =>
            \E j \in named : Within(options[k], options[j])
      /\ \A k \in Covering(t, options) :
            k \in named /\ \A j \in named : Within(options[j], options[k])
      /\ \A k \in named : named = {k} => k \in Covering(t, options)
      /\ \A k \in DOMAIN options : Same(options[k], t) =>
            /\ k \in named /\ ~DeniedBeside(t, options[k])
            /\ \A j \in named : Within(options[j], options[k])
  BY <1>0, NamedIs
<1>2. /\ DOMAIN options = Letters /\ None \notin Letters
      /\ \A k \in DOMAIN options : Phrase(options[k])
  BY <1>0, ExtractionAssumption DEF Readable
<1>3. x = IF t = <<>> THEN None ELSE IF ByLetter(t, options) # None THEN ByLetter(t, options)
          ELSE ByText(t, options)
  BY DEF Extract, t
<1> HIDE DEF x, named
<1>4. CASE t = <<>>
  <2>1. 1..Len(t) = {}
    BY <1>4, EmptySeq
  <2>2. \A p : ~Within(p, t)
    BY <2>1 DEF Within, Mentions
  <2>4. \A p : ~Stands(p, t)
    BY <2>1 DEF Stands, Mentions
  <2>3. named = {} /\ ~Refuses(t) /\ x = None
    BY <1>1, <1>3, <1>4, <2>2, <2>4 DEF Refuses
  <2> QED
    BY <2>3
<1>5. CASE t # <<>>
  <2>1. x = ByText(t, options)
    BY <1>0, <1>3, <1>5, NoLetter
  <2>2. x = IF Cardinality(exact) = 1 THEN CHOOSE k \in exact : TRUE
            ELSE IF Covering(t, options) # {}
                 THEN IF Denies(t, options[best]) THEN None ELSE best
            ELSE IF Refuses(t) THEN "E" ELSE None
    BY <2>1 DEF ByText, Refuses
  <2>3. CASE Cardinality(exact) = 1
    <3>1. exact # {}
      BY <2>3, FS_EmptySet
    <3>2. x \in exact
      BY <2>2, <2>3, <3>1
    <3>3. /\ x \in named /\ ~DeniedBeside(t, options[x])
          /\ \A j \in named : Within(options[j], options[x])
      BY <1>1, <3>2
    <3> QED
      BY <3>3
  <2>4. CASE Cardinality(exact) # 1 /\ Covering(t, options) # {}
    <3>1. best \in Covering(t, options)
      BY <2>4
    <3>2. x = IF Denies(t, options[best]) THEN None ELSE best
      BY <2>2, <2>4
    <3> HIDE DEF best
    <3>3. best \in named /\ \A j \in named : Within(options[j], options[best])
      BY <1>1, <3>1
    <3>4. Phrase(options[best]) /\ options[best] # <<>> /\ best # None
      <4>1. best \in DOMAIN options /\ Within(options[best], t)
        BY <1>1, <3>3
      <4> QED
        BY <1>2, <4>1 DEF Within, Mentions
    <3>5. Apart(t, options[best]) => (Denies(t, options[best]) <=> DeniedBeside(t, options[best]))
      BY <1>0, <3>4, DeniesIs
    <3>6. Committed
      BY <3>2, <3>3, <3>5
    <3>7. Heard
      BY <3>2, <3>3, <3>5
    <3> QED
      BY <3>3, <3>6, <3>7
  <2>5. CASE Cardinality(exact) # 1 /\ Covering(t, options) = {}
    <3>1. x = IF Refuses(t) THEN "E" ELSE None
      BY <2>2, <2>5
    <3>2. \A k \in named : named # {k}
      BY <1>1, <2>5
    <3> QED
      BY <3>1, <3>2
  <2> QED
    BY <2>3, <2>4, <2>5
<1> QED
  BY <1>4, <1>5

-----------------------------------------------------------------------------
(* The rows of the arm that runs. *)

\* A sequence, of whatever.
IsSeq(s) == Len(s) \in Nat /\ s = [x \in 1..Len(s) |-> s[x]]

LEMMA SeqIs ==
    ASSUME NEW s, IsSeq(s)
    PROVE  s \in Seq(Range(s)) /\ DOMAIN s = 1..Len(s)
<1>1. DOMAIN s = 1..Len(s)
  BY DEF IsSeq
<1>2. s \in [1..Len(s) -> Range(s)]
  BY <1>1 DEF IsSeq, Range
<1> QED
  BY <1>1, <1>2 DEF IsSeq

LEMMA Joined ==
    ASSUME NEW s, NEW u, IsSeq(s), IsSeq(u)
    PROVE  LET all == s \o u
           IN  /\ IsSeq(all) /\ Len(all) = Len(s) + Len(u) /\ DOMAIN all = 1..Len(all)
               /\ \A x \in DOMAIN s : x \in DOMAIN all /\ all[x] = s[x]
               /\ \A x \in DOMAIN u : Len(s) + x \in DOMAIN all /\ all[Len(s) + x] = u[x]
               /\ \A x \in DOMAIN all : \/ x \in DOMAIN s
                                        \/ x - Len(s) \in DOMAIN u /\ x = Len(s) + (x - Len(s))
<1> DEFINE D == Range(s) \cup Range(u)
           all == s \o u
<1>1. s \in Seq(Range(s)) /\ u \in Seq(Range(u))
  BY SeqIs
<1>2. s \in Seq(D) /\ u \in Seq(D)
  BY <1>1
<1> HIDE DEF D
<1>3. /\ all \in Seq(D) /\ Len(all) = Len(s) + Len(u)
      /\ Len(s) \in Nat /\ Len(u) \in Nat
      /\ DOMAIN s = 1..Len(s) /\ DOMAIN u = 1..Len(u)
      /\ \A x \in 1..(Len(s) + Len(u)) :
            all[x] = IF x <= Len(s) THEN s[x] ELSE u[x - Len(s)]
  BY <1>2
<1> HIDE DEF all
<1>4. IsSeq(all) /\ DOMAIN all = 1..Len(all)
  BY <1>3 DEF IsSeq
<1>5. \A x \in DOMAIN s : x \in DOMAIN all /\ all[x] = s[x]
  BY <1>3, <1>4
<1>6. \A x \in DOMAIN u : Len(s) + x \in DOMAIN all /\ all[Len(s) + x] = u[x]
  BY <1>3, <1>4
<1>7. \A x \in DOMAIN all : \/ x \in DOMAIN s
                            \/ x - Len(s) \in DOMAIN u /\ x = Len(s) + (x - Len(s))
  BY <1>3, <1>4
<1> QED
  BY <1>3, <1>4, <1>5, <1>6, <1>7 DEF all

LEMMA ArmIs ==
    ASSUME TypeOK, pc # "start"
    PROVE  /\ Arm \in Tracks /\ plan \in Seq(Tracks) /\ Len(plan) \in Nat
           /\ DOMAIN plan = 1..Len(plan) /\ at \in 1..Len(plan)
           /\ \A x, y \in DOMAIN plan : plan[x] = plan[y] => x = y
<1>1. plan \in Seq(Tracks) /\ IsInjective(plan) /\ at \in DOMAIN plan
  BY PilotAssumption DEF TypeOK
<1> QED
  BY <1>1 DEF Arm, IsInjective

\* The items that have no row, in the order of the suite.
LEMMA LeftIs ==
    /\ Left \in Seq(Items) /\ Len(Left) \in Nat /\ DOMAIN Left = 1..Len(Left)
    /\ {Left[x] : x \in DOMAIN Left} = Items \ Recorded
    /\ \A x, y \in DOMAIN Left : Left[x] = Left[y] => x = y
<1> DEFINE places == {x \in DOMAIN Order : Order[x] \notin Recorded}
<1>1. /\ Order \in Seq(Items) /\ {Order[x] : x \in DOMAIN Order} = Items
      /\ \A x, y \in DOMAIN Order : Order[x] = Order[y] => x = y
  BY ScoringAssumption DEF ToSet, IsInjective
<1>2. places \in SUBSET DOMAIN Order
  OBVIOUS
<1>3. {Order[x] : x \in places} = Items \ Recorded
  BY <1>1
<1>4. \A x, y \in places : Order[x] = Order[y] => x = y
  BY <1>1
<1>5. Left = Kept(Order, places)
  BY DEF Left
<1> HIDE DEF places
<1>6. /\ Left \in Seq(Items)
      /\ {Left[x] : x \in DOMAIN Left} = {Order[x] : x \in places}
      /\ \A x, y \in DOMAIN Left : Left[x] = Left[y] => x = y
  <2>1. Order \in Seq(Items)
    BY <1>1
  <2>2. LET k == Kept(Order, places)
        IN  /\ k \in Seq(Items)
            /\ {k[j] : j \in DOMAIN k} = {Order[x] : x \in places}
            /\ (\A x, y \in places : Order[x] = Order[y] => x = y) =>
                  \A i, j \in DOMAIN k : k[i] = k[j] => i = j
    BY <1>2, <2>1, KeptIs, Zenon
  <2> QED
    BY <1>4, <1>5, <2>2, Zenon
<1> QED
  BY <1>3, <1>6

LEMMA LeftOfIs ==
    ASSUME NEW e
    PROVE  /\ LeftOf(e) \in Seq(Items) /\ Len(LeftOf(e)) \in Nat
           /\ DOMAIN LeftOf(e) = 1..Len(LeftOf(e))
           /\ {LeftOf(e)[x] : x \in DOMAIN LeftOf(e)} = {i \in Items \ Recorded : Env[i] = e}
           /\ \A x, y \in DOMAIN LeftOf(e) : LeftOf(e)[x] = LeftOf(e)[y] => x = y
<1> DEFINE places == {x \in DOMAIN Left : Env[Left[x]] = e}
           l == LeftOf(e)
<1>1. /\ Left \in Seq(Items) /\ {Left[x] : x \in DOMAIN Left} = Items \ Recorded
      /\ \A x, y \in DOMAIN Left : Left[x] = Left[y] => x = y
  BY LeftIs
<1>2. places \in SUBSET DOMAIN Left
  OBVIOUS
<1>3. {Left[x] : x \in places} = {i \in Items \ Recorded : Env[i] = e}
  BY <1>1
<1>4. \A x, y \in places : Left[x] = Left[y] => x = y
  BY <1>1
<1>5. l = Kept(Left, places)
  BY DEF LeftOf
<1> HIDE DEF places, l
<1>6. /\ l \in Seq(Items)
      /\ {l[x] : x \in DOMAIN l} = {Left[x] : x \in places}
      /\ \A x, y \in DOMAIN l : l[x] = l[y] => x = y
  <2>1. Left \in Seq(Items)
    BY <1>1
  <2>2. LET k == Kept(Left, places)
        IN  /\ k \in Seq(Items)
            /\ {k[j] : j \in DOMAIN k} = {Left[x] : x \in places}
            /\ (\A x, y \in places : Left[x] = Left[y] => x = y) =>
                  \A i, j \in DOMAIN k : k[i] = k[j] => i = j
    BY <1>2, <2>1, KeptIs, Zenon
  <2> QED
    BY <1>4, <1>5, <2>2, Zenon
<1>7. Len(l) \in Nat /\ DOMAIN l = 1..Len(l)
  BY <1>6
<1> QED
  BY <1>3, <1>6, <1>7, Zenon DEF l

LEMMA RecordedIs ==
    ASSUME RowsAll, Arm \in Tracks
    PROVE  Recorded \subseteq Items
<1>1. \A x \in DOMAIN rows[Arm] : RowOK(Arm, rows[Arm][x])
  BY DEF RowsAll, RowsOK
<1>2. \A x \in DOMAIN rows[Arm] : rows[Arm][x].item \in Items
  BY <1>1 DEF RowOK
<1> QED
  BY <1>2 DEF Recorded

\* What a write leaves, when it adds rows of items that had none.
LEMMA WriteKeeps ==
    ASSUME TypeOK, RowsAll, pc = "run",
           NEW new, IsSeq(new), Write(new), UNCHANGED ingested,
           \A x \in DOMAIN new : RowOK(Arm, new[x]) /\ new[x].item \notin Recorded,
           \A x, y \in DOMAIN new : new[x].item = new[y].item => x = y
    PROVE  /\ RowsAll' /\ DOMAIN rows' = Tracks
           /\ \A t \in Tracks : t # Arm => rows'[t] = rows[t]
           /\ {rows'[Arm][x].item : x \in DOMAIN rows'[Arm]}
                = Recorded \cup {new[x].item : x \in DOMAIN new}
           /\ \A x \in DOMAIN rows'[Arm] : \/ \E y \in DOMAIN rows[Arm] : rows'[Arm][x] = rows[Arm][y]
                                           \/ \E y \in DOMAIN new : rows'[Arm][x] = new[y]
<1> DEFINE rs == rows[Arm]
           all == rs \o new
<1>1. Arm \in Tracks /\ DOMAIN rows = Tracks
  BY ArmIs DEF TypeOK
<1>2. /\ rows'[Arm] = all /\ DOMAIN rows' = Tracks
      /\ \A t \in Tracks : t # Arm => rows'[t] = rows[t]
  BY <1>1 DEF Write
<1>3. /\ IsSeq(rs)
      /\ \A x \in DOMAIN rs : RowOK(Arm, rs[x]) /\ rs[x].item \in Recorded
      /\ \A x, y \in DOMAIN rs : rs[x].item = rs[y].item => x = y
      /\ Recorded = {rs[x].item : x \in DOMAIN rs}
  BY <1>1 DEF RowsAll, RowsOK, IsSeq, Recorded
<1> HIDE DEF rs
<1>4. /\ IsSeq(all) /\ DOMAIN all = 1..Len(all)
      /\ \A x \in DOMAIN rs : x \in DOMAIN all /\ all[x] = rs[x]
      /\ \A x \in DOMAIN new : Len(rs) + x \in DOMAIN all /\ all[Len(rs) + x] = new[x]
      /\ \A x \in DOMAIN all : \/ x \in DOMAIN rs
                               \/ x - Len(rs) \in DOMAIN new /\ x = Len(rs) + (x - Len(rs))
  BY <1>3, Joined
<1> HIDE DEF all
<1>5. \A x \in DOMAIN all : \/ x \in DOMAIN rs /\ all[x] = rs[x]
                            \/ \E y \in DOMAIN new : x = Len(rs) + y /\ all[x] = new[y]
  BY <1>4
<1>6. \A x \in DOMAIN all : RowOK(Arm, all[x])
  BY <1>3, <1>5
<1>7. \A x, y \in DOMAIN all : all[x].item = all[y].item => x = y
  BY <1>3, <1>5
<1>8. {all[x].item : x \in DOMAIN all} = Recorded \cup {new[x].item : x \in DOMAIN new}
  BY <1>3, <1>4, <1>5
<1>9. \A t, row : RowOK(t, row)' <=> RowOK(t, row)
  BY DEF RowOK, Had
<1>10. ASSUME NEW t \in Tracks PROVE RowsOK(t)'
  <2>1. CASE t = Arm
    <3>1. IsSeq(rows'[t]) /\ \A x \in DOMAIN rows'[t] : RowOK(t, rows'[t][x])
      BY <1>2, <1>4, <1>6, <2>1
    <3>2. \A x, y \in DOMAIN rows'[t] : rows'[t][x].item = rows'[t][y].item => x = y
      BY <1>2, <1>7, <2>1
    <3>3. \A x \in DOMAIN rows'[t] : RowOK(t, rows[t][x])'
      BY <3>1 DEF RowOK, Had
    <3> QED
      BY <3>1, <3>2, <3>3 DEF RowsOK, IsSeq
  <2>2. CASE t # Arm
    <3>1. rows'[t] = rows[t] /\ RowsOK(t)
      BY <1>2, <2>2 DEF RowsAll
    <3> QED
      BY <3>1 DEF RowsOK, RowOK, Had
  <2> QED
    BY <2>1, <2>2
<1> QED
  BY <1>2, <1>5, <1>8, <1>10 DEF RowsAll, rs

-----------------------------------------------------------------------------
(* Inv is an invariant. *)

LEMMA InvInit == PilotInit => Inv
<1> SUFFICES ASSUME PilotInit PROVE Inv
  OBVIOUS
<1> USE DEF PilotInit, Init, NewRun
<1>1. \A t \in Tracks : Untouched(t)
  BY DEF Untouched
<1>2. TypeOK
  <2>1. reply \in Seq(Vocabulary) /\ judged \in [Items -> {None} \cup Verdicts]
    OBVIOUS
  <2>2. ingested \in [Tracks -> [Range(Env) -> {None} \cup Evidence]]
    OBVIOUS
  <2>3. run \in [env : {None} \cup Range(Env), info : {None} \cup Evidence,
                crashed : BOOLEAN, contested : BOOLEAN]
    OBVIOUS
  <2> QED
    BY <2>1, <2>2, <2>3 DEF TypeOK
<1>3. RowsAll
  <2>1. \A t \in Tracks : rows[t] = <<>> /\ Len(rows[t]) = 0 /\ 1..0 = {}
    OBVIOUS
  <2>2. DOMAIN <<>> = {} /\ <<>> = [x \in {} |-> <<>>[x]]
    OBVIOUS
  <2> QED
    BY <2>1, <2>2 DEF RowsAll, RowsOK
<1> QED
  BY <1>1, <1>2, <1>3 DEF Inv, Ahead, ArmOK, OverOK, ReportsOK, ComparedOK

\* What an arm that runs does is to its own rows and to what it took in.
LEMMA OthersKeep ==
    ASSUME Inv, pc = "run", pc' \in {"run", "report"},
           \A t \in Tracks : t # Arm => rows'[t] = rows[t] /\ ingested'[t] = ingested[t],
           UNCHANGED <<plan, at, reports, had_errors, comparison>>
    PROVE  Ahead' /\ OverOK' /\ ReportsOK' /\ ComparedOK'
<1> USE DEF Inv
<1>1. /\ Arm \in Tracks /\ DOMAIN plan = 1..Len(plan) /\ at \in 1..Len(plan) /\ Len(plan) \in Nat
      /\ \A x \in DOMAIN plan : plan[x] \in Tracks
      /\ \A x, y \in DOMAIN plan : plan[x] = plan[y] => x = y
  <2>1. plan \in Seq(Tracks)
    BY ArmIs
  <2>2. \A x \in DOMAIN plan : plan[x] \in Tracks
    BY <2>1
  <2> QED
    BY <2>2, ArmIs
<1>2. ASSUME NEW x \in DOMAIN plan, x # at
      PROVE  /\ plan[x] \in Tracks /\ plan[x] # Arm
             /\ rows'[plan[x]] = rows[plan[x]] /\ ingested'[plan[x]] = ingested[plan[x]]
  BY <1>1, <1>2 DEF Arm
<1>3. Ahead'
  <2>1. \A x \in DOMAIN plan : x > at => Untouched(plan[x])
    BY DEF Ahead
  <2>2. ASSUME NEW x \in DOMAIN plan, x > at
        PROVE  /\ rows'[plan[x]] = <<>> /\ reports'[plan[x]] = None
               /\ \A e \in Range(Env) : ingested'[plan[x]][e] = None
    <3>1. x # at
      BY <1>1, <2>2
    <3> QED
      BY <1>2, <2>1, <2>2, <3>1 DEF Untouched
  <2> QED
    BY <2>2 DEF Ahead, Untouched
<1>4. OverOK'
  <2>1. Over = {plan[x] : x \in {y \in DOMAIN plan : y < at}}
    BY DEF Over
  <2>2. Over' = Over
    BY <2>1 DEF Over
  <2>3. ASSUME NEW t \in Over
        PROVE  rows'[t] = rows[t] /\ ingested'[t] = ingested[t]
    <3>1. PICK x \in DOMAIN plan : t = plan[x] /\ x < at
      BY <2>1
    <3>2. x # at
      BY <1>1, <3>1
    <3> QED
      BY <1>2, <3>1, <3>2
  <2>4. /\ \A t \in Over :
              /\ reports[t] = BuildReport(rows[t], Mode(t))
              /\ Asked(t) = Items
              /\ \A e \in Range(Env) : ingested[t][e] # None => ~ingested[t][e].contested
        /\ had_errors <=> \E t \in Over : \E x \in DOMAIN rows[t] : rows[t][x].status # "ok"
    BY DEF OverOK
  <2>5. \A t \in Over :
           /\ reports'[t] = BuildReport(rows'[t], Mode(t))
           /\ Asked(t)' = Items
           /\ \A e \in Range(Env) : ingested'[t][e] # None => ~ingested'[t][e].contested
    BY <2>3, <2>4 DEF Asked
  <2>6. had_errors' <=> \E t \in Over : \E x \in DOMAIN rows'[t] : rows'[t][x].status # "ok"
    BY <2>3, <2>4
  <2> QED
    BY <2>2, <2>5, <2>6 DEF OverOK
<1>5. ReportsOK'
  <2>1. reports[Arm] = None
    BY DEF ArmOK
  <2> QED
    BY <2>1 DEF ReportsOK
<1> QED
  BY <1>3, <1>4, <1>5 DEF ComparedOK

LEMMA StartKeeps ==
    ASSUME Inv, NEW p \in Plans, Start(p)
    PROVE  Inv'
<1> USE DEF Inv, Start
<1>1. /\ \A t \in Tracks : Untouched(t)
      /\ run = NewRun /\ at = 1 /\ ~had_errors
  BY DEF Ahead
<1>2. plan' \in Seq(Tracks) /\ plan' # <<>> /\ plan' \in Plans
  BY PilotAssumption
<1>3. at' = 1 /\ 1 \in DOMAIN plan' /\ plan'[1] \in Tracks
  BY <1>1, <1>2
<1>4. TypeOK'
  BY <1>2, <1>3 DEF TypeOK, vars
<1>5. RowsAll'
  BY DEF RowsAll, RowsOK, RowOK, Had, vars
<1>6. \A t \in Tracks : Untouched(t)'
  BY <1>1 DEF Untouched, vars
<1>7. Ahead'
  <2>1. \A x \in DOMAIN plan' : plan'[x] \in Tracks
    BY <1>2
  <2> QED
    BY <1>6, <2>1 DEF Ahead, Untouched
<1>8. ArmOK'
  <2>1. Arm' \in Tracks /\ run' = NewRun
    BY <1>1, <1>3 DEF Arm
  <2>2. Untouched(Arm)'
    BY <1>6, <2>1 DEF Untouched
  <2>3. \A i \in Items : Env[i] \in Range(Env)
    BY PilotAssumption DEF Range
  <2>4. DOMAIN <<>> = {}
    OBVIOUS
  <2> QED
    BY <2>1, <2>2, <2>3, <2>4 DEF ArmOK, Untouched, NewRun
<1>9. OverOK'
  <2>1. \A y \in DOMAIN plan' : ~(y < at')
    BY <1>2, <1>3
  <2>2. Over' = {}
    BY <2>1 DEF Over
  <2> QED
    BY <1>1, <2>2 DEF OverOK
<1> QED
  BY <1>4, <1>5, <1>7, <1>8, <1>9 DEF ReportsOK, ComparedOK, vars

\* The environment that is to come has nothing yet.
LEMMA ComingIs ==
    ASSUME Inv, NEW e, Coming(e)
    PROVE  /\ pc = "run" /\ run.env = None /\ Arm \in Tracks /\ e \in Range(Env)
           /\ ingested[Arm][e] = None
           /\ \A x \in DOMAIN rows[Arm] : EnvOf(rows[Arm][x]) # e
           /\ \A i \in Items \ Recorded :
                 /\ Env[i] \in Range(Env) /\ ingested[Arm][Env[i]] = None
                 /\ \A x \in DOMAIN rows[Arm] : EnvOf(rows[Arm][x]) # Env[i]
<1> USE DEF Inv
<1>1. pc = "run" /\ run.env = None /\ Left # <<>> /\ e = Env[Head(Left)]
  BY DEF Coming
<1>2. Arm \in Tracks
  BY <1>1, ArmIs
<1>3. Head(Left) \in Items \ Recorded
  <2>1. Left \in Seq(Items) /\ {Left[x] : x \in DOMAIN Left} = Items \ Recorded
    BY LeftIs
  <2>2. 1 \in DOMAIN Left /\ Head(Left) = Left[1]
    BY <1>1, <2>1
  <2> QED
    BY <2>1, <2>2
<1>4. \A i \in Items : Env[i] \in Range(Env) /\ Env[i] # None
  BY PilotAssumption DEF Range
<1>5. \A i \in Items \ Recorded :
         /\ ingested[Arm][Env[i]] = None
         /\ \A x \in DOMAIN rows[Arm] : EnvOf(rows[Arm][x]) # Env[i]
  BY <1>1, <1>4 DEF ArmOK
<1> QED
  BY <1>1, <1>2, <1>3, <1>4, <1>5

LEMMA IngestKeeps ==
    ASSUME Inv, NEW e \in Range(Env), Ingest(e)
    PROVE  Inv'
<1> USE DEF Inv
<1>1. PICK x \in Evidence :
         /\ run' = [run EXCEPT !.env = e, !.info = x, !.contested = @ \/ x.contested]
         /\ ingested' = [ingested EXCEPT ![Arm][e] = x]
  BY DEF Ingest, EvidenceIn
<1>2. UNCHANGED <<vars, plan, at, pc, reports, had_errors, comparison>> /\ Coming(e)
  BY DEF Ingest
<1>3. UNCHANGED <<reply, rows, judged>>
  BY <1>2 DEF vars
<1>4. /\ pc = "run" /\ run.env = None /\ Arm \in Tracks
      /\ ingested[Arm][e] = None
      /\ \A y \in DOMAIN rows[Arm] : EnvOf(rows[Arm][y]) # e
      /\ \A i \in Items \ Recorded :
            /\ Env[i] \in Range(Env) /\ ingested[Arm][Env[i]] = None
            /\ \A y \in DOMAIN rows[Arm] : EnvOf(rows[Arm][y]) # Env[i]
  BY <1>2, ComingIs
<1>5. /\ ingested \in [Tracks -> [Range(Env) -> {None} \cup Evidence]]
      /\ run \in [env : {None} \cup Range(Env), info : {None} \cup Evidence,
                  crashed : BOOLEAN, contested : BOOLEAN]
  BY DEF TypeOK
<1>6. /\ ingested'[Arm][e] = x
      /\ \A t \in Tracks, v \in Range(Env) :
            ~(t = Arm /\ v = e) => ingested'[t][v] = ingested[t][v]
      /\ \A t \in Tracks : t # Arm => ingested'[t] = ingested[t]
      /\ ingested' \in [Tracks -> [Range(Env) -> {None} \cup Evidence]]
  BY <1>1, <1>4, <1>5
<1>7. /\ x.contested \in BOOLEAN /\ x # None /\ e # None
  BY PilotAssumption DEF EnvRun
<1>8. run' \in [env : {None} \cup Range(Env), info : {None} \cup Evidence,
                crashed : BOOLEAN, contested : BOOLEAN]
      /\ run'.env = e /\ run'.info = x /\ run'.contested = (run.contested \/ x.contested)
  BY <1>1, <1>5, <1>7
<1>9. TypeOK'
  BY <1>2, <1>3, <1>6, <1>8 DEF TypeOK
<1>10. RowsAll'
  <2>1. ASSUME NEW t \in Tracks, NEW y \in DOMAIN rows[t]
        PROVE  RowOK(t, rows[t][y])'
    <3>1. RowOK(t, rows[t][y])
      BY DEF RowsAll, RowsOK
    <3>2. EnvOf(rows[t][y]) \in Range(Env)
      BY <3>1, PilotAssumption DEF RowOK, EnvOf, Range
    <3>3. ~(t = Arm /\ EnvOf(rows[t][y]) = e)
      BY <1>4
    <3>4. ingested'[t][EnvOf(rows[t][y])] = ingested[t][EnvOf(rows[t][y])]
      BY <1>6, <3>2, <3>3
    <3>5. EnvOf(rows[t][y])' = EnvOf(rows[t][y]) /\ rows' = rows
      BY <1>3 DEF EnvOf
    <3> QED
      BY <3>1, <3>4, <3>5 DEF RowOK, Had
  <2>2. rows' = rows
    BY <1>3
  <2> QED
    BY <2>1, <2>2 DEF RowsAll, RowsOK
<1>11. Ahead' /\ OverOK' /\ ReportsOK' /\ ComparedOK'
  <2>1. pc' \in {"run", "report"}
    BY <1>2, <1>4
  <2>2. \A t \in Tracks : t # Arm => rows'[t] = rows[t] /\ ingested'[t] = ingested[t]
    BY <1>3, <1>6
  <2> QED
    BY <1>2, <1>4, <2>1, <2>2, OthersKeep
<1>12. ArmOK'
  <2>1. Arm' = Arm /\ Recorded' = Recorded /\ rows' = rows /\ reports' = reports /\ pc' = pc
    BY <1>2, <1>3 DEF Arm, Recorded
  <2>2. /\ reports[Arm] = None
        /\ \A v \in Range(Env) :
              ingested[Arm][v] # None /\ ingested[Arm][v].contested => run.contested
    BY <1>4 DEF ArmOK
  <2>3. \A v \in Range(Env) :
           ingested'[Arm][v] # None /\ ingested'[Arm][v].contested => run'.contested
    BY <1>4, <1>6, <1>8, <2>2
  <2>4. ASSUME NEW i \in Items \ Recorded
        PROVE  \/ run'.env = Env[i]
               \/ /\ ingested'[Arm][Env[i]] = None
                  /\ \A y \in DOMAIN rows[Arm] : EnvOf(rows[Arm][y]) # Env[i]
    BY <1>4, <1>6, <1>8
  <2>5. \E i \in Items \ Recorded : Env[i] = e
    <3>1. Left \in Seq(Items) /\ {Left[y] : y \in DOMAIN Left} = Items \ Recorded
      BY LeftIs
    <3>2. Left # <<>> /\ e = Env[Head(Left)]
      BY <1>2 DEF Coming
    <3>3. 1 \in DOMAIN Left /\ Head(Left) = Left[1]
      BY <3>1, <3>2
    <3> QED
      BY <3>1, <3>2, <3>3
  <2>6. \A y \in DOMAIN rows[Arm] : EnvOf(rows[Arm][y])' = EnvOf(rows[Arm][y])
    BY <2>1 DEF EnvOf
  <2>7. run'.env # None => /\ \E i \in Items \ Recorded : Env[i] = run'.env
                           /\ ingested'[Arm][run'.env] # None /\ run'.info = ingested'[Arm][run'.env]
    BY <1>6, <1>7, <1>8, <2>5
  <2> QED
    BY <1>4, <2>1, <2>2, <2>3, <2>4, <2>6, <2>7 DEF ArmOK
<1> QED
  BY <1>9, <1>10, <1>11, <1>12

LEMMA ErrorsAre ==
    ASSUME NEW items \in Seq(Items), NEW info
    PROVE  LET new == Errors(items, info)
           IN  /\ IsSeq(new) /\ DOMAIN new = DOMAIN items
               /\ \A x \in DOMAIN items :
                     new[x] = [item |-> items[x], status |-> "error", answer |-> None, env_run |-> info]
<1> DEFINE new == Errors(items, info)
<1>1. new = [x \in 1..Len(items) |-> Row(items[x], "error", None, info)] /\ Len(items) \in Nat
  BY DEF Errors
<1>2. Len(new) = Len(items) /\ DOMAIN new = 1..Len(items)
  BY <1>1
<1> HIDE DEF new
<1>3. IsSeq(new)
  BY <1>1, <1>2 DEF IsSeq
<1>4. \A x \in DOMAIN items :
        new[x] = [item |-> items[x], status |-> "error", answer |-> None, env_run |-> info]
  BY <1>1 DEF Row
<1>5. DOMAIN new = DOMAIN items
  BY <1>2
<1> QED
  BY <1>3, <1>4, <1>5 DEF new

LEMMA IngestFailsKeeps ==
    ASSUME Inv, NEW e \in Range(Env), IngestFails(e)
    PROVE  Inv'
<1> USE DEF Inv
<1> DEFINE l == LeftOf(e)
           new == Errors(l, NothingTaken)
<1>1. Coming(e) /\ Write(new) /\ UNCHANGED <<reply, judged, pilot>>
  BY DEF IngestFails
<1>2. UNCHANGED <<reply, judged, plan, at, pc, run, reports, had_errors, comparison, ingested>>
  BY <1>1 DEF pilot
<1>3. /\ pc = "run" /\ run.env = None /\ Arm \in Tracks
      /\ ingested[Arm][e] = None
      /\ \A i \in Items \ Recorded :
            /\ Env[i] \in Range(Env) /\ ingested[Arm][Env[i]] = None
            /\ \A y \in DOMAIN rows[Arm] : EnvOf(rows[Arm][y]) # Env[i]
  BY <1>1, ComingIs
<1>4. /\ l \in Seq(Items)
      /\ {l[x] : x \in DOMAIN l} = {i \in Items \ Recorded : Env[i] = e}
      /\ \A x, y \in DOMAIN l : l[x] = l[y] => x = y
  BY LeftOfIs
<1> HIDE DEF l
<1>5. /\ IsSeq(new) /\ DOMAIN new = DOMAIN l
      /\ \A x \in DOMAIN l :
            new[x] = [item |-> l[x], status |-> "error", answer |-> None, env_run |-> NothingTaken]
  BY <1>4, ErrorsAre
<1> HIDE DEF new
<1>6. \A x \in DOMAIN new :
        /\ new[x].item \in Items \ Recorded /\ EnvOf(new[x]) = e
        /\ RowOK(Arm, new[x])
  BY <1>3, <1>4, <1>5 DEF RowOK, EnvOf, Had
<1>7. {new[x].item : x \in DOMAIN new} = {i \in Items \ Recorded : Env[i] = e}
  <2>1. \A x \in DOMAIN new : new[x].item = l[x]
    BY <1>5
  <2> QED
    BY <1>4, <1>5, <2>1
<1>8. \A x, y \in DOMAIN new : new[x].item = new[y].item => x = y
  BY <1>4, <1>5
<1>9. /\ RowsAll' /\ DOMAIN rows' = Tracks
      /\ \A t \in Tracks : t # Arm => rows'[t] = rows[t]
      /\ {rows'[Arm][x].item : x \in DOMAIN rows'[Arm]}
           = Recorded \cup {i \in Items \ Recorded : Env[i] = e}
      /\ \A x \in DOMAIN rows'[Arm] : \/ \E y \in DOMAIN rows[Arm] : rows'[Arm][x] = rows[Arm][y]
                                      \/ \E y \in DOMAIN new : rows'[Arm][x] = new[y]
  <2>1. \A x \in DOMAIN new : RowOK(Arm, new[x]) /\ new[x].item \notin Recorded
    BY <1>6
  <2> QED
    BY <1>1, <1>2, <1>3, <1>5, <1>7, <1>8, <2>1, WriteKeeps
<1>10. TypeOK'
  BY <1>2, <1>9 DEF TypeOK
<1>11. Ahead' /\ OverOK' /\ ReportsOK' /\ ComparedOK'
  BY <1>2, <1>3, <1>9, OthersKeep
<1>12. ArmOK'
  <2>1. Arm' = Arm
    BY <1>2 DEF Arm
  <2>2. Recorded' = Recorded \cup {i \in Items \ Recorded : Env[i] = e}
    BY <1>9, <2>1 DEF Recorded
  <2>3. ASSUME NEW i \in Items \ Recorded, Env[i] # e
        PROVE  /\ ingested'[Arm][Env[i]] = None
               /\ \A x \in DOMAIN rows'[Arm] : EnvOf(rows'[Arm][x]) # Env[i]
    BY <1>2, <1>3, <1>6, <1>9, <2>3
  <2>4. /\ reports[Arm] = None
        /\ \A v \in Range(Env) :
              ingested[Arm][v] # None /\ ingested[Arm][v].contested => run.contested
    BY <1>3 DEF ArmOK
  <2>5. \A x \in DOMAIN rows'[Arm] : EnvOf(rows[Arm][x])' = EnvOf(rows'[Arm][x])
    BY <2>1 DEF EnvOf
  <2> QED
    BY <1>2, <1>3, <2>1, <2>2, <2>3, <2>4, <2>5 DEF ArmOK
<1> QED
  BY <1>9, <1>10, <1>11, <1>12

LEMMA AskKeeps ==
    ASSUME Inv, Ask
    PROVE  Inv'
<1> USE DEF Inv
<1> DEFINE l == LeftOf(run.env)
           i == Head(l)
<1>1. PICK row : /\ row \in {Row(i, "ok", r, run.info) : r \in Replies[i]}
                              \cup {Row(i, "error", None, run.info)}
                 /\ Write(<<row>>)
  BY DEF Ask
<1>2. /\ pc = "run" /\ run.env # None
      /\ run' = IF Len(l) = 1 THEN [run EXCEPT !.env = None, !.info = None] ELSE run
      /\ UNCHANGED <<reply, judged, plan, at, pc, reports, had_errors, comparison, ingested>>
  BY DEF Ask
<1>3. /\ Arm \in Tracks
      /\ run \in [env : {None} \cup Range(Env), info : {None} \cup Evidence,
                  crashed : BOOLEAN, contested : BOOLEAN]
  BY <1>2, ArmIs DEF TypeOK
<1>4. /\ \E j \in Items \ Recorded : Env[j] = run.env
      /\ ingested[Arm][run.env] # None /\ run.info = ingested[Arm][run.env]
  BY <1>2 DEF ArmOK
<1>5. /\ l \in Seq(Items) /\ Len(l) \in Nat /\ DOMAIN l = 1..Len(l)
      /\ {l[x] : x \in DOMAIN l} = {j \in Items \ Recorded : Env[j] = run.env}
      /\ \A x, y \in DOMAIN l : l[x] = l[y] => x = y
  BY LeftOfIs
<1>6. /\ 1 \in DOMAIN l /\ i = l[1]
      /\ i \in Items \ Recorded /\ Env[i] = run.env
  <2>1. DOMAIN l # {}
    BY <1>4, <1>5
  <2>2. 1 \in DOMAIN l
    BY <1>5, <2>1
  <2>3. i = l[1]
    BY <1>5, <2>2
  <2> HIDE DEF l, i
  <2> QED
    BY <1>5, <2>2, <2>3
<1> HIDE DEF l, i
<1>7. /\ row.item = i /\ row.status \in {"ok", "error"} /\ row.env_run = run.info
  BY <1>1 DEF Row
<1>8. /\ RowOK(Arm, row) /\ EnvOf(row) = run.env /\ run.info # None
  BY <1>4, <1>6, <1>7 DEF RowOK, EnvOf, Had
<1>9. /\ IsSeq(<<row>>) /\ DOMAIN <<row>> = {1} /\ <<row>>[1] = row
  <2>1. Len(<<row>>) = 1 /\ 1..1 = {1} /\ <<row>>[1] = row /\ DOMAIN <<row>> = 1..1
    OBVIOUS
  <2>2. <<row>> = [x \in 1..1 |-> <<row>>[x]]
    OBVIOUS
  <2> QED
    BY <2>1, <2>2 DEF IsSeq
<1> DEFINE new == <<row>>
<1> HIDE DEF new
<1>10. /\ RowsAll' /\ DOMAIN rows' = Tracks
       /\ \A t \in Tracks : t # Arm => rows'[t] = rows[t]
       /\ {rows'[Arm][x].item : x \in DOMAIN rows'[Arm]} = Recorded \cup {i}
       /\ \A x \in DOMAIN rows'[Arm] : \/ \E y \in DOMAIN rows[Arm] : rows'[Arm][x] = rows[Arm][y]
                                       \/ rows'[Arm][x] = row
  <2>1. /\ IsSeq(new) /\ DOMAIN new = {1} /\ new[1] = row /\ Write(new)
    BY <1>1, <1>9 DEF new
  <2>2. \A x \in DOMAIN new : RowOK(Arm, new[x]) /\ new[x].item \notin Recorded
    BY <1>6, <1>7, <1>8, <2>1
  <2>3. \A x, y \in DOMAIN new : new[x].item = new[y].item => x = y
    BY <2>1
  <2>4. {new[x].item : x \in DOMAIN new} = {i}
    BY <1>7, <2>1
  <2>5. /\ RowsAll' /\ DOMAIN rows' = Tracks
        /\ \A t \in Tracks : t # Arm => rows'[t] = rows[t]
        /\ {rows'[Arm][x].item : x \in DOMAIN rows'[Arm]}
             = Recorded \cup {new[x].item : x \in DOMAIN new}
        /\ \A x \in DOMAIN rows'[Arm] : \/ \E y \in DOMAIN rows[Arm] : rows'[Arm][x] = rows[Arm][y]
                                        \/ \E y \in DOMAIN new : rows'[Arm][x] = new[y]
    BY <1>2, <2>1, <2>2, <2>3, WriteKeeps
  <2> QED
    BY <2>1, <2>4, <2>5
<1>11. /\ run' \in [env : {None} \cup Range(Env), info : {None} \cup Evidence,
                    crashed : BOOLEAN, contested : BOOLEAN]
       /\ run'.contested = run.contested
       /\ run'.env = IF Len(l) = 1 THEN None ELSE run.env
       /\ Len(l) # 1 => run'.info = run.info
  BY <1>2, <1>3
<1>12. TypeOK'
  BY <1>2, <1>10, <1>11 DEF TypeOK
<1>13. Ahead' /\ OverOK' /\ ReportsOK' /\ ComparedOK'
  BY <1>2, <1>10, OthersKeep
<1>14. ArmOK'
  <2>1. Arm' = Arm
    BY <1>2 DEF Arm
  <2>2. Recorded' = Recorded \cup {i}
    BY <1>10, <2>1 DEF Recorded
  <2>3. ASSUME NEW j \in Items \ Recorded, j # i
        PROVE  \/ run'.env = Env[j]
               \/ /\ ingested'[Arm][Env[j]] = None
                  /\ \A x \in DOMAIN rows'[Arm] : EnvOf(rows'[Arm][x]) # Env[j]
    <3>1. CASE Env[j] = run.env
      <4>1. PICK x \in DOMAIN l : j = l[x]
        BY <1>5, <3>1
      <4>2. Len(l) # 1
        BY <1>5, <1>6, <2>3, <4>1
      <4> QED
        BY <1>11, <3>1, <4>2
    <3>2. CASE Env[j] # run.env
      <4>1. /\ ingested[Arm][Env[j]] = None
            /\ \A x \in DOMAIN rows[Arm] : EnvOf(rows[Arm][x]) # Env[j]
        BY <1>2, <3>2 DEF ArmOK
      <4> QED
        BY <1>2, <1>8, <1>10, <3>2, <4>1
    <3> QED
      BY <3>1, <3>2
  <2>4. ASSUME run'.env # None
        PROVE  /\ \E j \in Items \ Recorded' : Env[j] = run'.env
               /\ ingested'[Arm][run'.env] # None /\ run'.info = ingested'[Arm][run'.env]
    <3>1. Len(l) # 1 /\ run'.env = run.env /\ run'.info = run.info
      BY <1>11, <2>4
    <3>2. 2 \in DOMAIN l
      BY <1>5, <1>6, <3>1
    <3>3. l[2] # i /\ l[2] \in Items \ Recorded /\ Env[l[2]] = run.env
      BY <1>5, <1>6, <3>2
    <3> QED
      BY <1>2, <1>4, <2>2, <3>1, <3>3
  <2>5. /\ reports[Arm] = None
        /\ \A v \in Range(Env) :
              ingested[Arm][v] # None /\ ingested[Arm][v].contested => run.contested
    BY <1>2 DEF ArmOK
  <2>6. \A x \in DOMAIN rows'[Arm] : EnvOf(rows[Arm][x])' = EnvOf(rows'[Arm][x])
    BY <2>1 DEF EnvOf
  <2> QED
    BY <1>2, <1>11, <2>1, <2>2, <2>3, <2>4, <2>5, <2>6 DEF ArmOK
<1> QED
  BY <1>10, <1>12, <1>13, <1>14

LEMMA CrashKeeps ==
    ASSUME Inv, Crash
    PROVE  Inv'
<1> USE DEF Inv
<1> DEFINE l == Left
           new == Errors(l, None)
<1>1. /\ pc = "run" /\ pc' = "report" /\ Write(new)
      /\ run' = [run EXCEPT !.env = None, !.info = None, !.crashed = TRUE]
      /\ UNCHANGED <<reply, judged, plan, at, reports, had_errors, comparison, ingested>>
  BY DEF Crash
<1>2. /\ Arm \in Tracks
      /\ run \in [env : {None} \cup Range(Env), info : {None} \cup Evidence,
                  crashed : BOOLEAN, contested : BOOLEAN]
  BY <1>1, ArmIs DEF TypeOK
<1>3. /\ l \in Seq(Items)
      /\ {l[x] : x \in DOMAIN l} = Items \ Recorded
      /\ \A x, y \in DOMAIN l : l[x] = l[y] => x = y
  BY LeftIs
<1> HIDE DEF l
<1>4. /\ IsSeq(new) /\ DOMAIN new = DOMAIN l
      /\ \A x \in DOMAIN l :
            new[x] = [item |-> l[x], status |-> "error", answer |-> None, env_run |-> None]
  BY <1>3, ErrorsAre
<1> HIDE DEF new
<1>5. \A x \in DOMAIN new : RowOK(Arm, new[x]) /\ new[x].item \notin Recorded
  BY <1>3, <1>4 DEF RowOK
<1>6. {new[x].item : x \in DOMAIN new} = Items \ Recorded
  <2>1. \A x \in DOMAIN new : new[x].item = l[x]
    BY <1>4
  <2> QED
    BY <1>3, <1>4, <2>1
<1>7. \A x, y \in DOMAIN new : new[x].item = new[y].item => x = y
  BY <1>3, <1>4
<1>8. /\ RowsAll' /\ DOMAIN rows' = Tracks
      /\ \A t \in Tracks : t # Arm => rows'[t] = rows[t]
      /\ {rows'[Arm][x].item : x \in DOMAIN rows'[Arm]} = Recorded \cup (Items \ Recorded)
  BY <1>1, <1>4, <1>5, <1>6, <1>7, WriteKeeps
<1>9. run' \in [env : {None} \cup Range(Env), info : {None} \cup Evidence,
                crashed : BOOLEAN, contested : BOOLEAN]
      /\ run'.contested = run.contested
  BY <1>1, <1>2
<1>10. TypeOK'
  BY <1>1, <1>8, <1>9 DEF TypeOK
<1>11. Ahead' /\ OverOK' /\ ReportsOK' /\ ComparedOK'
  BY <1>1, <1>8, OthersKeep
<1>12. ArmOK'
  <2>1. Arm' = Arm
    BY <1>1 DEF Arm
  <2>2. Recorded \subseteq Items
    BY <1>2, RecordedIs
  <2>3. Recorded' = Items
    BY <1>8, <2>1, <2>2 DEF Recorded
  <2>4. /\ reports[Arm] = None
        /\ \A v \in Range(Env) :
              ingested[Arm][v] # None /\ ingested[Arm][v].contested => run.contested
    BY <1>1 DEF ArmOK
  <2> QED
    BY <1>1, <1>9, <2>1, <2>3, <2>4 DEF ArmOK
<1> QED
  BY <1>8, <1>10, <1>11, <1>12

LEMMA FinishKeeps ==
    ASSUME Inv, Finish
    PROVE  Inv'
<1> USE DEF Inv
<1>1. /\ pc = "run" /\ pc' = "report" /\ Left = <<>>
      /\ UNCHANGED <<reply, rows, judged, plan, at, run, reports, had_errors, comparison, ingested>>
  BY DEF Finish, vars
<1>2. TypeOK'
  BY <1>1 DEF TypeOK
<1>3. RowsAll'
  BY <1>1 DEF RowsAll, RowsOK, RowOK, Had, EnvOf
<1>4. Ahead' /\ OverOK' /\ ReportsOK' /\ ComparedOK'
  BY <1>1, OthersKeep
<1>5. ArmOK'
  <2>1. Arm \in Tracks /\ Arm' = Arm
    BY <1>1, ArmIs DEF Arm
  <2>2. Recorded \subseteq Items /\ Recorded' = Recorded
    <3>1. Recorded' = Recorded
      BY <1>1, <2>1 DEF Recorded
    <3> QED
      BY <2>1, <3>1, RecordedIs
  <2>3. {Left[x] : x \in DOMAIN Left} = Items \ Recorded /\ DOMAIN Left = {}
    <3>1. {Left[x] : x \in DOMAIN Left} = Items \ Recorded
      BY LeftIs
    <3>2. DOMAIN <<>> = {}
      OBVIOUS
    <3> QED
      BY <1>1, <3>1, <3>2
  <2>4. Recorded = Items
    BY <2>2, <2>3
  <2>5. /\ reports[Arm] = None
        /\ \A v \in Range(Env) :
              ingested[Arm][v] # None /\ ingested[Arm][v].contested => run.contested
    BY <1>1 DEF ArmOK
  <2> QED
    BY <1>1, <2>1, <2>2, <2>4, <2>5 DEF ArmOK
<1> QED
  BY <1>2, <1>3, <1>4, <1>5

LEMMA AbortKeeps ==
    ASSUME Inv, Abort
    PROVE  Inv'
<1> USE DEF Inv
<1>1. /\ pc = "run" /\ pc' = "raised"
      /\ UNCHANGED <<reply, rows, judged, plan, at, run, reports, had_errors, comparison, ingested>>
  BY DEF Abort, vars
<1>2. TypeOK'
  BY <1>1 DEF TypeOK
<1>3. RowsAll'
  BY <1>1 DEF RowsAll, RowsOK, RowOK, Had, EnvOf
<1> QED
  BY <1>1, <1>2, <1>3 DEF Ahead, ArmOK, OverOK, ReportsOK, ComparedOK

LEMMA ReportKeeps ==
    ASSUME Inv, Report
    PROVE  Inv'
<1> USE DEF Inv
<1> DEFINE new == BuildReport(rows[Arm], Mode(Arm))
           wrong == \E x \in DOMAIN rows[Arm] : rows[Arm][x].status # "ok"
<1>1. /\ pc = "report"
      /\ reports' = [reports EXCEPT ![Arm] = new]
      /\ had_errors' = (had_errors \/ wrong)
      /\ run' = NewRun
      /\ \/ /\ run.crashed \/ run.contested
            /\ pc' = "raised" /\ at' = at
         \/ /\ ~run.crashed /\ ~run.contested
            /\ pc' = IF at = Len(plan) THEN "compare" ELSE "run"
            /\ at' = IF at = Len(plan) THEN at ELSE at + 1
      /\ UNCHANGED <<reply, rows, judged, plan, comparison, ingested>>
  BY DEF Report, vars
<1>2. wrong \in BOOLEAN
  OBVIOUS
<1> HIDE DEF new, wrong
<1>3. /\ Arm \in Tracks /\ DOMAIN plan = 1..Len(plan) /\ at \in 1..Len(plan) /\ Len(plan) \in Nat
      /\ \A x \in DOMAIN plan : plan[x] \in Tracks
      /\ \A x, y \in DOMAIN plan : plan[x] = plan[y] => x = y
  <2>1. plan \in Seq(Tracks)
    BY <1>1, ArmIs
  <2>2. \A x \in DOMAIN plan : plan[x] \in Tracks
    BY <2>1
  <2> QED
    BY <1>1, <2>2, ArmIs
<1> DEFINE n == Len(plan)
<1>n. n = Len(plan) /\ DOMAIN plan = 1..n
  BY <1>3
<1>at. n \in Nat /\ at \in Int /\ 1 <= at /\ at <= n
  BY <1>3
<1> HIDE DEF n
<1>4. at' \in DOMAIN plan /\ at' >= at
  <2>1. CASE at' = at
    BY <1>n, <1>at, <2>1
  <2>2. CASE at # n /\ at' = at + 1
    <3>1. ASSUME at # n PROVE at + 1 \in 1..n /\ at + 1 >= at
      BY <1>at, <3>1
    <3> QED
      BY <1>n, <1>at, <2>2, <3>1, Zenon
  <2> QED
    BY <1>1, <1>n, <1>at, <2>1, <2>2
<1>5. /\ DOMAIN reports' = Tracks /\ reports'[Arm] = new
      /\ \A t \in Tracks : t # Arm => reports'[t] = reports[t]
  BY <1>1, <1>3 DEF TypeOK
<1>6. TypeOK'
  <2>1. /\ run' \in [env : {None} \cup Range(Env), info : {None} \cup Evidence,
                     crashed : BOOLEAN, contested : BOOLEAN]
    BY <1>1 DEF NewRun
  <2>2. pc' \in {"start", "run", "report", "compare", "done", "raised"} /\ had_errors' \in BOOLEAN
    BY <1>1, <1>2 DEF TypeOK
  <2> QED
    BY <1>1, <1>4, <1>5, <2>1, <2>2 DEF TypeOK
<1>7. RowsAll'
  BY <1>1 DEF RowsAll, RowsOK, RowOK, Had, EnvOf
<1>8. ReportsOK'
  BY <1>1, <1>3, <1>5 DEF ReportsOK, new
<1>9. ComparedOK' /\ pc' # "start"
  BY <1>1 DEF ComparedOK
<1>10. CASE pc' = "raised"
  BY <1>6, <1>7, <1>8, <1>9, <1>10 DEF Ahead, ArmOK, OverOK
<1>11. CASE pc' # "raised"
  <2>1. /\ ~run.crashed /\ ~run.contested
        /\ pc' = IF at = Len(plan) THEN "compare" ELSE "run"
        /\ at' = IF at = Len(plan) THEN at ELSE at + 1
    BY <1>1, <1>11
  <2>2. Recorded = Items /\ \A e \in Range(Env) : ingested[Arm][e] # None => ~ingested[Arm][e].contested
    BY <1>1, <2>1 DEF ArmOK
  <2>3. ASSUME NEW x \in DOMAIN plan, x > at PROVE Untouched(plan[x]) /\ plan[x] # Arm
    <3>1. Untouched(plan[x])
      BY <1>1, <2>3 DEF Ahead
    <3>2. at \in DOMAIN plan /\ x # at
      BY <1>n, <1>at, <2>3
    <3> QED
      BY <1>3, <3>1, <3>2 DEF Arm
  <2>4. Ahead'
    <3>1. ASSUME NEW x \in DOMAIN plan, x > at
          PROVE  /\ rows'[plan[x]] = <<>> /\ reports'[plan[x]] = None
                 /\ \A e \in Range(Env) : ingested'[plan[x]][e] = None
      BY <1>1, <1>3, <1>5, <2>3, <3>1 DEF Untouched
    <3>2. \A x \in DOMAIN plan : x > at' => x > at
      BY <1>n, <1>at, <1>4
    <3> QED
      BY <1>1, <1>9, <3>1, <3>2 DEF Ahead, Untouched
  <2>5. Over' = Over \cup {Arm}
    <3>1. Over = {plan[x] : x \in {y \in DOMAIN plan : y < at}}
      BY <1>1 DEF Over
    <3>2. \A y \in DOMAIN plan : (y < at' \/ pc' \in {"compare", "done"}) <=> (y < at \/ y = at)
      <4>1. CASE at = n
        <5>1. pc' = "compare"
          BY <1>n, <1>at, <2>1, <4>1
        <5>2. \A y \in DOMAIN plan : y < at \/ y = at
          BY <1>n, <1>at, <4>1
        <5> QED
          BY <5>1, <5>2
      <4>2. CASE at # n
        <5>1. pc' = "run" /\ at' = at + 1
          BY <1>n, <1>at, <2>1, <4>2
        <5>2. \A y \in DOMAIN plan : y < at + 1 <=> y < at \/ y = at
          BY <1>n, <1>at
        <5> QED
          BY <5>1, <5>2
      <4> QED
        BY <4>1, <4>2
    <3>3. Over' = {plan[x] : x \in {y \in DOMAIN plan : y < at \/ y = at}}
      BY <1>1, <3>2 DEF Over
    <3> QED
      BY <1>3, <3>1, <3>3 DEF Arm
  <2>6. \A t \in Over : t \in Tracks /\ t # Arm
    <3>1. Over = {plan[x] : x \in {y \in DOMAIN plan : y < at}}
      BY <1>1 DEF Over
    <3> QED
      BY <1>3, <3>1 DEF Arm
  <2>7. OverOK'
    <3>1. /\ \A t \in Over :
                /\ reports[t] = BuildReport(rows[t], Mode(t))
                /\ Asked(t) = Items
                /\ \A e \in Range(Env) : ingested[t][e] # None => ~ingested[t][e].contested
          /\ had_errors <=> \E t \in Over : \E x \in DOMAIN rows[t] : rows[t][x].status # "ok"
      BY <1>1 DEF OverOK
    <3>2. \A t \in Over' :
             /\ reports'[t] = BuildReport(rows'[t], Mode(t))
             /\ Asked(t)' = Items
             /\ \A e \in Range(Env) : ingested'[t][e] # None => ~ingested'[t][e].contested
      BY <1>1, <1>5, <2>2, <2>5, <2>6, <3>1 DEF Asked, Recorded, new
    <3>3. had_errors' <=> \E t \in Over' : \E x \in DOMAIN rows'[t] : rows'[t][x].status # "ok"
      BY <1>1, <2>5, <3>1 DEF wrong
    <3>4. pc' \in {"compare", "done"} => at' = Len(plan')
      BY <1>1, <2>1
    <3> QED
      BY <3>2, <3>3, <3>4 DEF OverOK
  <2>8. ArmOK'
    <3>1. SUFFICES ASSUME pc' = "run" PROVE ArmOK'
      BY <2>1 DEF ArmOK
    <3>2. at' = at + 1 /\ at' \in DOMAIN plan /\ at' > at
      <4>1. at' = at + 1
        BY <2>1, <3>1
      <4> QED
        BY <1>n, <1>at, <1>4, <4>1
    <3>3. /\ Arm' = plan[at'] /\ Arm' \in Tracks /\ Arm' # Arm
          /\ Untouched(plan[at'])
      BY <1>1, <1>3, <2>3, <3>2 DEF Arm
    <3>4. /\ rows'[Arm'] = <<>> /\ reports'[Arm'] = None
          /\ \A e \in Range(Env) : ingested'[Arm'][e] = None
      BY <1>1, <1>5, <3>3 DEF Untouched
    <3>5. \A i \in Items : Env[i] \in Range(Env)
      BY PilotAssumption DEF Range
    <3>6. DOMAIN <<>> = {}
      OBVIOUS
    <3> QED
      BY <1>1, <3>1, <3>4, <3>5, <3>6 DEF ArmOK, NewRun
  <2> QED
    BY <1>6, <1>7, <1>8, <1>9, <2>4, <2>7, <2>8
<1> QED
  BY <1>10, <1>11

LEMMA CompareKeeps ==
    ASSUME Inv, Compare
    PROVE  Inv'
<1> USE DEF Inv
<1>1. /\ pc = "compare" /\ pc' = "done"
      /\ comparison' = Compared
      /\ UNCHANGED <<reply, rows, judged, plan, at, run, reports, had_errors, ingested>>
  BY DEF Compare, Compared, vars
<1>2. TypeOK'
  BY <1>1 DEF TypeOK
<1>3. RowsAll'
  BY <1>1 DEF RowsAll, RowsOK, RowOK, Had, EnvOf
<1>4. Compared' = Compared
  BY <1>1 DEF Compared
<1>5. Over' = Over
  BY <1>1 DEF Over
<1>6. OverOK'
  BY <1>1, <1>5 DEF OverOK, Asked
<1>7. Ahead'
  BY <1>1 DEF Ahead, Untouched
<1> QED
  BY <1>1, <1>2, <1>3, <1>4, <1>6, <1>7 DEF ArmOK, ReportsOK, ComparedOK

\* What is written or judged beside the run touches nothing of it.
LEMMA BesideKeeps ==
    ASSUME Inv, reply' \in Seq(Vocabulary), judged' \in [Items -> {None} \cup Verdicts],
           UNCHANGED <<rows, pilot>>
    PROVE  Inv'
<1> USE DEF Inv
<1>1. UNCHANGED <<rows, plan, at, pc, run, reports, had_errors, comparison, ingested>>
  BY DEF pilot
<1>2. TypeOK'
  BY <1>1 DEF TypeOK
<1>3. RowsAll'
  BY <1>1 DEF RowsAll, RowsOK, RowOK, Had, EnvOf
<1>4. Arm' = Arm /\ Recorded' = Recorded /\ Over' = Over /\ Compared' = Compared
  BY <1>1 DEF Arm, Recorded, Over, Compared
<1>5. ArmOK'
  BY <1>1, <1>4 DEF ArmOK, EnvOf
<1>6. OverOK'
  BY <1>1, <1>4 DEF OverOK, Asked
<1>7. Ahead'
  BY <1>1 DEF Ahead, Untouched
<1> QED
  BY <1>1, <1>2, <1>3, <1>4, <1>5, <1>6, <1>7 DEF ReportsOK, ComparedOK

LEMMA InvNext == Inv /\ [Next]_allVars => Inv'
<1> SUFFICES ASSUME Inv, [Next]_allVars PROVE Inv'
  OBVIOUS
<1>1. reply \in Seq(Vocabulary) /\ judged \in [Items -> {None} \cup Verdicts]
  BY DEF Inv, TypeOK
<1>2. CASE \E p \in Plans : Start(p)
  BY <1>2, StartKeeps
<1>3. CASE \E e \in Range(Env) : Ingest(e) \/ IngestFails(e)
  BY <1>3, IngestKeeps, IngestFailsKeeps
<1>4. CASE Ask \/ Crash \/ Finish \/ Abort \/ Report \/ Compare
  BY <1>4, AskKeeps, CrashKeeps, FinishKeeps, AbortKeeps, ReportKeeps, CompareKeeps
<1>5. CASE Reading
  <2>1. PICK w \in Vocabulary : Say(w) /\ UNCHANGED pilot
    BY <1>5 DEF Reading
  <2>2. reply' = Append(reply, w) /\ UNCHANGED <<rows, judged>>
    BY <2>1 DEF Say
  <2>3. reply' \in Seq(Vocabulary)
    BY <1>1, <2>2
  <2> QED
    BY <1>1, <2>1, <2>2, <2>3, BesideKeeps
<1>6. CASE Judging
  <2>1. PICK i \in Items, v \in Verdicts : JudgeItem(i, v) /\ UNCHANGED pilot
    BY <1>6 DEF Judging
  <2>2. judged' = [judged EXCEPT ![i] = v] /\ UNCHANGED <<reply, rows>>
    BY <2>1 DEF JudgeItem
  <2>3. judged' \in [Items -> {None} \cup Verdicts]
    BY <1>1, <2>2
  <2> QED
    BY <1>1, <2>1, <2>2, <2>3, BesideKeeps
<1>7. CASE UNCHANGED allVars
  <2>1. UNCHANGED <<reply, rows, judged, pilot>>
    BY <1>7 DEF allVars, vars
  <2> QED
    BY <1>1, <2>1, BesideKeeps
<1> QED
  BY <1>2, <1>3, <1>4, <1>5, <1>6, <1>7 DEF Next

\* The invariant of the pilot, for every list of arms, suite and evidence.
THEOREM Invariance == Spec => []Inv
<1> QED
  BY InvInit, InvNext, PTL DEF Spec

-----------------------------------------------------------------------------
(* The properties. *)

LEMMA InvReads ==
    ASSUME Inv
    PROVE  ReplyRead
<1> SUFFICES ASSUME NEW i \in Items, Format[i] = "mcq5"
             PROVE  ReplyReadBy(Options[i])
  BY DEF ReplyRead
<1>1. /\ Options[i] \in [Letters -> Seq(Vocabulary)]
      /\ "E" \in Letters /\ Options[i]["E"] = Unanswerable
  BY ScoringAssumption
<1>2. Stripped(reply) \in Seq(Vocabulary)
  <2> DEFINE places == {x \in DOMAIN reply : reply[x] # Emphasis}
  <2>1. reply \in Seq(Vocabulary) /\ places \in SUBSET DOMAIN reply
    BY DEF Inv, TypeOK
  <2>2. Stripped(reply) = Kept(reply, places)
    BY DEF Stripped
  <2> HIDE DEF places
  <2>3. Kept(reply, places) \in Seq(Vocabulary)
    BY <2>1, KeptIs
  <2> QED
    BY <2>2, <2>3
<1>3. DOMAIN Options[i] = Letters /\ \A k \in Letters : Phrase(Options[i][k])
  <2>1. DOMAIN Options[i] = Letters /\ \A k \in Letters : Options[i][k] \in Seq(Vocabulary)
    BY <1>1
  <2> QED
    BY <2>1, PhraseIs
<1>4. Readable(Stripped(reply), Options[i])
  BY <1>2, <1>3 DEF Readable
<1> QED
  BY <1>1, <1>3, <1>4, ReadIs

(* Theorem of ReplyRead: extract_mcq_letter commits only to an option whose *)
(* text the reply holds, in whatever word, or to E for a refusal, and hears *)
(* one that is held alone and not denied.                                   *)
THEOREM RepliesAreRead == Spec => []ReplyRead
<1> QED
  BY Invariance, InvReads, PTL

LEMMA RowsAreOne ==
    ASSUME Inv, NEW t \in Tracks
    PROVE  /\ OneRowEach(rows[t]) /\ Rated(judged) /\ Rated(NoVerdict)
           /\ {rows[t][x].item : x \in DOMAIN rows[t]} \subseteq Items
<1>1. RowsOK(t)
  BY DEF Inv, RowsAll
<1>2. DOMAIN rows[t] = 1..Len(rows[t]) /\ Len(rows[t]) \in Nat
  BY <1>1 DEF RowsOK
<1>3. \A x \in DOMAIN rows[t] : rows[t][x].item \in Items /\ rows[t][x].status \in {"ok", "error"}
  BY <1>1 DEF RowsOK, RowOK
<1>4. \A x, y \in DOMAIN rows[t] : rows[t][x].item = rows[t][y].item => x = y
  BY <1>1 DEF RowsOK
<1>5. Rated(judged)
  <2>1. judged \in [Items -> {None} \cup Verdicts] /\ Verdicts \subseteq 0..10
    BY ScoringAssumption DEF Inv, TypeOK
  <2> QED
    BY <2>1 DEF Rated
<1>6. Rated(NoVerdict)
  BY DEF Rated, NoVerdict
<1> QED
  BY <1>2, <1>3, <1>4, <1>5, <1>6 DEF OneRowEach

LEMMA InvIsHonest ==
    ASSUME Inv
    PROVE  DenominatorIsHonest
<1> SUFFICES ASSUME NEW t \in Tracks
             PROVE  LET scores == Scores(t)
                        r == Aggregate(scores)
                        axes == ByAxis(scores)
                    IN  /\ r.n + r.n_pending = Len(rows[t])
                        /\ r.n = r.n_correct + r.n_incorrect + r.n_error
                        /\ r.n = SumFunction([a \in DOMAIN axes |-> axes[a].n])
                        /\ r.score_sum = SumFunction([a \in DOMAIN axes |-> axes[a].score_sum])
                        /\ \A s \in scores :
                              /\ s.score \in {None} \cup 0..10
                              /\ s.pending => s.score = None /\ Format[s.item] = "open"
                              /\ LET f == Aggregate((scores \ {s}) \cup {AsError(s)})
                                 IN  r.n > 0 => f.score_sum * r.n <= r.score_sum * f.n
  BY DEF DenominatorIsHonest
<1> DEFINE scores == Scores(t)
<1>1. ScoresOK(scores) /\ Cardinality(scores) = Len(rows[t])
  BY RowsAreOne, ScoresAre DEF Scores
<1> HIDE DEF scores
<1>2. LET r == Aggregate(scores)
      IN  /\ r.n + r.n_pending = Len(rows[t])
          /\ r.n = r.n_correct + r.n_incorrect + r.n_error
  BY <1>1, AggregateIs
<1>3. LET r == Aggregate(scores)
          axes == ByAxis(scores)
      IN  /\ r.n = SumFunction([a \in DOMAIN axes |-> axes[a].n])
          /\ r.score_sum = SumFunction([a \in DOMAIN axes |-> axes[a].score_sum])
  BY <1>1, AxesAdd
<1>4. ASSUME NEW s \in scores
      PROVE  LET r == Aggregate(scores)
                 f == Aggregate((scores \ {s}) \cup {AsError(s)})
             IN  f.score_sum * r.n <= r.score_sum * f.n
  BY <1>1, ErrorIsNoGain
<1>5. \A s \in scores : /\ s.score \in {None} \cup 0..10
                        /\ s.pending => s.score = None /\ Format[s.item] = "open"
  BY <1>1 DEF ScoresOK, Score
<1> QED
  BY <1>2, <1>3, <1>4, <1>5, Zenon DEF scores

(* Theorem of DenominatorIsHonest: aggregate counts every row once, in the  *)
(* whole and on its axis, and failing on an item is never worth it.         *)
THEOREM ErrorsCount == Spec => []DenominatorIsHonest
<1> QED
  BY Invariance, InvIsHonest, PTL

LEMMA InvAddsUp ==
    ASSUME Inv
    PROVE  GainAddsUp
<1>1. \A t \in Tracks : ScoresOK(Scores(t))
  BY RowsAreOne, ScoresAre DEF Scores
<1>2. "memory" \in Tracks /\ Baselines \subseteq Tracks
  BY DEF Tracks, Baselines
<1>3. ASSUME NEW t \in Baselines
      PROVE  ScoresOK(Scores("memory")) /\ ScoresOK(Scores(t))
  BY <1>1, <1>2
<1> QED
  BY <1>3, GainAdds, Zenon DEF GainAddsUp

(* Theorem of GainAddsUp: the pairs of paired_gain and what it drops make   *)
(* up the items, the overall gain is the sum of the axes, and it is         *)
(* antisymmetric.                                                           *)
THEOREM GainsAddUp == Spec => []GainAddsUp
<1> QED
  BY Invariance, InvAddsUp, PTL

\* What the evidence in a report is: a sum of what was taken in.
LEMMA EvidenceIs ==
    ASSUME Inv, NEW t \in Tracks
    PROVE  LET rs == rows[t]
               envs == {EnvOf(rs[x]) : x \in {y \in DOMAIN rs : rs[y].env_run # None}}
               g == IngestEvidence(rs)
           IN  /\ g.n_envs \in Nat /\ (g.n_envs > 0 <=> envs # {})
               /\ g.blank \in Nat /\ g.n_records \in Nat
               /\ \A e \in envs : /\ e \in Range(Env) /\ Had(t, e) \in EnvRun
                                  /\ Had(t, e).blank <= g.blank
                                  /\ Had(t, e).n_records <= g.n_records
               /\ g.blank > 0 => \E e \in envs : Had(t, e).blank > 0
<1> DEFINE rs == rows[t]
           shown == {y \in DOMAIN rs : rs[y].env_run # None}
           env == [x \in shown |-> EnvOf(rs[x])]
           envs == {EnvOf(rs[x]) : x \in shown}
           infos == [e \in envs |-> InfoAt(rs, shown, e)]
           g == IngestEvidence(rs)
<1>1. /\ DOMAIN rs = 1..Len(rs) /\ Len(rs) \in Nat
      /\ \A x \in DOMAIN rs : RowOK(t, rs[x])
  BY DEF Inv, RowsAll, RowsOK
<1>2. \A x \in shown : EnvOf(rs[x]) \in Range(Env) /\ rs[x].env_run = Had(t, EnvOf(rs[x]))
  BY <1>1, PilotAssumption DEF RowOK, EnvOf, Range
<1>3. IsFiniteSet(shown) /\ shown \in SUBSET Nat
  <2>1. IsFiniteSet(DOMAIN rs) /\ DOMAIN rs \in SUBSET Nat
    BY <1>1, FS_Interval
  <2>2. shown \in SUBSET DOMAIN rs
    OBVIOUS
  <2> QED
    BY <2>1, <2>2, FS_Subset
<1>4. IsFiniteSet(envs)
  <2>1. envs = {env[x] : x \in shown}
    OBVIOUS
  <2> HIDE DEF env, envs, shown
  <2> QED
    BY <1>3, <2>1, ImageIs
<1>5. g = Sums(infos)
  BY DEF IngestEvidence
<1> HIDE DEF g, rs
<1>6. ASSUME NEW e \in envs
      PROVE  e \in Range(Env) /\ infos[e] = Had(t, e) /\ Had(t, e) \in EnvRun
  <2> DEFINE here == {x \in shown : EnvOf(rs[x]) = e}
  <2>1. here \in SUBSET shown /\ here # {}
    OBVIOUS
  <2>2. \A x \in here : x \in shown /\ EnvOf(rs[x]) = e
    OBVIOUS
  <2>3. infos[e] = rs[Max(here)].env_run
    BY DEF InfoAt
  <2> HIDE DEF here, infos, shown, envs
  <2>4. IsFiniteSet(here) /\ here \in SUBSET Nat
    BY <1>3, <2>1, FS_Subset
  <2>5. Max(here) \in here
    BY <2>1, <2>4, MaxIs
  <2>6. e \in Range(Env) /\ infos[e] = Had(t, e)
    BY <1>2, <2>2, <2>3, <2>5
  <2>7. ingested[t][e] \in {None} \cup Evidence
    BY <2>6 DEF Inv, TypeOK
  <2>8. Had(t, e) \in EnvRun
    BY <2>7, PilotAssumption DEF Had, NothingTaken, EnvRun
  <2> QED
    BY <2>6, <2>8
<1> HIDE DEF envs, infos
<1>7. DOMAIN infos = envs
  BY DEF infos
<1> DEFINE blanks == [e \in envs |-> infos[e].blank]
           records == [e \in envs |-> infos[e].n_records]
<1>8. /\ g.n_envs = Cardinality(envs)
      /\ g.blank = SumFunctionOnSet(blanks, envs)
      /\ g.n_records = SumFunctionOnSet(records, envs)
  BY <1>5, <1>7 DEF Sums, SumFunction
<1>9. /\ \A e \in envs : blanks[e] = Had(t, e).blank /\ blanks[e] \in Nat
      /\ \A e \in envs : records[e] = Had(t, e).n_records /\ records[e] \in Nat
  BY <1>6 DEF EnvRun
<1> HIDE DEF blanks, records
<1>10. /\ g.blank \in Nat /\ \A e \in envs : blanks[e] <= g.blank
       /\ g.blank > 0 => \E e \in envs : blanks[e] > 0
  BY <1>4, <1>8, <1>9, SumOfNats
<1>11. g.n_records \in Nat /\ \A e \in envs : records[e] <= g.n_records
  BY <1>4, <1>8, <1>9, SumOfNats
<1>12. g.n_envs \in Nat /\ (g.n_envs > 0 <=> envs # {})
  <2>1. Cardinality(envs) \in Nat /\ (Cardinality(envs) = 0 <=> envs = {})
    BY <1>4, FS_CardinalityType, FS_EmptySet
  <2> QED
    BY <1>8, <2>1
<1>13. \A e \in envs : /\ e \in Range(Env) /\ Had(t, e) \in EnvRun
                       /\ Had(t, e).blank <= g.blank
                       /\ Had(t, e).n_records <= g.n_records
  BY <1>6, <1>9, <1>10, <1>11
<1>14. g.blank > 0 => \E e \in envs : Had(t, e).blank > 0
  BY <1>9, <1>10
<1> QED
  BY <1>10, <1>11, <1>12, <1>13, <1>14 DEF envs, g, rs

\* The first half of ReportsAreTrue: what a report notes.
LEMMA NotesAreTrue ==
    ASSUME Inv, NEW t \in Tracks, reports[t] # None
    PROVE  LET had(e) == ingested[t][e]
               noted == reports[t].notes
           IN  /\ \A e \in AnsweredIn(t) :
                     /\ had(e).contested => "contested" \in noted
                     /\ had(e).blank > 0 /\ Mode(t) = "memory" => "blank" \in noted
               /\ "blank" \in noted => \E e \in Range(Env) : had(e) # None /\ had(e).blank > 0
               /\ "no_records" \in noted => \A e \in AnsweredIn(t) : had(e).n_records = 0
<1> DEFINE rs == rows[t]
           noted == reports[t].notes
           envs == {EnvOf(rs[x]) : x \in {y \in DOMAIN rs : rs[y].env_run # None}}
           g == IngestEvidence(rs)
           contested == \E x \in DOMAIN rs : rs[x].env_run # None /\ rs[x].env_run.contested
<1>1. reports[t] = BuildReport(rs, Mode(t))
  BY DEF Inv, ReportsOK
<1>2. /\ "contested" \in noted <=> contested
      /\ "blank" \in noted <=> g.n_envs > 0 /\ Mode(t) = "memory" /\ g.blank > 0
      /\ "no_records" \in noted <=> g.n_envs > 0 /\ Mode(t) = "memory" /\ g.n_records = 0
  <2> DEFINE pending == Aggregate(ScoresOf(rs, NoVerdict)).n_pending > 0
  <2>1. noted = {n \in {"pending"} : pending}
                  \cup {n \in {"contested"} : contested} \cup IngestNotes(g, Mode(t))
    BY <1>1 DEF BuildReport
  <2> HIDE DEF noted, contested, g, pending
  <2> QED
    BY <2>1 DEF IngestNotes
<1>3. /\ g.n_envs \in Nat /\ (g.n_envs > 0 <=> envs # {})
      /\ g.blank \in Nat /\ g.n_records \in Nat
      /\ \A e \in envs : /\ e \in Range(Env) /\ Had(t, e) \in EnvRun
                         /\ Had(t, e).blank <= g.blank
                         /\ Had(t, e).n_records <= g.n_records
      /\ g.blank > 0 => \E e \in envs : Had(t, e).blank > 0
  BY EvidenceIs
<1>4. ASSUME NEW e \in AnsweredIn(t)
      PROVE  /\ e \in envs /\ ingested[t][e] = Had(t, e)
             /\ ingested[t][e].contested => contested
  <2>1. PICK x \in DOMAIN rs : rs[x].status = "ok" /\ e = EnvOf(rs[x])
    BY DEF AnsweredIn
  <2>2. RowOK(t, rs[x])
    BY DEF Inv, RowsAll, RowsOK
  <2>3. rs[x].env_run # None /\ rs[x].env_run = Had(t, e) /\ ingested[t][e] # None
    BY <2>1, <2>2 DEF RowOK
  <2>4. ingested[t][e] = Had(t, e)
    BY <2>3 DEF Had
  <2> QED
    BY <2>1, <2>3, <2>4
<1> HIDE DEF rs, noted, envs, g, contested
<1>5. ASSUME NEW e \in AnsweredIn(t), ingested[t][e].blank > 0, Mode(t) = "memory"
      PROVE  "blank" \in noted
  <2>1. e \in envs /\ Had(t, e).blank > 0 /\ Had(t, e).blank \in Nat
    BY <1>3, <1>4, <1>5 DEF EnvRun
  <2>2. g.blank > 0 /\ g.n_envs > 0
    BY <1>3, <2>1
  <2> QED
    BY <1>2, <1>5, <2>2
<1>6. ASSUME "blank" \in noted
      PROVE  \E e \in Range(Env) : ingested[t][e] # None /\ ingested[t][e].blank > 0
  <2>1. PICK e \in envs : Had(t, e).blank > 0
    BY <1>2, <1>3, <1>6
  <2>2. ingested[t][e] # None
    BY <2>1 DEF Had, NothingTaken
  <2> QED
    BY <1>3, <2>1, <2>2 DEF Had
<1>7. ASSUME "no_records" \in noted, NEW e \in AnsweredIn(t)
      PROVE  ingested[t][e].n_records = 0
  <2>1. g.n_records = 0 /\ e \in envs
    BY <1>2, <1>4, <1>7
  <2>2. Had(t, e).n_records <= 0 /\ Had(t, e).n_records \in Nat
    BY <1>3, <2>1 DEF EnvRun
  <2> QED
    BY <1>4, <2>2
<1>8. \A e \in AnsweredIn(t) : ingested[t][e].contested => "contested" \in noted
  BY <1>2, <1>4
<1> QED
  BY <1>5, <1>6, <1>7, <1>8 DEF noted

\* The items of a run that has no error, without a judge.
LEMMA AllAnswered ==
    ASSUME NEW rs, OneRowEach(rs), \A x \in DOMAIN rs : rs[x].status = "ok",
           {rs[x].item : x \in DOMAIN rs} = Items
    PROVE  LET scores == ScoresOf(rs, NoVerdict)
               closed == {i \in Items : Format[i] # "open"}
           IN  ItemsOf(Scored(scores)) = closed /\ Aggregate(scores).n = Cardinality(closed)
<1> DEFINE scores == ScoresOf(rs, NoVerdict)
           closed == {i \in Items : Format[i] # "open"}
           m == [s \in Scored(scores) |-> s.item]
<1>1. Rated(NoVerdict) /\ \A i \in Items : NoVerdict[i] = None
  BY DEF Rated, NoVerdict
<1>2. /\ ScoresOK(scores)
      /\ ItemsOf(scores) = Items
  BY <1>1, ScoresAre
<1>3. ASSUME NEW s \in scores
      PROVE  /\ s.item \in Items
             /\ s.pending <=> Format[s.item] = "open"
             /\ s.score = None <=> s.pending
  <2>1. PICK x \in DOMAIN rs : s = ScorePrediction(rs[x], NoVerdict)
    BY DEF ScoresOf
  <2>2. rs[x].item \in Items /\ rs[x].status = "ok"
    BY DEF OneRowEach
  <2>3. /\ s.item = rs[x].item
        /\ s.pending <=> /\ rs[x].status = "ok" /\ Format[rs[x].item] = "open"
                         /\ NoVerdict[rs[x].item] = None
        /\ s.score = None <=> s.pending \/ rs[x].status # "ok"
    BY <1>1, <2>1, <2>2, PredictionIs
  <2> QED
    BY <1>1, <2>2, <2>3
<1> HIDE DEF scores
<1>4. Scored(scores) = {s \in scores : ~s.pending}
  BY <1>3 DEF Scored
<1>5. ItemsOf(Scored(scores)) = closed
  BY <1>2, <1>3, <1>4 DEF ItemsOf
<1>6. Cardinality(Scored(scores)) = Cardinality(closed)
  <2>1. closed = {m[s] : s \in Scored(scores)}
    BY <1>5 DEF ItemsOf
  <2>2. \A s, u \in Scored(scores) : m[s] = m[u] => s = u
    BY <1>2, <1>4 DEF ScoresOK
  <2>3. IsFiniteSet(Scored(scores))
    BY <1>2, ScoredIs
  <2> HIDE DEF m, closed
  <2> QED
    BY <2>1, <2>2, <2>3, ImageIs
<1>7. Aggregate(scores).n = Cardinality({s \in scores : ~s.pending})
  BY DEF Aggregate
<1> QED
  BY <1>4, <1>5, <1>6, <1>7 DEF scores

LEMMA PlacesAre ==
    ASSUME NEW s, DOMAIN s = 1..Len(s), Len(s) \in Nat
    PROVE  IsFiniteSet(DOMAIN s) /\ Cardinality(DOMAIN s) = Len(s)
<1> DEFINE n == Len(s)
<1>1. n \in Nat
  OBVIOUS
<1> HIDE DEF n
<1>2. IsFiniteSet(1..n) /\ Cardinality(1..n) = n
  BY <1>1, FS_Interval
<1> QED
  BY <1>2 DEF n

LEMMA OrderIs == Cardinality(Items) = Len(Order) /\ Len(Order) \in Nat
<1> DEFINE place == [x \in DOMAIN Order |-> Order[x]]
<1>1. Order \in Seq(Items) /\ Items = {place[x] : x \in DOMAIN Order}
  BY ScoringAssumption DEF ToSet
<1>2. \A x, y \in DOMAIN Order : place[x] = place[y] => x = y
  BY ScoringAssumption DEF IsInjective
<1>3. DOMAIN Order = 1..Len(Order) /\ Len(Order) \in Nat
  BY <1>1
<1>4. IsFiniteSet(DOMAIN Order) /\ Cardinality(DOMAIN Order) = Len(Order)
  BY <1>3, PlacesAre
<1> DEFINE places == DOMAIN Order
<1>5. Items = {place[x] : x \in places} /\ \A x, y \in places : place[x] = place[y] => x = y
  BY <1>1, <1>2
<1> HIDE DEF place, places
<1>6. IsFiniteSet(places) => Cardinality(Items) = Cardinality(places)
  BY <1>5, ImageIs
<1> QED
  BY <1>3, <1>4, <1>6 DEF places

\* What is known of an arm when the pilot is done.
LEMMA ArmIsDone ==
    ASSUME Inv, pc = "done", NEW t \in ToSet(plan)
    PROVE  LET A == ScoresOf(rows[t], NoVerdict)
               r == reports[t]
           IN  /\ t \in Tracks /\ t \in Over
               /\ ScoresOK(A) /\ ItemsOf(A) = Items /\ OneRowEach(rows[t])
               /\ {rows[t][x].item : x \in DOMAIN rows[t]} = Items
               /\ ~r.contested
               /\ r.overall = Aggregate(A)
               /\ r.overall.n + r.overall.n_pending = Len(Order)
               /\ r.overall.n \in Nat /\ r.overall.n_pending \in Nat
               /\ r.overall.n_error > 0 <=> \E x \in DOMAIN rows[t] : rows[t][x].status # "ok"
<1> DEFINE A == ScoresOf(rows[t], NoVerdict)
           r == reports[t]
           rs == rows[t]
<1>1. t \in Tracks /\ t \in Over
  <2>1. plan \in Seq(Tracks)
    BY ArmIs DEF Inv
  <2>2. PICK x \in DOMAIN plan : t = plan[x]
    BY DEF ToSet
  <2> QED
    BY <2>1, <2>2 DEF Over
<1>2. /\ r = BuildReport(rs, Mode(t))
      /\ {rs[x].item : x \in DOMAIN rs} = Items
      /\ \A e \in Range(Env) : ingested[t][e] # None => ~ingested[t][e].contested
  BY <1>1 DEF Inv, OverOK, Asked
<1>3. OneRowEach(rs) /\ Rated(NoVerdict)
  BY <1>1, RowsAreOne
<1>4. /\ ScoresOK(A) /\ ItemsOf(A) = Items /\ Cardinality(A) = Len(rs)
  BY <1>2, <1>3, ScoresAre
<1>5. r.overall = Aggregate(A)
  BY <1>2 DEF BuildReport
<1>6. ~r.contested
  <2>1. r.contested = \E x \in DOMAIN rs : rs[x].env_run # None /\ rs[x].env_run.contested
    BY <1>2 DEF BuildReport
  <2>2. ASSUME NEW x \in DOMAIN rs, rs[x].env_run # None PROVE ~rs[x].env_run.contested
    <3>1. RowOK(t, rs[x]) /\ rs[x].item \in Items
      BY <1>1 DEF Inv, RowsAll, RowsOK, RowOK
    <3>2. rs[x].env_run = Had(t, EnvOf(rs[x])) /\ EnvOf(rs[x]) \in Range(Env)
      BY <2>2, <3>1, PilotAssumption DEF RowOK, EnvOf, Range
    <3> QED
      BY <1>2, <3>2 DEF Had, NothingTaken
  <2> HIDE DEF r, rs
  <2> QED
    BY <2>1, <2>2
<1>7. Len(rs) = Len(Order)
  <2> DEFINE item == [x \in DOMAIN rs |-> rs[x].item]
  <2>1. /\ IsFiniteSet(DOMAIN rs) /\ Cardinality(DOMAIN rs) = Len(rs)
    BY <1>3, PlacesAre DEF OneRowEach
  <2>2. \A x, y \in DOMAIN rs : item[x] = item[y] => x = y
    BY <1>3 DEF OneRowEach
  <2>3. Items = {item[x] : x \in DOMAIN rs}
    BY <1>2
  <2> HIDE DEF item, rs
  <2>4. Cardinality(Items) = Cardinality(DOMAIN rs)
    BY <2>1, <2>2, <2>3, ImageIs
  <2> QED
    BY <2>1, <2>4, OrderIs
<1>8. /\ r.overall.n + r.overall.n_pending = Len(Order)
      /\ r.overall.n \in Nat /\ r.overall.n_pending \in Nat
      /\ r.overall.n_error > 0 <=> \E s \in A : s.score = None /\ ~s.pending
  <2> HIDE DEF A, r, rs
  <2> QED
    BY <1>4, <1>5, <1>7, AggregateIs
<1>9. (\E s \in A : s.score = None /\ ~s.pending) <=> \E x \in DOMAIN rs : rs[x].status # "ok"
  <2>1. ASSUME NEW x \in DOMAIN rs
        PROVE  LET s == ScorePrediction(rs[x], NoVerdict)
               IN  (s.score = None /\ ~s.pending) <=> rs[x].status # "ok"
    <3>1. rs[x].item \in Items /\ rs[x].status \in {"ok", "error"}
      BY <1>3 DEF OneRowEach
    <3> HIDE DEF rs
    <3>2. LET s == ScorePrediction(rs[x], NoVerdict)
          IN  /\ s.pending <=> /\ rs[x].status = "ok" /\ Format[rs[x].item] = "open"
                               /\ NoVerdict[rs[x].item] = None
              /\ s.score = None <=> s.pending \/ rs[x].status # "ok"
      BY <1>3, <3>1, PredictionIs
    <3> QED
      BY <3>2
  <2> QED
    BY <2>1 DEF ScoresOf
<1> QED
  BY <1>1, <1>2, <1>3, <1>4, <1>5, <1>6, <1>8, <1>9

LEMMA DoneIsTrue ==
    ASSUME Inv, pc = "done"
    PROVE  LET done == {reports[t] : t \in ToSet(plan)}
           IN  /\ \A r \in done : ~r.contested /\ r.overall.n + r.overall.n_pending = Len(Order)
               /\ had_errors <=> \E r \in done : r.overall.n_error > 0
               /\ \A b \in DOMAIN comparison :
                     LET o == comparison[b].overall
                     IN  o # None =>
                           /\ o.n_paired + o.n_dropped = Len(Order)
                           /\ ~had_errors => o.n_dropped = reports[b].overall.n_pending
<1> DEFINE A(t) == ScoresOf(rows[t], NoVerdict)
           bad(t) == \E x \in DOMAIN rows[t] : rows[t][x].status # "ok"
<1>1. ASSUME NEW t \in ToSet(plan)
      PROVE  /\ t \in Tracks /\ t \in Over
             /\ ScoresOK(A(t)) /\ ItemsOf(A(t)) = Items /\ OneRowEach(rows[t])
             /\ {rows[t][x].item : x \in DOMAIN rows[t]} = Items
             /\ ~reports[t].contested
             /\ reports[t].overall = Aggregate(A(t))
             /\ reports[t].overall.n + reports[t].overall.n_pending = Len(Order)
             /\ reports[t].overall.n \in Nat /\ reports[t].overall.n_pending \in Nat
             /\ reports[t].overall.n_error > 0 <=> bad(t)
  BY ArmIsDone
<1>2. Over = ToSet(plan)
  BY DEF Over, ToSet
<1>3. had_errors <=> \E t \in ToSet(plan) : bad(t)
  BY <1>2 DEF Inv, OverOK
<1>4. ASSUME NEW b \in DOMAIN comparison, comparison[b].overall # None
      PROVE  LET o == comparison[b].overall
             IN  /\ o.n_paired + o.n_dropped = Len(Order)
                 /\ ~had_errors => o.n_dropped = reports[b].overall.n_pending
  <2> DEFINE M == A("memory")
             B == A(b)
             o == PairedGain(M, B)
             closed == {i \in Items : Format[i] # "open"}
  <2>1. comparison = Compared
    BY DEF Inv, ComparedOK
  <2>2. b \in ToSet(plan) /\ "memory" \in ToSet(plan) /\ comparison[b] = MemoryGain(M, B)
    BY <2>1 DEF Compared
  <2>3. comparison[b].overall = o
    BY <2>2 DEF MemoryGain
  <2>4. /\ ScoresOK(M) /\ ScoresOK(B) /\ ItemsOf(M) = Items /\ ItemsOf(B) = Items
    BY <1>1, <2>2
  <2> HIDE DEF M, B
  <2>5. /\ o.n_paired = Cardinality(Pairs(M, B)) /\ o.n_paired \in Nat
        /\ o.n_dropped = Cardinality(Items \cup Items) - Cardinality(Pairs(M, B))
        /\ o.n_paired + o.n_dropped = Cardinality(Items \cup Items)
    BY <1>4, <2>3, <2>4, EstimateIs
  <2> HIDE DEF o
  <2>6. Cardinality(Items \cup Items) = Len(Order) /\ Len(Order) \in Nat
    BY OrderIs
  <2>7. ASSUME ~had_errors PROVE o.n_dropped = reports[b].overall.n_pending
    <3>1. /\ \A x \in DOMAIN rows["memory"] : rows["memory"][x].status = "ok"
          /\ \A x \in DOMAIN rows[b] : rows[b][x].status = "ok"
      BY <1>3, <2>2, <2>7
    <3>2. /\ ItemsOf(Scored(M)) = closed
          /\ ItemsOf(Scored(B)) = closed /\ Aggregate(B).n = Cardinality(closed)
      BY <1>1, <2>2, <3>1, AllAnswered DEF M, B
    <3>3. Pairs(M, B) = closed
      BY <3>2 DEF Pairs
    <3>4. o.n_paired = Aggregate(B).n
      BY <2>5, <3>2, <3>3
    <3>5. /\ reports[b].overall = Aggregate(B)
          /\ reports[b].overall.n + reports[b].overall.n_pending = Len(Order)
          /\ reports[b].overall.n \in Nat /\ reports[b].overall.n_pending \in Nat
      BY <1>1, <2>2 DEF B
    <3>6. o.n_dropped = Len(Order) - o.n_paired
      BY <2>5, <2>6
    <3> QED
      BY <2>6, <3>4, <3>5, <3>6
  <2> QED
    BY <2>3, <2>5, <2>6, <2>7
<1> HIDE DEF A, bad
<1> QED
  BY <1>1, <1>3, <1>4

LEMMA InvReports ==
    ASSUME Inv
    PROVE  ReportsAreTrue
BY NotesAreTrue, DoneIsTrue DEF ReportsAreTrue

(* Theorem of ReportsAreTrue: build_report says of every arm what its       *)
(* answers rest on, and a pilot that is done has counted every item of      *)
(* every arm, in its exit code and in its comparison.                       *)
THEOREM ReportsHold == Spec => []ReportsAreTrue
<1> QED
  BY Invariance, InvReports, PTL
=============================================================================
