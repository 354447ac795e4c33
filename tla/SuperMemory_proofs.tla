-------------------------- MODULE SuperMemory_proofs --------------------------
(***************************************************************************)
(* Theorems about SuperMemory and the Suite it freezes, for any rows,      *)
(* videos, pools and disks: what is loaded is a whole release, a pool ends *)
(* clean, the disk space that is to be left is never touched, and an item  *)
(* shows all of the past it is asked about and nothing of the future.      *)
(***************************************************************************)
EXTENDS SuperMemory, FiniteSetTheorems, SequenceTheorems, WellFoundedInduction, TLAPS

-----------------------------------------------------------------------------
(* The suite: the invariant of its files and of who loads them.            *)

IsList(s) == s \in Seq(ToSet(s))

\* A release lists its items, and each environment of theirs once.
IsRelease(r) ==
    /\ IsList(r.items) /\ IsList(r.envs)
    /\ \A x \in DOMAIN r.items : r.items[x].env \in ToSet(r.envs)
    /\ \A k \in DOMAIN r.envs : \E x \in DOMAIN r.items : r.items[x].env = r.envs[k]
    /\ \A j, k \in DOMAIN r.envs : r.envs[j] = r.envs[k] => j = k

AllItems == Whole(Len(release.items))
AllEnvs == Whole(Len(release.envs))

\* A file is begun when the one before it is whole.
FilesInOrder ==
    /\ items # None => items \in [lines : 0..Len(release.items), torn : BOOLEAN]
    /\ envs # None => /\ envs \in [lines : 0..Len(release.envs), torn : BOOLEAN]
                      /\ items = AllItems
    /\ manifest # None => /\ items = AllItems /\ envs = AllEnvs
                          /\ manifest \in {Torn, [items |-> AllItems, envs |-> AllEnvs]}
    /\ writer \in {"off", "items"} => envs = None
    /\ writer \in {"off", "items", "envs"} => manifest = None
    /\ writer = "off" => items = None
    /\ writer = "envs" => items = AllItems
    /\ writer = "manifest" => items = AllItems /\ envs = AllEnvs

\* What a loader has read, before it accepts it.
LoaderReads ==
    /\ loader = [pc |-> loader.pc, items |-> loader.items, envs |-> loader.envs,
                 sha |-> loader.sha, filtered |-> loader.filtered]
    /\ loader.pc \in {"off", "envs", "manifest", "loaded", "refused"}
    /\ loader.pc \in {"envs", "manifest", "loaded"} => envs # None
    /\ loader.pc \in {"off", "envs", "manifest"} => ~loader.filtered
    /\ loader.pc \in {"envs", "manifest"} => loader.items = release.items
    /\ loader.pc = "manifest" =>
          \E n \in 0..Len(release.envs) :
             /\ loader.envs = ToSet(SubSeq(release.envs, 1, n))
             /\ n = Len(release.envs) => envs = AllEnvs

SuiteInv ==
    /\ writer \in {"off", "items", "envs", "manifest", "done", "killed"}
    /\ writer \in {"items", "envs", "manifest", "done"} \/ envs # None => IsRelease(release)
    /\ FilesInOrder
    /\ LoaderReads
    /\ LoadedIsWhole

-----------------------------------------------------------------------------
(* The preparation: types, and the invariant of the pool.                  *)

Recording == [video : Videos, end : Nat]
Example == [row : Annotation, recordings : Seq(Recording)]
Problems == {"source", "fault", "space"}
Begun == {"render", "stop", "build", "freeze", "failed", "interrupted", "killed"}

\* The videos that are used have been found and measured.
Timed == \A v \in Used : duration[v] \in Nat

SelectionOK ==
    /\ rows \in Seq(Annotation) /\ context \in Contexts
    /\ duration \in [Videos -> Durations]
    /\ workers \in Pools
    /\ next \in Nat \ {0}
    /\ selected \in Seq(Example)
    /\ pc \in {"plan", "check", "none", "refused"} \cup Begun
    /\ pc \in Begun => Timed

\* The clips that threads render.
Busy == {w \in 1..workers : thread[w] # None}
Taken == {thread[w].job : w \in Busy}

PoolOK ==
    /\ thread \in [1..workers -> {None} \cup Rendering]
    /\ ended \subseteq [job : Clip, ok : BOOLEAN]
    /\ failures \in Seq(Problems)
    /\ cancelled \in BOOLEAN
    /\ free \in Int
    /\ pc \in Begun => todo \cup Taken \subseteq Jobs

\* Before the pool is started, and when nobody is at work.
Idle ==
    /\ pc \notin Begun => /\ todo = {} /\ ended = {}
                          /\ failures = <<>> /\ ~cancelled
    /\ pc \notin {"render", "stop"} => Busy = {}

\* Every clip is somewhere, or the caller is about to see that one failed.
NoneLost ==
    /\ pc = "render" =>
          \/ Jobs \subseteq todo \cup Taken \cup DOMAIN media
          \/ \E f \in ended : ~f.ok
    /\ pc \in {"build", "freeze"} => Jobs \subseteq DOMAIN media

\* Whoever fails or cancels has said why, unless it was the user.
Explained ==
    /\ pc = "render" /\ (cancelled \/ \E f \in ended : ~f.ok) => failures # <<>>
    /\ pc = "stop" => /\ cancelled
                      /\ raised = "interrupt" \/ (raised = "error" /\ failures # <<>>)
    /\ pc = "failed" => raised \in Problems

\* The writer of the suite is at work when the items are made.
Released ==
    /\ pc \notin {"freeze", "killed"} => writer = "off"
    /\ pc = "freeze" => writer \in {"items", "envs", "manifest", "done"}
    /\ pc = "killed" => writer = "killed"
    /\ pc \in {"build", "freeze"} => IsRelease(release)

PoolInv == PoolOK /\ Idle /\ NoneLost /\ Explained

Inv == SelectionOK /\ PoolInv /\ Released /\ SuiteInv

-----------------------------------------------------------------------------
(* The room that is reserved.                                              *)

Total(clips) == MapThenSumSet(Budget, clips)

\* Clips that are being rendered, of which nothing is written yet.
Pending == {thread[w].job : w \in {u \in Busy : thread[u].written = 0}}

\* A clip is rendered once, and there is room for all that is not yet written.
Once ==
    /\ todo \cap Taken = {}
    /\ \A w, u \in Busy : thread[u].job = thread[w].job => u = w

Reserved ==
    /\ pc \in {"render", "stop"} =>
          /\ Once
          /\ free - Total(Pending) >= MinFree
    /\ pc \in Begun => free >= MinFree

-----------------------------------------------------------------------------
(* What the items are made of.                                             *)

\* The recordings that a question is asked about, each up to its boundary.
RecordingsOf(row) ==
    [k \in DOMAIN History(row) |->
        [video |-> History(row)[k], end |-> Boundary(row) - StartOf(History(row)[k])]]

Asked ==
    \A x \in DOMAIN selected : /\ Selectable(selected[x].row)
                              /\ selected[x].recordings = RecordingsOf(selected[x].row)

Pictured == \A c \in DOMAIN media : media[c] = Shown(c) /\ Shown(c) # None

\* Items are those of the questions, in their order, with every clip there is.
Made ==
    release # None \/ pc = "build" =>
       /\ pc \in {"build", "freeze", "failed", "killed"}
       /\ Jobs \subseteq DOMAIN media
       /\ IsList(release.items) /\ Len(release.items) <= Len(selected)
       /\ \A x \in DOMAIN release.items :
             release.items[x] = [id |-> x, env |-> EnvOf(x),
                                 spans |-> Spans(selected[x].row, EnvOf(x))]

LEMMA OrderedIs ==
    /\ Ordered[1] = "items"
    /\ After("items") = "envs" /\ After("envs") = "manifest" /\ After("manifest") = "done"
<1>1. (CHOOSE x \in 1..3 : Ordered[x] = "items") = 1
  BY DEF Ordered
<1>2. (CHOOSE x \in 1..3 : Ordered[x] = "envs") = 2
  BY DEF Ordered
<1>3. (CHOOSE x \in 1..3 : Ordered[x] = "manifest") = 3
  BY DEF Ordered
<1> QED
  BY <1>1, <1>2, <1>3 DEF Ordered, After

\* What Grown adds to a file of at most n lines.
LEMMA GrownIs ==
    ASSUME NEW n \in Nat, NEW file \in [lines : 0..n, torn : BOOLEAN], NEW f \in Grown(file, n)
    PROVE  f \in [lines : 0..n, torn : BOOLEAN] /\ file # Whole(n)
BY DEF Grown, Whole

LEMMA FilesStep ==
    ASSUME FilesInOrder, IsRelease(release), WriteItems \/ WriteEnvs \/ WriteManifest
    PROVE  /\ FilesInOrder'
           /\ writer' \in {"items", "envs", "manifest", "done"}
           /\ envs # None => envs' # None
           /\ envs = AllEnvs => envs' = AllEnvs
           /\ envs' # None => items' = AllItems
<1>1. Len(release.items) \in Nat /\ Len(release.envs) \in Nat
  BY DEF IsRelease, IsList
<1>5. AllItems # None /\ AllEnvs # None
  <2>1. AllItems \in File /\ AllEnvs \in File
    BY <1>1 DEF AllItems, AllEnvs, Whole, File
  <2> QED
    BY <2>1, SuiteAssumption
<1>2. CASE WriteItems
  <2>1. /\ writer = "items" /\ envs = None /\ manifest = None
        /\ UNCHANGED <<release, envs, manifest>>
    BY <1>2 DEF WriteItems, FilesInOrder
  <2>2. CASE items = None /\ items' = Empty /\ UNCHANGED writer
    BY <1>1, <2>1, <2>2 DEF FilesInOrder, Empty
  <2>3. CASE items # None /\ items' \in Grown(items, Len(release.items)) /\ UNCHANGED writer
    <3>1. items' \in [lines : 0..Len(release.items), torn : BOOLEAN]
      BY <1>1, <2>3, GrownIs DEF FilesInOrder
    <3> QED
      BY <2>1, <2>3, <3>1 DEF FilesInOrder
  <2>4. CASE items # None /\ items' = AllItems /\ writer' = After("items")
    BY <1>1, <2>1, <2>4, OrderedIs DEF FilesInOrder, AllItems, Whole
  <2> QED
    BY <1>2, <2>2, <2>3, <2>4 DEF WriteItems, AllItems
<1>3. CASE WriteEnvs
  <2>1. /\ writer = "envs" /\ items = AllItems /\ manifest = None
        /\ UNCHANGED <<release, items, manifest>>
    BY <1>3 DEF WriteEnvs, FilesInOrder
  <2>2. CASE envs = None /\ envs' = Empty /\ UNCHANGED writer
    <3>1. envs' \in [lines : 0..Len(release.envs), torn : BOOLEAN]
      BY <1>1, <2>2 DEF Empty
    <3>2. envs' # None
      BY <1>1, <3>1, SuiteAssumption DEF File
    <3> QED
      BY <1>5, <2>1, <2>2, <3>1, <3>2 DEF FilesInOrder, AllItems, AllEnvs
  <2>3. CASE envs # None /\ envs' \in Grown(envs, Len(release.envs)) /\ UNCHANGED writer
    <3>1. envs' \in [lines : 0..Len(release.envs), torn : BOOLEAN] /\ envs # AllEnvs
      BY <1>1, <2>3, GrownIs DEF FilesInOrder, AllEnvs
    <3> QED
      BY <2>1, <2>3, <3>1, SuiteAssumption DEF FilesInOrder, AllItems, AllEnvs, File
  <2>4. CASE envs # None /\ envs' = AllEnvs /\ writer' = After("envs")
    <3>1. AllEnvs \in [lines : 0..Len(release.envs), torn : BOOLEAN]
      BY <1>1 DEF AllEnvs, Whole
    <3>2. AllItems' = AllItems /\ AllEnvs' = AllEnvs
      BY <2>1 DEF AllItems, AllEnvs
    <3> QED
      BY <1>5, <2>1, <2>4, <3>1, <3>2, OrderedIs DEF FilesInOrder
  <2> QED
    BY <1>3, <2>2, <2>3, <2>4 DEF WriteEnvs, AllEnvs
<1>4. CASE WriteManifest
  <2>1. /\ writer = "manifest" /\ items = AllItems /\ envs = AllEnvs
        /\ UNCHANGED <<release, items, envs>>
    BY <1>4 DEF WriteManifest, FilesInOrder
  <2>2. CASE manifest' = Torn /\ UNCHANGED writer
    BY <2>1, <2>2 DEF FilesInOrder, AllItems, AllEnvs
  <2>3. CASE manifest' = Sha /\ writer' = After("manifest")
    BY <2>1, <2>3, OrderedIs DEF FilesInOrder, AllItems, AllEnvs, Sha
  <2> QED
    BY <1>4, <2>2, <2>3 DEF WriteManifest
<1> QED
  BY <1>2, <1>3, <1>4

\* Some first lines of envs.jsonl that have the environments of all items are
\* all its lines.
LEMMA AllReferenced ==
    ASSUME NEW r, IsRelease(r), NEW n \in 0..Len(r.envs),
           \A x \in DOMAIN r.items : r.items[x].env \in ToSet(SubSeq(r.envs, 1, n))
    PROVE  n = Len(r.envs)
<1>1. r.envs \in Seq(ToSet(r.envs)) /\ Len(r.envs) \in Nat
  BY DEF IsRelease, IsList
<1> SUFFICES ASSUME n < Len(r.envs) PROVE FALSE
  BY <1>1
<1>2. PICK x \in DOMAIN r.items : r.items[x].env = r.envs[Len(r.envs)]
  BY <1>1 DEF IsRelease
<1>3. PICK k \in DOMAIN SubSeq(r.envs, 1, n) : SubSeq(r.envs, 1, n)[k] = r.envs[Len(r.envs)]
  BY <1>2 DEF ToSet
<1>4. k \in 1..n /\ r.envs[k] = r.envs[Len(r.envs)]
  BY <1>1, <1>3
<1> QED
  BY <1>1, <1>4 DEF IsRelease


\* What a step of the loader changes.
LEMMA LoaderStep ==
    ASSUME SuiteInv, ReadItems \/ ReadEnvs \/ ReadManifest \/ Filter \/ Retry
    PROVE  LoaderReads' /\ LoadedIsWhole'
<1> USE DEF SuiteInv, LoaderReads, LoadedIsWhole
<1>1. CASE ReadItems
  <2>1. IsRelease(release) /\ items = AllItems
    BY <1>1 DEF ReadItems, FilesInOrder
  <2>2. SubSeq(release.items, 1, items.lines) = release.items
    BY <2>1, SubSeqFull DEF IsRelease, IsList, AllItems, Whole
  <2>3. envs # None /\ ~loader.filtered /\ UNCHANGED <<release, envs>>
    BY <1>1 DEF ReadItems, files
  <2>4. loader' = [loader EXCEPT !.pc = "envs", !.items = release.items]
    BY <1>1, <2>1, <2>2 DEF ReadItems, AllItems, Whole
  <2> QED
    BY <2>3, <2>4
<1>2. CASE ReadEnvs
  <2>1. IsRelease(release) /\ envs \in [lines : 0..Len(release.envs), torn : BOOLEAN]
    BY <1>2 DEF ReadEnvs, FilesInOrder
  <2>2. envs.lines \in 0..Len(release.envs)
    BY <2>1
  <2>3. ~envs.torn /\ envs.lines = Len(release.envs) => envs = AllEnvs
    BY <2>1 DEF AllEnvs, Whole
  <2>4. UNCHANGED <<release, envs>> /\ loader.pc = "envs"
    BY <1>2 DEF ReadEnvs, files
  <2>5. CASE envs.torn /\ loader' = [loader EXCEPT !.pc = "refused"]
    BY <2>4, <2>5
  <2>6. CASE /\ ~envs.torn
             /\ loader' = [loader EXCEPT !.pc = "manifest",
                                         !.envs = ToSet(SubSeq(release.envs, 1, envs.lines))]
    <3>1. \E n \in 0..Len(release.envs) :
             /\ loader'.envs = ToSet(SubSeq(release.envs, 1, n))
             /\ n = Len(release.envs) => envs = AllEnvs
      BY <2>2, <2>3, <2>6
    <3>2. loader'.pc = "manifest" /\ ~loader'.filtered /\ loader'.items = release.items
      BY <2>4, <2>6
    <3> QED
      BY <2>4, <2>6, <3>1, <3>2 DEF AllEnvs
  <2> QED
    BY <1>2, <2>5, <2>6 DEF ReadEnvs
<1>3. CASE ReadManifest
  <2>1. IsRelease(release) /\ items = AllItems
    BY <1>3 DEF ReadManifest, FilesInOrder
  <2>2. CASE loader' = [loader EXCEPT !.pc = "refused"]
    BY <2>2
  <2>3. CASE Referenced(loader) /\ loader' = [loader EXCEPT !.pc = "loaded", !.sha = Sha]
    <3>1. PICK n \in 0..Len(release.envs) :
             /\ loader.envs = ToSet(SubSeq(release.envs, 1, n))
             /\ n = Len(release.envs) => envs = AllEnvs
      BY <1>3 DEF ReadManifest
    <3>2. n = Len(release.envs)
      BY <1>3, <2>1, <2>3, <3>1, AllReferenced DEF ReadManifest, Referenced
    <3>3. SubSeq(release.envs, 1, n) = release.envs
      BY <2>1, <3>2, SubSeqFull DEF IsRelease, IsList
    <3>4. loader.envs = ToSet(release.envs) /\ Sha = [items |-> AllItems, envs |-> AllEnvs]
      BY <2>1, <3>1, <3>2, <3>3 DEF Sha
    <3>5. /\ UNCHANGED <<release, envs>> /\ envs # None
          /\ loader.items = release.items /\ ~loader.filtered
      BY <1>3 DEF ReadManifest, files
    <3>6. \A x \in DOMAIN loader.items : loader.items[x].env \in loader.envs
      BY <2>3 DEF Referenced
    <3>7. /\ loader'.pc = "loaded" /\ loader'.sha = [items |-> AllItems, envs |-> AllEnvs]
          /\ loader'.items = loader.items /\ loader'.envs = loader.envs /\ ~loader'.filtered
      BY <2>3, <3>4, <3>5
    <3>8. LoadedIsWhole'
      BY <3>4, <3>5, <3>6, <3>7 DEF AllItems, AllEnvs
    <3>9. LoaderReads'
      BY <2>3, <3>5, <3>7
    <3> QED
      BY <3>8, <3>9
  <2> QED
    BY <1>3, <2>2, <2>3 DEF ReadManifest
<1>4. CASE Filter
  <2>1. IsRelease(release) /\ loader.items = release.items /\ UNCHANGED <<release, envs>>
    BY <1>4 DEF Filter, files
  <2>2. PICK kept :
           /\ kept \in {1..n : n \in 0..Len(loader.items)} \cup
                 {{x \in DOMAIN loader.items : loader.items[x].env = e} : e \in loader.envs}
           /\ loader' = [loader EXCEPT !.items = Restrict(@, kept), !.filtered = TRUE,
                            !.envs = {loader.items[x].env : x \in kept} \cap @]
    BY <1>4 DEF Filter
  <2>3. DOMAIN loader.items = 1..Len(loader.items) /\ Len(loader.items) \in Nat
    BY <2>1 DEF IsRelease, IsList
  <2>4. kept \subseteq DOMAIN loader.items
    BY <2>2, <2>3
  <2>5. DOMAIN loader'.items = kept /\ \A x \in kept : loader'.items[x] = loader.items[x]
    BY <2>2 DEF Restrict
  <2>6. loader'.envs = {loader.items[x].env : x \in kept} \cap loader.envs
    BY <2>2
  <2>7. \A x \in kept : loader.items[x].env \in loader.envs
    BY <1>4, <2>4 DEF Filter
  <2>8. \A x \in DOMAIN loader'.items : loader'.items[x].env \in loader'.envs
    BY <2>5, <2>6, <2>7
  <2> QED
    BY <1>4, <2>1, <2>2, <2>8 DEF Filter, files
<1>5. CASE Retry
  BY <1>5 DEF Retry
<1> QED
  BY <1>1, <1>2, <1>3, <1>4, <1>5

LEMMA SuiteStep ==
    ASSUME SuiteInv, SuiteNext
    PROVE  SuiteInv'
<1>1. CASE WriteItems \/ WriteEnvs \/ WriteManifest
  <2>1. IsRelease(release) /\ UNCHANGED <<release, loader>>
    BY <1>1 DEF SuiteInv, WriteItems, WriteEnvs, WriteManifest
  <2>2. /\ FilesInOrder' /\ writer' \in {"items", "envs", "manifest", "done"}
        /\ envs # None => envs' # None
        /\ envs = AllEnvs => envs' = AllEnvs
    BY <1>1, <2>1, FilesStep DEF SuiteInv
  <2>3. LoaderReads'
    BY <2>1, <2>2 DEF SuiteInv, LoaderReads, AllEnvs
  <2> QED
    BY <2>1, <2>2, <2>3 DEF SuiteInv, LoadedIsWhole
<1>2. CASE ReadItems \/ ReadEnvs \/ ReadManifest \/ Filter \/ Retry
  <2>1. UNCHANGED <<release, writer, items, envs, manifest>>
    BY <1>2 DEF ReadItems, ReadEnvs, ReadManifest, Filter, Retry, files
  <2> QED
    BY <1>2, <2>1, LoaderStep DEF SuiteInv, FilesInOrder, AllItems, AllEnvs
<1> QED
  BY <1>1, <1>2 DEF SuiteNext

-----------------------------------------------------------------------------
(* Lemmas about the operators of the plan.                                 *)

\* The values of a function with a finite domain.
LEMMA ValuesAreFinite ==
    ASSUME NEW S, IsFiniteSet(S), NEW f, DOMAIN f = S
    PROVE  IsFiniteSet({f[x] : x \in S})
<1> DEFINE T == {f[x] : x \in S}
           g == [x \in S |-> f[x]]
<1>1. g \in Surjection(S, T)
  BY DEF Surjection
<1> QED
  BY <1>1, FS_Surjection

LEMMA MinIs ==
    ASSUME NEW S \in SUBSET Nat, S # {}
    PROVE  Min(S) \in S /\ \A y \in S : Min(S) <= y
<1> DEFINE T == {0..x : x \in S}
<1>1. T \subseteq FiniteSubsetsOf(Nat) /\ T # {}
  <2>1. ASSUME NEW x \in S PROVE 0..x \in SUBSET Nat /\ IsFiniteSet(0..x)
    BY FS_Interval
  <2> QED
    BY <2>1 DEF FiniteSubsetsOf
<1>2. PICK t \in T : \A u \in T : <<u, t>> \notin StrictSubsetOrdering(Nat)
  BY <1>1, FS_StrictSubsetOrderingWellFounded, WFMin
<1>3. PICK m \in S : t = 0..m
  OBVIOUS
<1>4. ASSUME NEW y \in S, y < m PROVE FALSE
  <2>1. 0..y \in T /\ 0..y \subseteq 0..m /\ 0..y # 0..m
    BY <1>4
  <2>2. <<0..y, 0..m>> \in StrictSubsetOrdering(Nat)
    BY <1>3, <2>1 DEF StrictSubsetOrdering
  <2> QED
    BY <1>2, <1>3, <2>1, <2>2
<1>5. \A y \in S : m <= y
  BY <1>4
<1> QED
  BY <1>5 DEF Min

LEMMA MaxIs ==
    ASSUME NEW S \in SUBSET Nat, S # {}, IsFiniteSet(S)
    PROVE  Max(S) \in S /\ \A y \in S : y <= Max(S)
<1> DEFINE U(x) == {y \in S : x < y}
           T == {U(x) : x \in S}
<1>1. T \subseteq FiniteSubsetsOf(S) /\ T # {}
  <2>1. ASSUME NEW x \in S PROVE U(x) \in SUBSET S /\ IsFiniteSet(U(x))
    BY FS_Subset
  <2> QED
    BY <2>1 DEF FiniteSubsetsOf
<1>2. PICK t \in T : \A u \in T : <<u, t>> \notin StrictSubsetOrdering(S)
  <2> HIDE DEF T
  <2> QED
    BY <1>1, FS_StrictSubsetOrderingWellFounded, WFMin
<1>3. PICK m \in S : t = U(m)
  OBVIOUS
<1>4. ASSUME NEW y \in S, m < y PROVE FALSE
  <2>1. y \in U(m) /\ y \notin U(y) /\ U(y) \in T
    <3>1. y \in Nat /\ ~(y < y)
      OBVIOUS
    <3> QED
      BY <1>4, <3>1
  <2>3. U(y) \subseteq U(m)
    <3>1. ASSUME NEW z \in S, y < z PROVE m < z
      <4>1. m \in Nat /\ y \in Nat /\ z \in Nat
        OBVIOUS
      <4> QED
        BY <1>4, <3>1, <4>1
    <3> QED
      BY <3>1
  <2>2. <<U(y), U(m)>> \in StrictSubsetOrdering(S)
    BY <2>1, <2>3 DEF StrictSubsetOrdering
  <2> QED
    BY <1>2, <1>3, <2>1, <2>2
<1>5. \A y \in S : y <= m
  BY <1>4
<1> QED
  BY <1>5 DEF Max

\* Each video has its place in the order, whoever began at the same time.
LEMMA InOrderIs ==
    ASSUME NEW vs \in SUBSET Videos, \A v \in vs : StartOf(v) \in Nat
    PROVE  /\ Cardinality(vs) \in Nat
           /\ InOrder(vs) \in [1..Cardinality(vs) -> vs]
           /\ ToSet(InOrder(vs)) = vs
           /\ \A j, k \in 1..Cardinality(vs) :
                 j < k => StartOf(InOrder(vs)[j]) <= StartOf(InOrder(vs)[k])
<1> DEFINE n == Cardinality(vs)
           P(v) == {w \in vs : Before(w, v)}
           before == [v \in vs |-> Cardinality(P(v))]
           rank == [v \in vs |-> before[v] + 1]
<1>1. IsFiniteSet(vs) /\ n \in Nat
  BY FS_Subset, FS_CardinalityType, SuperMemoryAssumption
<1>2. /\ \A v \in vs : ~Before(v, v)
      /\ \A v, u \in vs : v # u => Before(v, u) \/ Before(u, v)
      /\ \A v, u, w \in vs : Before(w, v) /\ Before(v, u) => Before(w, u)
  <2>1. \A v \in vs : v \in Int /\ StartOf(v) \in Int
    BY SuperMemoryAssumption
  <2> QED
    BY <2>1 DEF Before
<1>3. ASSUME NEW v \in vs PROVE IsFiniteSet(P(v)) /\ Cardinality(P(v)) \in 0..(n - 1)
  <2>1. P(v) \in SUBSET (vs \ {v})
    BY <1>2
  <2>2. IsFiniteSet(vs \ {v}) /\ Cardinality(vs \ {v}) = n - 1
    BY <1>1, FS_RemoveElement
  <2>3. IsFiniteSet(P(v)) /\ Cardinality(P(v)) <= n - 1
    <3> HIDE DEF P
    <3> QED
      BY <2>1, <2>2, FS_Subset
  <2>4. Cardinality(P(v)) \in Nat
    BY <2>3, FS_CardinalityType
  <2> HIDE DEF P
  <2> QED
    BY <1>1, <2>3, <2>4
<1>4. ASSUME NEW v \in vs, NEW u \in vs, Before(v, u)
      PROVE  Cardinality(P(v)) < Cardinality(P(u))
  <2>1. v \in P(u) /\ P(v) \in SUBSET (P(u) \ {v})
    BY <1>2, <1>4
  <2> HIDE DEF P
  <2>2. /\ IsFiniteSet(P(u) \ {v}) /\ Cardinality(P(u) \ {v}) = Cardinality(P(u)) - 1
    BY <1>3, <2>1, FS_RemoveElement
  <2>3. Cardinality(P(v)) <= Cardinality(P(u)) - 1
    BY <2>1, <2>2, FS_Subset
  <2>4. Cardinality(P(v)) \in Int /\ Cardinality(P(u)) \in Int
    BY <1>3
  <2> QED
    BY <2>3, <2>4
<1>5. before \in [vs -> 0..(n - 1)]
  BY <1>3
<1>6. \A v, u \in vs : Before(v, u) => before[v] < before[u]
  BY <1>4
<1> HIDE DEF before
<1>7. rank \in [vs -> 1..n]
  BY <1>1, <1>5
<1>8. \A v, u \in vs : rank[v] = rank[u] => v = u
  BY <1>1, <1>2, <1>5, <1>6
<1>9. rank \in Injection(vs, 1..n)
  <2> HIDE DEF rank
  <2> QED
    BY <1>7, <1>8 DEF Injection, IsInjective
<1>10. IsFiniteSet(1..n) /\ Cardinality(1..n) = n
  BY <1>1, FS_Interval
<1>11. rank \in Surjection(vs, 1..n)
  <2> HIDE DEF rank
  <2> QED
    BY <1>9, <1>10, FS_Injection
<1>12. \A k \in 1..n : \E v \in vs : before[v] = k - 1
  <2> SUFFICES ASSUME NEW k \in 1..n PROVE \E v \in vs : before[v] = k - 1
    OBVIOUS
  <2>1. PICK v \in vs : rank[v] = k
    BY <1>11 DEF Surjection
  <2> QED
    BY <1>1, <1>5, <2>1
<1>13. \A k \in 1..n : /\ InOrder(vs)[k] = CHOOSE v \in vs : Cardinality(P(v)) = k - 1
                    /\ \E v \in vs : Cardinality(P(v)) = k - 1
  BY <1>12 DEF before, InOrder
<1>14. InOrder(vs) = [k \in 1..n |-> InOrder(vs)[k]]
  BY DEF InOrder
<1>15. \A k \in 1..n : InOrder(vs)[k] \in vs /\ Cardinality(P(InOrder(vs)[k])) = k - 1
  <2> HIDE DEF P
  <2> QED
    BY <1>13
<1>16. \A k \in 1..n : InOrder(vs)[k] \in vs /\ before[InOrder(vs)[k]] = k - 1
  BY <1>15 DEF before
<1> HIDE DEF n
<1>17. ASSUME NEW v \in vs PROVE \E k \in 1..n : InOrder(vs)[k] = v
  <2>1. before[v] + 1 \in 1..n
    BY <1>1, <1>5
  <2>2. /\ InOrder(vs)[before[v] + 1] \in vs
        /\ before[InOrder(vs)[before[v] + 1]] = before[v]
    BY <1>1, <1>5, <1>16, <2>1
  <2>3. InOrder(vs)[before[v] + 1] = v
    BY <1>2, <1>5, <1>6, <2>2
  <2> QED
    BY <2>1, <2>3
<1>18. ASSUME NEW j \in 1..n, NEW k \in 1..n, j < k
       PROVE  StartOf(InOrder(vs)[j]) <= StartOf(InOrder(vs)[k])
  <2> DEFINE v == InOrder(vs)[j]
             u == InOrder(vs)[k]
  <2>1. v \in vs /\ u \in vs /\ before[v] = j - 1 /\ before[u] = k - 1
    BY <1>16
  <2> HIDE DEF u, v
  <2>2. v # u /\ ~Before(u, v)
    BY <1>1, <1>6, <1>18, <2>1
  <2>3. Before(v, u) /\ StartOf(v) \in Nat /\ StartOf(u) \in Nat
    BY <1>2, <2>1, <2>2
  <2>4. StartOf(v) <= StartOf(u)
    BY <2>3 DEF Before
  <2> QED
    BY <2>4 DEF u, v
<1>19. InOrder(vs) \in [1..n -> vs] /\ ToSet(InOrder(vs)) = vs
  BY <1>14, <1>16, <1>17 DEF ToSet
<1> QED
  BY <1>1, <1>18, <1>19 DEF n

\* A start that is known is one that a row gives.
LEMMA StartIs ==
    ASSUME rows \in Seq(Annotation), NEW v \in Known
    PROVE  StartOf(v) \in Nat
<1>1. \A x \in DOMAIN rows : rows[x] \in Annotation
  OBVIOUS
<1>2. Starts(v) \subseteq Nat
  BY <1>1 DEF Starts, Annotation
<1>3. Starts(v) # {}
  <2>1. Cardinality(Starts(v)) = 1
    BY DEF Known
  <2>2. Starts(v) = {} => Cardinality(Starts(v)) = 0
    BY FS_EmptySet, Zenon
  <2> QED
    BY <2>1, <2>2
<1> QED
  BY <1>2, <1>3 DEF StartOf

\* The recordings of a question that is selected.
LEMMA HistoryIs ==
    ASSUME rows \in Seq(Annotation), context \in Contexts, NEW row \in Annotation, Selectable(row)
    PROVE  /\ History(row) \in Seq(Videos)
           /\ Boundary(row) \in Nat
           /\ \A v \in ToSet(History(row)) : StartOf(v) \in Nat /\ StartOf(v) < Boundary(row)
           /\ \A j, k \in DOMAIN History(row) :
                 j < k => StartOf(History(row)[j]) <= StartOf(History(row)[k])
<1>1. row.primary \in Known /\ StartOf(row.primary) \in Nat
  BY StartIs DEF Selectable
<1>2. Cutoff(row) \in Nat /\ 0 < Cutoff(row)
  BY MinIs DEF Selectable, Cutoff, Annotation
<1>3. Boundary(row) \in Nat /\ StartOf(row.primary) < Boundary(row)
  BY <1>1, <1>2 DEF Boundary
<1>4. CASE context = "single-session"
  <2>1. History(row) = <<row.primary>> /\ row.primary \in Videos
    BY <1>4 DEF History, Annotation
  <2>2. ToSet(<<row.primary>>) = {row.primary}
    BY DEF ToSet
  <2> QED
    BY <1>1, <1>3, <2>1, <2>2
<1>5. CASE context = "history"
  <2> DEFINE vs == {v \in Listed(row) : StartOf(v) < Boundary(row)}
  <2>1. vs \in SUBSET Videos /\ \A v \in vs : StartOf(v) \in Nat
    BY <1>5, StartIs DEF Selectable, Known
  <2>2. /\ Cardinality(vs) \in Nat
        /\ InOrder(vs) \in [1..Cardinality(vs) -> vs]
        /\ \A j, k \in 1..Cardinality(vs) :
              j < k => StartOf(InOrder(vs)[j]) <= StartOf(InOrder(vs)[k])
    BY <2>1, InOrderIs
  <2>3. History(row) = InOrder(vs)
    BY <1>5 DEF History
  <2>4. ToSet(InOrder(vs)) \subseteq vs
    BY <2>2 DEF ToSet
  <2>5. InOrder(vs) \in Seq(Videos)
    BY <2>1, <2>2
  <2> QED
    BY <1>3, <2>1, <2>2, <2>3, <2>4, <2>5
<1> QED
  BY <1>4, <1>5, SuperMemoryAssumption

LEMMA SelectionStep ==
    ASSUME SelectionOK, Consider
    PROVE  SelectionOK' /\ pc = "plan"
<1> DEFINE row == rows[next]
           recordings == [x \in DOMAIN History(row) |->
                            [video |-> History(row)[x],
                             end |-> Boundary(row) - StartOf(History(row)[x])]]
<1>1. row \in Annotation
  BY DEF SelectionOK, Consider
<1>2. selected' \in Seq(Example)
  <2>1. CASE Selectable(row)
    <3>1. /\ History(row) \in Seq(Videos) /\ Boundary(row) \in Nat
          /\ \A v \in ToSet(History(row)) : StartOf(v) \in Nat /\ StartOf(v) < Boundary(row)
      BY <1>1, <2>1, HistoryIs DEF SelectionOK
    <3>2. ASSUME NEW x \in DOMAIN History(row)
          PROVE  [video |-> History(row)[x],
                  end |-> Boundary(row) - StartOf(History(row)[x])] \in Recording
      <4>1. History(row)[x] \in Videos /\ History(row)[x] \in ToSet(History(row))
        BY <3>1 DEF ToSet
      <4>2. Boundary(row) - StartOf(History(row)[x]) \in Nat
        BY <3>1, <4>1
      <4> QED
        BY <4>1, <4>2 DEF Recording
    <3>3. DOMAIN History(row) = 1..Len(History(row)) /\ Len(History(row)) \in Nat
      BY <3>1
    <3>4. recordings \in [1..Len(History(row)) -> Recording]
      BY <3>2, <3>3
    <3>5. recordings \in Seq(Recording)
      BY <3>3, <3>4
    <3>6. [row |-> row, recordings |-> recordings] \in Example
      <4> HIDE DEF row, recordings
      <4> QED
        BY <1>1, <3>5 DEF Example
    <3>7. selected' \in {selected, Append(selected, [row |-> row, recordings |-> recordings])}
      BY DEF Consider
    <3> QED
      BY <3>6, <3>7 DEF SelectionOK
  <2>2. CASE ~Selectable(row)
    BY <2>2 DEF Consider, SelectionOK
  <2> QED
    BY <2>1, <2>2
<1> QED
  BY <1>2 DEF SelectionOK, Consider, Begun, settings

\* The clips of a recording.
LEMMA ClipsAre ==
    ASSUME NEW rec \in Recording, duration[rec.video] \in Nat
    PROVE  /\ ClipsOf(rec) \in Seq(Clip)
           /\ \A c \in ToSet(ClipsOf(rec)) : c \in Clip /\ c.video = rec.video
                                            /\ c.from < c.to /\ c.to <= Ends(rec)
<1> DEFINE E == Ends(rec)
           n == (E + Chunk - 1) \div Chunk
<1>1. E \in Nat /\ Chunk \in Nat /\ Chunk > 0 /\ rec.video \in Videos
  BY SuperMemoryAssumption DEF Recording, Ends, Least
<1>2. n \in Nat /\ n * Chunk <= E + Chunk - 1
  <2> HIDE DEF E
  <2> QED
    BY <1>1
<1>3. ASSUME NEW k \in 1..n
      PROVE  /\ (k - 1) * Chunk \in Nat /\ k * Chunk \in Nat
             /\ (k - 1) * Chunk < k * Chunk /\ (k - 1) * Chunk < E
  <2> HIDE DEF n, E
  <2>1. k \in Nat /\ k - 1 \in Nat /\ k <= n
    BY <1>2
  <2>2. (k - 1) * Chunk \in Nat /\ k * Chunk = (k - 1) * Chunk + Chunk
    BY <1>1, <2>1
  <2>3. k * Chunk <= n * Chunk
    BY <1>1, <1>2, <2>1
  <2> QED
    BY <1>1, <1>2, <2>1, <2>2, <2>3
<1>4. ASSUME NEW k \in 1..n
      PROVE  /\ ClipsOf(rec)[k] \in Clip /\ ClipsOf(rec)[k].video = rec.video
             /\ ClipsOf(rec)[k].from < ClipsOf(rec)[k].to /\ ClipsOf(rec)[k].to <= E
  <2>1. ClipsOf(rec)[k] = [video |-> rec.video, from |-> (k - 1) * Chunk,
                           to |-> Least(k * Chunk, E)]
    BY DEF ClipsOf
  <2>2. /\ Least(k * Chunk, E) \in Nat /\ (k - 1) * Chunk < Least(k * Chunk, E)
        /\ Least(k * Chunk, E) <= E
    <3> HIDE DEF E
    <3> QED
      BY <1>1, <1>3 DEF Least
  <2> QED
    BY <1>1, <1>3, <2>1, <2>2 DEF Clip
<1>5. DOMAIN ClipsOf(rec) = 1..n /\ ClipsOf(rec) = [k \in 1..n |-> ClipsOf(rec)[k]]
  BY DEF ClipsOf
<1> QED
  <2> HIDE DEF n, E
  <2>1. ClipsOf(rec) \in [1..n -> Clip]
    BY <1>4, <1>5
  <2> QED
    BY <1>2, <1>4, <1>5, <2>1 DEF ToSet, E

LEMMA JobsAre ==
    ASSUME SelectionOK, Timed
    PROVE  /\ IsFiniteSet(Jobs)
           /\ \A j \in Jobs : j \in Clip /\ j.from < j.to
<1> DEFINE Of(x) == UNION {ToSet(ClipsOf(r)) : r \in ToSet(selected[x].recordings)}
<1>1. ASSUME NEW x \in DOMAIN selected
      PROVE  selected[x].recordings \in Seq(Recording)
  <2>1. selected[x] \in Example
    BY DEF SelectionOK
  <2> QED
    BY <2>1 DEF Example
<1>2. ASSUME NEW x \in DOMAIN selected, NEW r \in ToSet(selected[x].recordings)
      PROVE  /\ IsFiniteSet(ToSet(ClipsOf(r)))
             /\ \A c \in ToSet(ClipsOf(r)) : c \in Clip /\ c.from < c.to
  <2>1. r \in Recording
    BY <1>1 DEF ToSet
  <2>2. duration[r.video] \in Nat
    BY DEF Timed, Used
  <2>3. ClipsOf(r) \in Seq(Clip)
    BY <2>1, <2>2, ClipsAre
  <2>4. IsFiniteSet(DOMAIN ClipsOf(r))
    BY <2>3, FS_Interval
  <2> QED
    BY <2>1, <2>2, <2>4, ClipsAre, ValuesAreFinite DEF ToSet
<1>3. ASSUME NEW x \in DOMAIN selected PROVE IsFiniteSet(Of(x))
  <2> DEFINE f == [r \in ToSet(selected[x].recordings) |-> ToSet(ClipsOf(r))]
  <2>1. IsFiniteSet(DOMAIN selected[x].recordings)
    BY <1>1, FS_Interval
  <2>2. IsFiniteSet(ToSet(selected[x].recordings))
    BY <2>1, ValuesAreFinite DEF ToSet
  <2>3. IsFiniteSet({f[r] : r \in ToSet(selected[x].recordings)})
    <3>1. DOMAIN f = ToSet(selected[x].recordings)
      OBVIOUS
    <3> HIDE DEF f
    <3> QED
      BY <2>2, <3>1, ValuesAreFinite
  <2>4. IsFiniteSet({ToSet(ClipsOf(r)) : r \in ToSet(selected[x].recordings)})
    <3>1. {f[r] : r \in ToSet(selected[x].recordings)}
             = {ToSet(ClipsOf(r)) : r \in ToSet(selected[x].recordings)}
      OBVIOUS
    <3> QED
      BY <2>3, <3>1
  <2> QED
    BY <1>2, <2>4, FS_UNION
<1>4. IsFiniteSet({Of(x) : x \in DOMAIN selected})
  <2> DEFINE f == [x \in DOMAIN selected |-> Of(x)]
  <2>1. IsFiniteSet(DOMAIN selected)
    BY FS_Interval DEF SelectionOK
  <2>2. DOMAIN f = DOMAIN selected /\ {f[x] : x \in DOMAIN selected} = {Of(x) : x \in DOMAIN selected}
    OBVIOUS
  <2> HIDE DEF f, Of
  <2>3. IsFiniteSet({f[x] : x \in DOMAIN selected})
    BY <2>1, <2>2, ValuesAreFinite
  <2> QED
    BY <2>2, <2>3
<1>5. Jobs = UNION {Of(x) : x \in DOMAIN selected}
  BY DEF Jobs
<1>6. IsFiniteSet(Jobs)
  <2> HIDE DEF Of
  <2> QED
    BY <1>3, <1>4, <1>5, FS_UNION
<1>7. \A j \in Jobs : j \in Clip /\ j.from < j.to
  BY <1>2 DEF Jobs
<1> QED
  BY <1>6, <1>7

-----------------------------------------------------------------------------
(* The steps of the pool.                                                  *)

LEMMA JobsStay ==
    ASSUME UNCHANGED <<planVars, settings>>
    PROVE  Jobs' = Jobs /\ Used' = Used
<1>1. selected' = selected /\ duration' = duration
  BY DEF planVars, settings
<1>2. Used' = Used
  BY <1>1 DEF Used
<1>3. \A r : ClipsOf(r)' = ClipsOf(r)
  BY <1>1 DEF ClipsOf, Ends
<1>4. Jobs' = Jobs
  BY <1>1, <1>3 DEF Jobs
<1> QED
  BY <1>2, <1>4

LEMMA SelectionStays ==
    ASSUME SelectionOK, UNCHANGED <<planVars, settings>>,
           pc' \in {"plan", "check", "none", "refused"} \cup Begun, pc' \in Begun => pc \in Begun
    PROVE  SelectionOK'
BY JobsStay DEF SelectionOK, Timed, planVars, settings

\* A thread has something to do, or nothing any more.
LEMMA ThreadGets ==
    ASSUME PoolOK, workers' = workers, NEW w \in 1..workers, NEW r \in Rendering,
           thread' = [thread EXCEPT ![w] = r]
    PROVE  /\ thread' \in [1..workers -> {None} \cup Rendering]
           /\ Busy' = Busy \cup {w} /\ thread'[w] = r
           /\ \A u \in Busy' \ {w} : thread'[u] = thread[u]
<1>1. r # None
  BY SuperMemoryAssumption
<1> QED
  BY <1>1 DEF PoolOK, Busy

LEMMA ThreadEnds ==
    ASSUME PoolOK, workers' = workers, NEW w \in 1..workers, thread' = [thread EXCEPT ![w] = None]
    PROVE  /\ thread' \in [1..workers -> {None} \cup Rendering]
           /\ Busy' = Busy \ {w}
           /\ \A u \in Busy' : thread'[u] = thread[u]
           /\ Taken' \subseteq Taken
           /\ w \in Busy => Taken \subseteq Taken' \cup {thread[w].job}
<1>1. /\ thread' \in [1..workers -> {None} \cup Rendering]
      /\ Busy' = Busy \ {w}
      /\ \A u \in Busy' : thread'[u] = thread[u]
  BY DEF PoolOK, Busy
<1> QED
  BY <1>1 DEF Taken

\* What a failure leaves behind.
LEMMA FailsIs ==
    ASSUME PoolOK, workers' = workers, NEW w \in 1..workers,
           NEW what \in Problems \cup {"cancelled"}, what = "cancelled" => cancelled, Fails(w, what)
    PROVE  /\ failures' \in Seq(Problems) /\ cancelled'
           /\ failures # <<>> \/ ~cancelled => failures' # <<>>
           /\ thread' = [thread EXCEPT ![w] = None]
<1>1. CASE cancelled
  BY <1>1 DEF PoolOK, Fails, Failed
<1>2. CASE ~cancelled
  <2>1. what \in Problems /\ failures' = Append(failures, what) /\ failures \in Seq(Problems)
    BY <1>2 DEF PoolOK, Fails, Failed
  <2> QED
    BY <1>2, <2>1 DEF Fails
<1> QED
  BY <1>1, <1>2 DEF PoolOK

LEMMA TakeStep ==
    ASSUME Inv, NEW w \in 1..workers, Take(w)
    PROVE  PoolInv'
<1>1. /\ pc = "render" /\ pc \in Begun /\ workers' = workers /\ Jobs' = Jobs
      /\ UNCHANGED <<pc, media, free, raised>> /\ thread[w] = None
  BY JobsStay DEF Take, Begun, settings
<1>2. PICK j \in todo :
         /\ todo' = todo \ {j}
         /\ \/ /\ thread' = [thread EXCEPT ![w] = [job |-> j, written |-> 0]]
               /\ UNCHANGED <<failures, cancelled, ended>>
            \/ /\ Fails(w, IF cancelled THEN "cancelled" ELSE "space")
               /\ ended' = ended \cup {[job |-> j, ok |-> FALSE]}
  BY DEF Take
<1>3. j \in Jobs /\ j \in Clip
  BY <1>1, JobsAre DEF Inv, PoolInv, PoolOK, SelectionOK
<1>4. CASE /\ thread' = [thread EXCEPT ![w] = [job |-> j, written |-> 0]]
           /\ UNCHANGED <<failures, cancelled, ended>>
  <2> DEFINE r == [job |-> j, written |-> 0]
  <2>1. r \in Rendering /\ r.job = j
    BY <1>3 DEF Rendering
  <2> HIDE DEF r
  <2>2. /\ thread' \in [1..workers -> {None} \cup Rendering]
        /\ Busy' = Busy \cup {w} /\ thread'[w] = r
        /\ \A u \in Busy' \ {w} : thread'[u] = thread[u]
    BY <1>1, <1>4, <2>1, ThreadGets DEF Inv, PoolInv, r
  <2>3. w \notin Busy
    BY <1>1 DEF Busy
  <2>4. Taken' = Taken \cup {j}
    BY <2>1, <2>2, <2>3 DEF Taken
  <2>5. PoolOK'
    BY <1>1, <1>2, <1>3, <1>4, <2>2, <2>4 DEF Inv, PoolInv, PoolOK
  <2>6. NoneLost'
    BY <1>1, <1>2, <1>4, <2>4 DEF Inv, PoolInv, NoneLost
  <2> QED
    BY <1>1, <1>4, <2>5, <2>6 DEF Inv, PoolInv, Idle, Explained, Begun
<1>5. CASE /\ Fails(w, IF cancelled THEN "cancelled" ELSE "space")
           /\ ended' = ended \cup {[job |-> j, ok |-> FALSE]}
  <2>1. /\ failures' \in Seq(Problems) /\ cancelled'
        /\ failures # <<>> \/ ~cancelled => failures' # <<>>
        /\ thread' = [thread EXCEPT ![w] = None]
    BY <1>1, <1>5, FailsIs DEF Inv, PoolInv, Problems
  <2>2. /\ thread' \in [1..workers -> {None} \cup Rendering] /\ Taken' \subseteq Taken
    BY <1>1, <2>1, ThreadEnds DEF Inv, PoolInv
  <2> DEFINE f == [job |-> j, ok |-> FALSE]
  <2>4. f \in [job : Clip, ok : BOOLEAN] /\ ~f.ok /\ ended' = ended \cup {f}
    BY <1>3, <1>5
  <2> HIDE DEF f
  <2>3. PoolOK'
    BY <1>1, <1>2, <2>1, <2>2, <2>4 DEF Inv, PoolInv, PoolOK
  <2>5. failures' # <<>>
    BY <1>1, <2>1 DEF Inv, PoolInv, Explained
  <2> QED
    BY <1>1, <2>1, <2>3, <2>4, <2>5 DEF PoolInv, Idle, NoneLost, Explained, Begun
<1> QED
  BY <1>2, <1>4, <1>5

LEMMA WriteStep ==
    ASSUME Inv, NEW w \in 1..workers, Write(w)
    PROVE  PoolInv'
<1>1. /\ w \in Busy /\ pc \in {"render", "stop"} /\ pc \in Begun
      /\ workers' = workers /\ Jobs' = Jobs
      /\ UNCHANGED <<pc, todo, media, ended, failures, cancelled, raised>>
  BY JobsStay DEF Write, Inv, PoolInv, Idle, Begun, Busy, settings
<1>2. thread[w] \in Rendering /\ thread[w].job \in Jobs
  BY <1>1 DEF Inv, PoolInv, PoolOK, Busy, Taken
<1>3. thread[w].job.from \in Nat /\ thread[w].job.to \in Nat /\ Budget(thread[w].job) \in Nat
  <2>1. /\ thread[w].job.from \in Nat /\ thread[w].job.to \in Nat
        /\ thread[w].job.to - thread[w].job.from \in Nat
    BY <1>1, <1>2, JobsAre DEF Inv, SelectionOK, Clip
  <2>2. \A a, b \in Nat : a * b + 1 \in Nat
    OBVIOUS
  <2>3. Rate \in Nat
    BY SuperMemoryAssumption
  <2> QED
    BY <2>1, <2>2, <2>3 DEF Budget
<1>4. PICK n \in {1, Budget(thread[w].job)} :
         thread' = [thread EXCEPT ![w].written = @ + n] /\ free' = free - n
  BY DEF Write
<1> DEFINE r == [thread[w] EXCEPT !.written = @ + n]
<1>5. n \in Nat /\ r \in Rendering /\ r.job = thread[w].job /\ thread' = [thread EXCEPT ![w] = r]
  BY <1>2, <1>3, <1>4 DEF Rendering
<1> HIDE DEF r
<1>6. /\ thread' \in [1..workers -> {None} \cup Rendering]
      /\ Busy' = Busy \cup {w} /\ thread'[w] = r
      /\ \A u \in Busy' \ {w} : thread'[u] = thread[u]
  BY <1>1, <1>5, ThreadGets DEF Inv, PoolInv
<1>7. Busy' = Busy /\ Taken' = Taken
  BY <1>1, <1>5, <1>6 DEF Taken
<1>8. PoolOK'
  BY <1>1, <1>4, <1>5, <1>6, <1>7 DEF Inv, PoolInv, PoolOK
<1> QED
  BY <1>1, <1>7, <1>8 DEF Inv, PoolInv, Idle, NoneLost, Explained

LEMMA AbandonStep ==
    ASSUME Inv, NEW w \in 1..workers, Abandon(w)
    PROVE  PoolInv'
<1>1. /\ w \in Busy /\ pc \in {"render", "stop"} /\ pc \in Begun
      /\ workers' = workers /\ Jobs' = Jobs
      /\ UNCHANGED <<pc, todo, media, raised>>
  BY JobsStay DEF Abandon, Inv, PoolInv, Idle, Begun, Busy, settings
<1>2. thread[w] \in Rendering
  BY <1>1 DEF Inv, PoolInv, PoolOK, Busy
<1> DEFINE f == [job |-> thread[w].job, ok |-> FALSE]
<1>3. /\ ended' = ended \cup {f} /\ free' = free + thread[w].written
      /\ \E what \in Problems \cup {"cancelled"} :
            (what = "cancelled" => cancelled) /\ Fails(w, what)
  BY DEF Abandon, Problems
<1>4. /\ failures' \in Seq(Problems) /\ cancelled'
      /\ failures # <<>> \/ ~cancelled => failures' # <<>>
      /\ thread' = [thread EXCEPT ![w] = None]
  BY <1>1, <1>3, FailsIs DEF Inv, PoolInv
<1>5. /\ thread' \in [1..workers -> {None} \cup Rendering]
      /\ Busy' = Busy \ {w} /\ Taken' \subseteq Taken
  BY <1>1, <1>4, ThreadEnds DEF Inv, PoolInv
<1>6. f \in [job : Clip, ok : BOOLEAN] /\ ~f.ok /\ f \in ended' /\ free' \in Int
  BY <1>2, <1>3 DEF Rendering, Inv, PoolInv, PoolOK
<1> HIDE DEF f
<1>7. PoolOK'
  BY <1>1, <1>3, <1>4, <1>5, <1>6 DEF Inv, PoolInv, PoolOK
<1>8. pc = "render" \/ failures # <<>> => failures' # <<>>
  BY <1>4 DEF Inv, PoolInv, Explained
<1>9. Explained'
  BY <1>1, <1>4, <1>8 DEF Inv, PoolInv, Explained
<1> QED
  BY <1>1, <1>5, <1>6, <1>7, <1>9 DEF Inv, PoolInv, Idle, NoneLost

LEMMA RenderedStep ==
    ASSUME Inv, NEW w \in 1..workers, Rendered(w)
    PROVE  PoolInv'
<1>1. /\ w \in Busy /\ pc \in {"render", "stop"} /\ pc \in Begun
      /\ workers' = workers /\ Jobs' = Jobs
      /\ UNCHANGED <<pc, todo, free, raised>>
  BY JobsStay DEF Rendered, Inv, PoolInv, Idle, Begun, Busy, settings
<1>2. thread[w] \in Rendering
  BY <1>1 DEF Inv, PoolInv, PoolOK, Busy
<1> DEFINE f == [job |-> thread[w].job, ok |-> Room(0)]
<1>3. /\ ended' = ended \cup {f} /\ DOMAIN media' = DOMAIN media \cup {thread[w].job}
      /\ \/ /\ Room(0) /\ thread' = [thread EXCEPT ![w] = None]
            /\ UNCHANGED <<failures, cancelled>>
         \/ ~Room(0) /\ Fails(w, "space")
  BY DEF Rendered
<1>4. f \in [job : Clip, ok : BOOLEAN] /\ (f.ok <=> Room(0))
  <2>1. thread[w].job \in Clip
    BY <1>2 DEF Rendering
  <2>2. Room(0) \in BOOLEAN
    BY DEF Room
  <2> QED
    BY <2>1, <2>2
<1>5. /\ failures' \in Seq(Problems) /\ cancelled' \in BOOLEAN
      /\ thread' = [thread EXCEPT ![w] = None]
      /\ ~Room(0) => cancelled' /\ (failures # <<>> \/ ~cancelled => failures' # <<>>)
      /\ Room(0) => UNCHANGED <<failures, cancelled>>
  <2>1. CASE ~Room(0) /\ Fails(w, "space")
    BY <1>1, <2>1, FailsIs DEF Inv, PoolInv, Problems
  <2>2. CASE Room(0)
    BY <1>3, <2>2 DEF Inv, PoolInv, PoolOK
  <2> QED
    BY <1>3, <2>1, <2>2
<1>6. /\ thread' \in [1..workers -> {None} \cup Rendering]
      /\ Busy' = Busy \ {w} /\ Taken' \subseteq Taken
      /\ Taken \subseteq Taken' \cup {thread[w].job}
  BY <1>1, <1>5, ThreadEnds DEF Inv, PoolInv
<1> HIDE DEF f
<1>7. PoolOK'
  BY <1>1, <1>3, <1>4, <1>5, <1>6 DEF Inv, PoolInv, PoolOK
<1>8. NoneLost'
  BY <1>1, <1>3, <1>6 DEF Inv, PoolInv, NoneLost
<1>9. Explained'
  <2>1. CASE Room(0)
    BY <1>1, <1>3, <1>4, <1>5, <2>1 DEF Inv, PoolInv, Explained
  <2>2. CASE ~Room(0)
    <3>1. pc = "render" \/ failures # <<>> => failures' # <<>>
      BY <1>5, <2>2 DEF Inv, PoolInv, Explained
    <3> QED
      BY <1>1, <1>5, <2>2, <3>1 DEF Inv, PoolInv, Explained
  <2> QED
    BY <2>1, <2>2
<1> QED
  BY <1>1, <1>6, <1>7, <1>8, <1>9 DEF Inv, PoolInv, Idle

\* When no thread does anything, nothing of the threads changes.
LEMMA ThreadsStay ==
    ASSUME UNCHANGED <<thread, workers>>
    PROVE  Busy' = Busy /\ Taken' = Taken
<1>1. Busy' = Busy
  BY DEF Busy
<1> QED
  BY <1>1 DEF Taken

LEMMA CallerStep ==
    ASSUME Inv, Consider \/ Planned \/ Check \/ Collect \/ Interrupt \/ Stopped
    PROVE  PoolInv'
<1>1. UNCHANGED <<thread, workers>> /\ Busy' = Busy /\ Taken' = Taken
  BY ThreadsStay DEF Consider, Planned, Check, Collect, Interrupt, Stopped, settings, pool
<1>2. CASE Consider \/ Planned
  <2>1. pc \notin Begun /\ pc' \notin Begun /\ UNCHANGED pool
    BY <1>2 DEF Consider, Planned, Begun
  <2> QED
    BY <1>1, <2>1 DEF pool, Inv, PoolInv, PoolOK, Idle, NoneLost, Explained, Begun
<1>3. CASE Check
  <2>3. Jobs' = Jobs
    BY <1>3, JobsStay DEF Check
  <2>1. /\ pc = "check"
        /\ UNCHANGED <<media, ended, failures, cancelled, free, raised>>
        /\ \/ pc' = "render" /\ todo' = Jobs
           \/ pc' = "refused" /\ todo' = todo
    BY <1>3 DEF Check
  <2>2. Taken = {}
    BY <2>1 DEF Inv, PoolInv, Idle, Taken
  <2> QED
    BY <1>1, <2>1, <2>2, <2>3 DEF Inv, PoolInv, PoolOK, Idle, NoneLost, Explained, Begun
<1>4. CASE Collect
  <2>1. PICK f \in ended :
           /\ ended' = ended \ {f}
           /\ IF f.ok THEN UNCHANGED <<pc, todo, cancelled, raised>>
              ELSE /\ pc' = "stop" /\ todo' = {} /\ cancelled' = TRUE
                   /\ raised' = "error"
    BY <1>4 DEF Collect
  <2>2. pc = "render" /\ Jobs' = Jobs /\ UNCHANGED <<media, failures, free>>
    BY <1>4, JobsStay DEF Collect
  <2>3. CASE f.ok
    BY <1>1, <2>1, <2>2, <2>3 DEF Inv, PoolInv, PoolOK, Idle, NoneLost, Explained, Begun
  <2>4. CASE ~f.ok
    <3>1. failures # <<>>
      BY <2>2, <2>4 DEF Inv, PoolInv, Explained
    <3> QED
      BY <1>1, <2>1, <2>2, <2>4, <3>1 DEF Inv, PoolInv, PoolOK, Idle, NoneLost, Explained, Begun
  <2> QED
    BY <2>3, <2>4
<1>5. CASE Interrupt
  <2>1. Jobs' = Jobs
    BY <1>5, JobsStay DEF Interrupt
  <2> QED
    BY <1>1, <1>5, <2>1 DEF Interrupt, Inv, PoolInv, PoolOK, Idle, NoneLost, Explained, Begun
<1>6. CASE Stopped
  <2>1. /\ pc = "stop" /\ pc' \in {"interrupted", "failed"} /\ Jobs' = Jobs
        /\ UNCHANGED pool /\ Busy = {}
    BY <1>6, JobsStay DEF Stopped, Inv, PoolInv, PoolOK, Busy, pool
  <2>2. pc' = "failed" => raised' \in Problems
    BY <1>6, HeadTailProperties DEF Stopped, Inv, PoolInv, PoolOK, Explained
  <2> QED
    BY <1>1, <2>1, <2>2 DEF pool, Inv, PoolInv, PoolOK, Idle, NoneLost, Explained, Begun
<1> QED
  BY <1>2, <1>3, <1>4, <1>5, <1>6

LEMMA SuiteMakingStep ==
    ASSUME Inv, Build \/ BuildItem \/ Built \/ Freeze \/ Kill
    PROVE  PoolInv'
<1>1. Jobs' = Jobs
  BY JobsStay DEF Build, BuildItem, Built, Freeze, Kill
<1>2. CASE Build
  <2>1. /\ pc = "render" /\ pc' = "build" /\ todo = {} /\ ended = {}
        /\ UNCHANGED <<pool, workers>> /\ Busy = {}
    BY <1>2 DEF Build, Inv, PoolInv, PoolOK, Busy, settings
  <2>2. Jobs \subseteq DOMAIN media
    BY <2>1 DEF Inv, PoolInv, NoneLost, Taken
  <2>3. Busy' = Busy /\ Taken' = Taken
    BY <2>1, ThreadsStay DEF pool
  <2> QED
    BY <1>1, <2>1, <2>2, <2>3 DEF pool, Inv, PoolInv, PoolOK, Idle, NoneLost, Explained, Begun
<1>3. CASE BuildItem \/ Built \/ Freeze
  <2>1. UNCHANGED <<pool, workers>>
    BY <1>3 DEF BuildItem, Built, Freeze, settings
  <2>2. Busy' = Busy /\ Taken' = Taken
    BY <2>1, ThreadsStay DEF pool
  <2>3. \/ UNCHANGED <<pc, raised>>
        \/ pc = "build" /\ pc' = "freeze" /\ raised' = raised
        \/ pc = "build" /\ pc' = "failed" /\ raised' = "space"
    BY <1>3 DEF BuildItem, Built, Freeze
  <2> QED
    BY <1>1, <2>1, <2>2, <2>3
    DEF pool, Inv, PoolInv, PoolOK, Idle, NoneLost, Explained, Begun, Problems
<1>4. CASE Kill
  <2>1. /\ pc \in Begun /\ pc' = "killed" /\ todo' = {} /\ workers' = workers
        /\ thread' = [w \in 1..workers |-> None]
        /\ UNCHANGED <<media, ended, failures, cancelled, free, raised>>
    BY <1>4 DEF Kill, Begun, settings, Inv, PoolInv, PoolOK
  <2>2. Busy' = {} /\ Taken' = {}
    BY <2>1 DEF Busy, Taken
  <2> QED
    BY <1>1, <2>1, <2>2 DEF Inv, PoolInv, PoolOK, Idle, NoneLost, Explained, Begun
<1> QED
  BY <1>2, <1>3, <1>4

-----------------------------------------------------------------------------
(* The items and environments are a release.                               *)

LEMMA AppendIs ==
    ASSUME NEW s, IsList(s), NEW e
    PROVE  /\ IsList(Append(s, e)) /\ ToSet(Append(s, e)) = ToSet(s) \cup {e}
           /\ Len(s) \in Nat /\ DOMAIN s = 1..Len(s)
           /\ DOMAIN Append(s, e) = 1..(Len(s) + 1)
           /\ Append(s, e)[Len(s) + 1] = e
           /\ \A k \in 1..Len(s) : Append(s, e)[k] = s[k]
<1> DEFINE T == ToSet(s) \cup {e}
<1>1. s \in Seq(T)
  BY SeqMonotonic DEF IsList
<1> HIDE DEF T
<1>2. e \in T
  BY DEF T
<1>3. /\ Append(s, e) \in Seq(T) /\ Len(s) \in Nat /\ DOMAIN s = 1..Len(s)
      /\ DOMAIN Append(s, e) = 1..(Len(s) + 1)
      /\ Append(s, e)[Len(s) + 1] = e
      /\ \A k \in 1..Len(s) : Append(s, e)[k] = s[k]
  BY <1>1, <1>2
<1>4. ToSet(Append(s, e)) = ToSet(s) \cup {e}
  <2>1. \A k \in 1..Len(s) : k \in 1..(Len(s) + 1)
    BY <1>3
  <2>2. Len(s) + 1 \in 1..(Len(s) + 1)
    BY <1>3
  <2>3. \A k \in 1..(Len(s) + 1) : k \in 1..Len(s) \/ k = Len(s) + 1
    BY <1>3
  <2> QED
    BY <1>3, <2>1, <2>2, <2>3 DEF ToSet
<1> QED
  BY <1>3, <1>4 DEF IsList, T

LEMMA BuildItemStep ==
    ASSUME IsRelease(release), BuildItem
    PROVE  IsRelease(release')
<1> DEFINE x == Len(release.items) + 1
           env == EnvOf(x)
           item == [id |-> x, env |-> env, spans |-> Spans(selected[x].row, env)]
<1>1. release' = [items |-> Append(release.items, item),
                  envs |-> IF env \in ToSet(release.envs) THEN release.envs
                           ELSE Append(release.envs, env)]
  BY DEF BuildItem
<1>2. item.env = env
  OBVIOUS
<1> HIDE DEF item, env
<1>3. /\ IsList(release.items) /\ IsList(release.envs)
      /\ \A k \in DOMAIN release.items : release.items[k].env \in ToSet(release.envs)
      /\ \A k \in DOMAIN release.envs :
            \E i \in DOMAIN release.items : release.items[i].env = release.envs[k]
      /\ \A j, k \in DOMAIN release.envs : release.envs[j] = release.envs[k] => j = k
  BY DEF IsRelease
<1>4. /\ IsList(Append(release.items, item)) /\ Len(release.items) \in Nat
      /\ DOMAIN release.items = 1..Len(release.items)
      /\ DOMAIN Append(release.items, item) = 1..x
      /\ Append(release.items, item)[x] = item
      /\ \A k \in 1..Len(release.items) : Append(release.items, item)[k] = release.items[k]
  BY <1>3, AppendIs
<1>5. CASE env \in ToSet(release.envs)
  <2>1. release'.items = Append(release.items, item) /\ release'.envs = release.envs
    BY <1>1, <1>5
  <2>2. \A k \in 1..x : Append(release.items, item)[k].env \in ToSet(release.envs)
    BY <1>2, <1>3, <1>4, <1>5
  <2>3. \A k \in DOMAIN release.envs :
           \E i \in 1..x : Append(release.items, item)[i].env = release.envs[k]
    BY <1>3, <1>4
  <2> QED
    BY <1>3, <1>4, <2>1, <2>2, <2>3 DEF IsRelease
<1>6. CASE env \notin ToSet(release.envs)
  <2> DEFINE n == Len(release.envs) + 1
  <2>1. release'.items = Append(release.items, item) /\ release'.envs = Append(release.envs, env)
    BY <1>1, <1>6
  <2>2. /\ IsList(Append(release.envs, env))
        /\ ToSet(Append(release.envs, env)) = ToSet(release.envs) \cup {env}
        /\ Len(release.envs) \in Nat /\ DOMAIN release.envs = 1..Len(release.envs)
        /\ DOMAIN Append(release.envs, env) = 1..n
        /\ Append(release.envs, env)[n] = env
        /\ \A k \in 1..Len(release.envs) : Append(release.envs, env)[k] = release.envs[k]
    BY <1>3, AppendIs
  <2>3. \A k \in 1..x : Append(release.items, item)[k].env \in ToSet(Append(release.envs, env))
    BY <1>2, <1>3, <1>4, <2>2
  <2>4. \A k \in 1..n :
           \E i \in 1..x : Append(release.items, item)[i].env = Append(release.envs, env)[k]
    <3>1. \E i \in 1..x : Append(release.items, item)[i].env = env
      BY <1>2, <1>4
    <3>2. \A k \in 1..Len(release.envs) :
             \E i \in 1..x : Append(release.items, item)[i].env = release.envs[k]
      BY <1>3, <1>4, <2>2
    <3>3. \A k \in 1..n : k \in 1..Len(release.envs) \/ k = n
      BY <2>2
    <3> QED
      BY <2>2, <3>1, <3>2, <3>3
  <2>5. \A j, k \in 1..n : Append(release.envs, env)[j] = Append(release.envs, env)[k] => j = k
    <3>1. \A k \in 1..Len(release.envs) : release.envs[k] # env
      BY <1>6, <2>2 DEF ToSet
    <3> QED
      BY <1>3, <2>2, <3>1
  <2> QED
    BY <1>4, <2>1, <2>2, <2>3, <2>4, <2>5 DEF IsRelease
<1> QED
  BY <1>5, <1>6

\* While nothing is written, whatever is to be released.
LEMMA NothingIsRead ==
    ASSUME SuiteInv, writer = "off", writer' \in {"off", "items", "killed"},
           UNCHANGED <<files, loader>>, writer' = "items" => IsRelease(release')
    PROVE  SuiteInv'
<1>1. /\ items = None /\ envs = None /\ manifest = None
      /\ items' = None /\ envs' = None /\ manifest' = None
      /\ loader.pc \in {"off", "refused"} /\ loader' = loader
  BY DEF SuiteInv, FilesInOrder, LoaderReads, files
<1>2. FilesInOrder'
  BY <1>1 DEF FilesInOrder
<1>3. LoaderReads' /\ LoadedIsWhole'
  BY <1>1 DEF SuiteInv, LoaderReads, LoadedIsWhole
<1> QED
  BY <1>1, <1>2, <1>3 DEF SuiteInv

LEMMA SuiteStays ==
    ASSUME SuiteInv, UNCHANGED suiteVars
    PROVE  SuiteInv'
<1>1. UNCHANGED <<release, writer, items, envs, manifest, loader>>
  BY DEF suiteVars, files
<1>2. AllItems' = AllItems /\ AllEnvs' = AllEnvs
  BY <1>1 DEF AllItems, AllEnvs
<1> QED
  BY <1>1, <1>2 DEF SuiteInv, FilesInOrder, LoaderReads, LoadedIsWhole

LEMMA ReleaseStep ==
    ASSUME Inv, Next
    PROVE  Released' /\ SuiteInv'
<1>1. CASE Consider \/ Planned \/ Check \/ Collect \/ Interrupt \/ Stopped
           \/ \E w \in 1..workers : Take(w) \/ Write(w) \/ Abandon(w) \/ Rendered(w)
  <2>1. /\ UNCHANGED suiteVars
        /\ \/ pc' = pc
           \/ /\ pc \in {"plan", "check", "render", "stop"}
              /\ pc' \in {"none", "check", "render", "refused", "stop", "interrupted", "failed"}
    BY <1>1 DEF Consider, Planned, Check, Collect, Interrupt, Stopped, Take, Write, Abandon, Rendered
  <2>2. Released'
    BY <2>1 DEF suiteVars, Inv, Released
  <2> QED
    BY <2>1, <2>2, SuiteStays DEF Inv
<1>2. CASE Build
  <2>1. /\ pc = "render" /\ pc' = "build" /\ UNCHANGED <<writer, files, loader>>
        /\ release' = [items |-> <<>>, envs |-> <<>>]
    BY <1>2 DEF Build
  <2>2. writer = "off"
    BY <2>1 DEF Inv, Released
  <2>3. IsRelease(release')
    BY <2>1 DEF IsRelease, IsList
  <2> QED
    BY <2>1, <2>2, <2>3, NothingIsRead DEF Inv, Released
<1>3. CASE BuildItem
  <2>1. pc = "build" /\ pc' = "build" /\ UNCHANGED <<writer, files, loader>>
    BY <1>3 DEF BuildItem
  <2>2. writer = "off" /\ IsRelease(release)
    BY <2>1 DEF Inv, Released
  <2>3. IsRelease(release')
    BY <1>3, <2>2, BuildItemStep
  <2> QED
    BY <2>1, <2>2, <2>3, NothingIsRead DEF Inv, Released
<1>4. CASE Built
  <2>1. /\ pc = "build" /\ UNCHANGED <<release, files, loader>>
        /\ \/ pc' = "freeze" /\ writer' = "items"
           \/ pc' = "failed" /\ writer' = writer
    BY <1>4, OrderedIs DEF Built
  <2>2. writer = "off" /\ IsRelease(release)
    BY <2>1 DEF Inv, Released
  <2> QED
    BY <2>1, <2>2, NothingIsRead DEF Inv, Released
<1>5. CASE Freeze
  <2>1. SuiteInv'
    BY <1>5, SuiteStep DEF Freeze, Inv
  <2>2. pc' = pc /\ release' = release
    BY <1>5 DEF Freeze, SuiteNext, WriteItems, WriteEnvs, WriteManifest,
                ReadItems, ReadEnvs, ReadManifest, Filter, Retry
  <2>3. \/ writer' = writer
        \/ /\ writer \in {"items", "envs", "manifest"}
           /\ writer' \in {"items", "envs", "manifest", "done"}
    BY <1>5, OrderedIs DEF Freeze, SuiteNext, WriteItems, WriteEnvs, WriteManifest,
                ReadItems, ReadEnvs, ReadManifest, Filter, Retry
  <2> QED
    BY <2>1, <2>2, <2>3 DEF Inv, Released
<1>6. CASE Kill
  <2>1. /\ pc' = "killed" /\ writer' = "killed" /\ UNCHANGED <<release, files, loader>>
    BY <1>6 DEF Kill
  <2>2. AllItems' = AllItems /\ AllEnvs' = AllEnvs
    BY <2>1 DEF AllItems, AllEnvs
  <2>3. FilesInOrder'
    BY <2>1, <2>2 DEF Inv, SuiteInv, FilesInOrder, files
  <2>4. LoaderReads' /\ LoadedIsWhole'
    BY <2>1, <2>2 DEF Inv, SuiteInv, LoaderReads, LoadedIsWhole, files
  <2>5. SuiteInv'
    BY <2>1, <2>3, <2>4 DEF Inv, SuiteInv, files
  <2> QED
    BY <2>1, <2>5 DEF Released
<1> QED
  BY <1>1, <1>2, <1>3, <1>4, <1>5, <1>6 DEF Next

LEMMA MeasuredIs ==
    ASSUME SelectionOK, Valid
    PROVE  Timed
<1> SUFFICES ASSUME NEW v \in Used PROVE duration[v] \in Nat
  BY DEF Timed
<1>1. duration[v] # None
  BY DEF Valid
<1>2. PICK x \in DOMAIN selected : \E r \in ToSet(selected[x].recordings) : v = r.video
  BY DEF Used
<1>3. selected[x] \in Example
  BY DEF SelectionOK
<1>4. ToSet(selected[x].recordings) \subseteq Recording
  BY <1>3 DEF Example, ToSet
<1>5. v \in Videos
  BY <1>2, <1>4 DEF Recording
<1> QED
  BY <1>1, <1>5, SuperMemoryAssumption DEF SelectionOK

LEMMA SelectedStep ==
    ASSUME SelectionOK, Next
    PROVE  SelectionOK'
<1>1. CASE Consider
  BY <1>1, SelectionStep
<1>2. CASE Check
  <2>1. pc = "check" /\ UNCHANGED <<planVars, settings>> /\ pc' \in {"render", "refused"}
    BY <1>2 DEF Check
  <2>2. Used' = Used
    BY <2>1, JobsStay
  <2>3. pc' = "render" => Timed
    BY <1>2, MeasuredIs DEF Check
  <2> QED
    BY <2>1, <2>2, <2>3 DEF SelectionOK, Timed, planVars, settings, Begun
<1>3. CASE ~Consider /\ ~Check
  <2>1. UNCHANGED <<planVars, settings>>
    BY <1>3 DEF Next, Planned, Take, Write, Abandon, Rendered, Collect, Interrupt, Stopped,
                Build, BuildItem, Built, Freeze, Kill
  <2>2. /\ pc' \in {pc, "none", "check"} \cup Begun
        /\ pc' \in Begun => pc \in Begun
    BY <1>3 DEF Next, Planned, Take, Write, Abandon, Rendered, Collect, Interrupt, Stopped,
                Build, BuildItem, Built, Freeze, Kill, Begun
  <2> QED
    BY <2>1, <2>2, SelectionStays DEF SelectionOK
<1> QED
  BY <1>1, <1>2, <1>3

LEMMA InvInit ==
    ASSUME Init
    PROVE  Inv
<1>1. SelectionOK
  <2>1. rows \in Seq(Annotation)
    BY SuperMemoryAssumption DEF Init
  <2>2. Used = {}
    BY DEF Init, Used
  <2> QED
    BY <2>1, <2>2 DEF Init, SelectionOK, Begun
<1>2. PoolInv
  <2>1. Busy = {}
    BY DEF Init, Busy
  <2>2. free \in Int
    BY SuperMemoryAssumption DEF Init
  <2>3. <<>> \in Seq(Problems)
    OBVIOUS
  <2>4. PoolOK
    BY <2>2, <2>3 DEF Init, PoolOK, Begun
  <2> QED
    BY <2>1, <2>4 DEF Init, PoolInv, Idle, NoneLost, Explained, Begun
<1>3. Released
  BY DEF Init, SuiteInit, Released
<1>4. SuiteInv
  BY DEF Init, SuiteInit, SuiteInv, FilesInOrder, LoaderReads, LoadedIsWhole
<1> QED
  BY <1>1, <1>2, <1>3, <1>4 DEF Inv

LEMMA InvStep ==
    ASSUME Inv, [Next]_vars
    PROVE  Inv'
<1>1. CASE Next
  <2>1. PoolInv'
    BY <1>1, TakeStep, WriteStep, AbandonStep, RenderedStep, CallerStep, SuiteMakingStep DEF Next
  <2> QED
    BY <1>1, <2>1, SelectedStep, ReleaseStep DEF Inv
<1>2. CASE UNCHANGED vars
  <2>1. UNCHANGED <<planVars, settings, pool, pc, raised, suiteVars>>
    BY <1>2 DEF vars
  <2>2. SuiteInv'
    BY <2>1, SuiteStays DEF Inv
  <2>3. SelectionOK'
    BY <2>1, SelectionStays DEF Inv, SelectionOK
  <2>4. Jobs' = Jobs
    BY <2>1, JobsStay
  <2>5. UNCHANGED <<workers, thread>> /\ Busy' = Busy /\ Taken' = Taken
    BY <2>1, ThreadsStay DEF settings, pool
  <2>6. PoolInv'
    BY <2>1, <2>4, <2>5 DEF pool, Inv, PoolInv, PoolOK, Idle, NoneLost, Explained
  <2> QED
    BY <2>1, <2>2, <2>3, <2>6 DEF Inv, Released, suiteVars
<1> QED
  BY <1>1, <1>2

\* The invariant, and what it says of the values a variable has.
THEOREM Invariance == Spec => []Inv
<1>1. Init => Inv
  BY InvInit
<1>2. Inv /\ [Next]_vars => Inv'
  BY InvStep
<1> QED
  BY <1>1, <1>2, PTL DEF Spec

\* Whatever load_suite accepts, while a release is written or after its writer
\* was killed anywhere, is the whole release, or marked as a part of it.
THEOREM LoadsAreWhole == Spec => []LoadedIsWhole
<1>1. Inv => LoadedIsWhole
  BY DEF Inv, SuiteInv
<1> QED
  BY <1>1, Invariance, PTL

\* No thread is at work when the pool's caller goes on, the error raised is the
\* first one, and nothing is frozen that has a clip missing.
THEOREM PoolsEndClean == Spec => []PoolEndsClean
<1>1. Inv => PoolEndsClean
  <2> SUFFICES ASSUME Inv PROVE PoolEndsClean
    OBVIOUS
  <2>1. DOMAIN thread = 1..workers
    BY DEF Inv, PoolInv, PoolOK
  <2>2. pc \in Over => Busy = {}
    BY DEF Inv, PoolInv, Idle, Over
  <2> QED
    BY <2>1, <2>2 DEF Inv, PoolInv, NoneLost, Explained, PoolEndsClean, Busy, Problems
<1> QED
  BY <1>1, Invariance, PTL

-----------------------------------------------------------------------------
(* What clips need together. MapThenSumSet is defined by recursion over the *)
(* subsets of a set, so each of these lemmas looks at a smallest set that   *)
(* would not be as it says.                                                 *)

Some(clips) == CHOOSE c \in clips : TRUE

\* f sums the budgets of each subset of S.
Sums(f, S) ==
    f = [s \in SUBSET S |-> IF s = {} THEN 0 ELSE Budget(Some(s)) + f[s \ {Some(s)}]]

\* A smallest one of some subsets of a finite set.
LEMMA SmallestIs ==
    ASSUME NEW S, IsFiniteSet(S), NEW Bad \in SUBSET SUBSET S, Bad # {}
    PROVE  \E T \in Bad : \A U \in SUBSET T : U # T => U \notin Bad
<1>1. Bad \subseteq FiniteSubsetsOf(S)
  BY FS_FiniteSubsetsOfFinite
<1>2. PICK T \in Bad : \A U \in Bad : <<U, T>> \notin StrictSubsetOrdering(S)
  BY <1>1, FS_StrictSubsetOrderingWellFounded, WFMin
<1>3. ASSUME NEW U \in SUBSET T, U # T, U \in Bad PROVE FALSE
  <2>1. <<U, T>> \in StrictSubsetOrdering(S)
    BY <1>3 DEF StrictSubsetOrdering
  <2> QED
    BY <1>2, <1>3, <2>1
<1> QED
  BY <1>3

LEMMA TotalIs == ASSUME NEW S PROVE Total(S) = (CHOOSE f : Sums(f, S))[S]
BY Zenon DEF Total, MapThenSumSet, MapThenFoldSet, Sums, Some

LEMMA SumsAgree ==
    ASSUME NEW S, IsFiniteSet(S), NEW T \in SUBSET S, NEW f, Sums(f, S), NEW g, Sums(g, T)
    PROVE  f[T] = g[T]
<1> DEFINE Bad == {s \in SUBSET T : f[s] # g[s]}
<1>1. IsFiniteSet(T)
  BY FS_Subset
<1> SUFFICES ASSUME Bad # {} PROVE FALSE
  OBVIOUS
<1>2. PICK s \in Bad : \A u \in SUBSET s : u # s => u \notin Bad
  <2>1. Bad \in SUBSET SUBSET T
    OBVIOUS
  <2> HIDE DEF Bad
  <2> QED
    BY <1>1, <2>1, SmallestIs
<1>3. /\ f[s] = IF s = {} THEN 0 ELSE Budget(Some(s)) + f[s \ {Some(s)}]
      /\ g[s] = IF s = {} THEN 0 ELSE Budget(Some(s)) + g[s \ {Some(s)}]
  BY Zenon DEF Sums
<1>4. s # {}
  BY <1>3
<1>5. Some(s) \in s
  BY <1>4 DEF Some
<1>6. f[s \ {Some(s)}] = g[s \ {Some(s)}]
  BY <1>2, <1>5
<1> QED
  BY <1>3, <1>4, <1>6

LEMMA SumsExist ==
    ASSUME NEW S, IsFiniteSet(S)
    PROVE  \E f : Sums(f, S)
<1> DEFINE Bad == {s \in SUBSET S : ~ \E f : Sums(f, s)}
<1> SUFFICES ASSUME Bad # {} PROVE FALSE
  OBVIOUS
<1>1. PICK T \in Bad : \A u \in SUBSET T : u # T => u \notin Bad
  <2>1. Bad \in SUBSET SUBSET S
    OBVIOUS
  <2> HIDE DEF Bad
  <2> QED
    BY <2>1, SmallestIs
<1>2. \A u \in SUBSET T : u # T => \E f : Sums(f, u)
  BY <1>1
<1>3. ~ \E f : Sums(f, T)
  BY <1>1
<1> DEFINE F(s) == CHOOSE f : Sums(f, s)
           rest(s) == s \ {Some(s)}
           g == [s \in SUBSET T |-> IF s = {} THEN 0 ELSE Budget(Some(s)) + F(rest(s))[rest(s)]]
<1>4. \A u \in SUBSET T : u # T => Sums(F(u), u)
  BY <1>2
<1>5. ASSUME NEW s \in SUBSET T, s # {}
      PROVE  rest(s) \in SUBSET T /\ rest(s) # T /\ rest(s) \in SUBSET s
  <2>1. Some(s) \in s
    BY <1>5 DEF Some
  <2> QED
    BY <2>1
<1>6. ASSUME NEW s \in SUBSET T, s # {} PROVE g[rest(s)] = F(rest(s))[rest(s)]
  <2> DEFINE r == rest(s)
  <2>1. r \in SUBSET T /\ r # T /\ Sums(F(r), r)
    BY <1>4, <1>5, <1>6
  <2>2. F(r)[r] = IF r = {} THEN 0 ELSE Budget(Some(r)) + F(r)[rest(r)]
    <3> HIDE DEF r, F
    <3>1. r \in SUBSET r
      OBVIOUS
    <3> QED
      BY <2>1, <3>1, Zenon DEF Sums
  <2>3. CASE r = {}
    BY <2>1, <2>2, <2>3
  <2>4. CASE r # {}
    <3>1. rest(r) \in SUBSET T /\ rest(r) # T /\ rest(r) \in SUBSET r
      BY <1>5, <2>1, <2>4
    <3>2. Sums(F(rest(r)), rest(r))
      BY <1>4, <3>1
    <3>3. IsFiniteSet(r)
      BY <2>1, FS_Subset
    <3>4. F(r)[rest(r)] = F(rest(r))[rest(r)]
      <4> HIDE DEF r, F, rest
      <4> QED
        BY <2>1, <3>1, <3>2, <3>3, SumsAgree
    <3>5. g[r] = Budget(Some(r)) + F(rest(r))[rest(r)]
      BY <2>1, <2>4
    <3>6. g[r] = F(r)[r]
      <4> HIDE DEF r, F, g
      <4> QED
        BY <2>2, <2>4, <3>4, <3>5
    <3> HIDE DEF F, g
    <3> QED
      BY <3>6
  <2> QED
    BY <2>3, <2>4
<1>7. Sums(g, T)
  <2>1. \A s \in SUBSET T : (IF s = {} THEN 0 ELSE Budget(Some(s)) + F(rest(s))[rest(s)])
                         = (IF s = {} THEN 0 ELSE Budget(Some(s)) + g[rest(s)])
    <3> HIDE DEF g, F, rest
    <3> QED
      BY <1>6
  <2>2. g = [s \in SUBSET T |-> IF s = {} THEN 0 ELSE Budget(Some(s)) + g[rest(s)]]
    <3> DEFINE a(s) == IF s = {} THEN 0 ELSE Budget(Some(s)) + F(rest(s))[rest(s)]
               b(s) == IF s = {} THEN 0 ELSE Budget(Some(s)) + g[rest(s)]
    <3>1. g = [s \in SUBSET T |-> a(s)]
      OBVIOUS
    <3>2. \A s \in SUBSET T : a(s) = b(s)
      BY <2>1
    <3> HIDE DEF g, a, b
    <3>3. g = [s \in SUBSET T |-> b(s)]
      BY <3>1, <3>2
    <3> QED
      BY <3>3 DEF b
  <2> HIDE DEF g
  <2> QED
    BY <2>2 DEF Sums
<1> QED
  BY <1>3, <1>7

LEMMA TotalStep ==
    ASSUME NEW S, IsFiniteSet(S)
    PROVE  /\ S = {} => Total(S) = 0
           /\ S # {} => Total(S) = Budget(Some(S)) + Total(S \ {Some(S)})
<1> DEFINE f == CHOOSE f : Sums(f, S)
<1>1. Sums(f, S)
  BY SumsExist
<1>2. Total(S) = f[S]
  BY TotalIs
<1> HIDE DEF f
<1>3. f[S] = IF S = {} THEN 0 ELSE Budget(Some(S)) + f[S \ {Some(S)}]
  <2>1. S \in SUBSET S
    OBVIOUS
  <2> QED
    BY <1>1, <2>1, Zenon DEF Sums
<1>4. S # {} => f[S \ {Some(S)}] = Total(S \ {Some(S)})
  <2> DEFINE T == S \ {Some(S)}
             g == CHOOSE g : Sums(g, T)
  <2>1. T \in SUBSET S
    OBVIOUS
  <2>2. IsFiniteSet(T)
    BY <2>1, FS_Subset
  <2>3. Sums(g, T) /\ Total(T) = g[T]
    <3> HIDE DEF T
    <3> QED
      BY <2>2, SumsExist, TotalIs
  <2> HIDE DEF T, g
  <2>4. f[T] = g[T]
    BY <1>1, <2>1, <2>3, SumsAgree
  <2> QED
    BY <2>3, <2>4 DEF T
<1> QED
  BY <1>2, <1>3, <1>4

\* The sum is a number, and takes each clip once, in whatever order.
LEMMA TotalAdds ==
    ASSUME NEW S, IsFiniteSet(S), \A c \in S : Budget(c) \in Nat
    PROVE  /\ Total(S) \in Nat
           /\ \A c \in S : Total(S) = Budget(c) + Total(S \ {c})
<1> DEFINE Good(s) == /\ Total(s) \in Nat
                      /\ \A c \in s : Total(s) = Budget(c) + Total(s \ {c})
           Bad == {s \in SUBSET S : ~Good(s)}
<1> SUFFICES ASSUME Bad # {} PROVE FALSE
  OBVIOUS
<1>1. PICK s \in Bad : \A u \in SUBSET s : u # s => u \notin Bad
  <2>1. Bad \in SUBSET SUBSET S
    OBVIOUS
  <2> HIDE DEF Bad
  <2> QED
    BY <2>1, SmallestIs
<1>2. \A u \in SUBSET s : u # s => Good(u)
  <2> HIDE DEF Good
  <2> QED
    BY <1>1
<1>3. IsFiniteSet(s) /\ s \in SUBSET S /\ ~Good(s)
  <2> HIDE DEF Good
  <2> QED
    BY <1>1, FS_Subset
<1>4. s # {}
  BY <1>3, TotalStep
<1> DEFINE p == Some(s)
<1>5. p \in s /\ Total(s) = Budget(p) + Total(s \ {p})
  BY <1>3, <1>4, TotalStep DEF Some
<1> HIDE DEF p
<1>6. Good(s \ {p}) /\ Budget(p) \in Nat
  BY <1>2, <1>3, <1>5
<1>7. ASSUME NEW c \in s PROVE Total(s) = Budget(c) + Total(s \ {c})
  <2>1. CASE c = p
    BY <1>5, <2>1
  <2>2. CASE c # p
    <3>1. c \in s \ {p} /\ p \in s \ {c} /\ Good(s \ {c}) /\ Budget(c) \in Nat
      BY <1>2, <1>3, <1>5, <2>2
    <3>2. Total(s \ {p}) = Budget(c) + Total((s \ {p}) \ {c})
      BY <1>6, <3>1
    <3>3. Total(s \ {c}) = Budget(p) + Total((s \ {c}) \ {p})
      BY <3>1
    <3>4. (s \ {p}) \ {c} = (s \ {c}) \ {p}
      OBVIOUS
    <3>5. Total((s \ {p}) \ {c}) \in Nat
      <4>1. (s \ {p}) \ {c} \in SUBSET s /\ (s \ {p}) \ {c} # s
        BY <1>5
      <4> QED
        BY <1>2, <4>1
    <3> DEFINE rest == (s \ {p}) \ {c}
    <3>6. /\ Total(s) = Budget(p) + (Budget(c) + Total(rest))
          /\ Total(s \ {c}) = Budget(p) + Total(rest)
          /\ Total(rest) \in Nat
      BY <1>5, <3>2, <3>3, <3>4, <3>5
    <3> HIDE DEF rest
    <3> QED
      BY <1>6, <3>1, <3>6
  <2> QED
    BY <2>1, <2>2
<1>8. Total(s) \in Nat
  BY <1>5, <1>6
<1> QED
  BY <1>3, <1>7, <1>8

LEMMA BudgetIs ==
    ASSUME SelectionOK, Timed, NEW j \in Jobs
    PROVE  Budget(j) \in Nat \ {0}
<1>1. j.to - j.from \in Nat
  BY JobsAre DEF Clip
<1>2. \A a, b \in Nat : a * b + 1 \in Nat \ {0}
  OBVIOUS
<1>3. Rate \in Nat
  BY SuperMemoryAssumption
<1> QED
  BY <1>1, <1>2, <1>3 DEF Budget

\* What is reserved is enough for as many clips as there are threads.
LEMMA ReservationIs ==
    ASSUME SelectionOK, Timed, NEW some \in SUBSET Jobs, Cardinality(some) <= workers,
           NEW j \in some
    PROVE  Reservation(j) \in Nat /\ Total(some) <= Reservation(j)
<1>1. IsFiniteSet(Jobs) /\ \A c \in Jobs : Budget(c) \in Nat
  BY JobsAre, BudgetIs
<1>2. \A s \in SUBSET Jobs : IsFiniteSet(s) /\ Total(s) \in Nat
  <2> SUFFICES ASSUME NEW s \in SUBSET Jobs PROVE IsFiniteSet(s) /\ Total(s) \in Nat
    OBVIOUS
  <2>1. IsFiniteSet(s)
    BY <1>1, FS_Subset
  <2> QED
    BY <1>1, <2>1, TotalAdds
<1>3. workers \in Nat /\ workers > 0
  BY SuperMemoryAssumption DEF SelectionOK
<1>4. CASE workers = 1
  <2>1. Cardinality(some) = 1
    <3>1. Cardinality(some) \in Nat /\ Cardinality(some) # 0
      BY <1>2, FS_CardinalityType, FS_EmptySet
    <3> QED
      BY <1>4, <3>1
  <2>2. some = {j}
    BY <1>2, <2>1, FS_Singleton
  <2>3. Total({j}) = Budget(j) + Total({}) /\ Total({}) = 0
    <3>1. IsFiniteSet({j}) /\ IsFiniteSet({}) /\ {j} \ {j} = {}
      BY FS_Singleton, FS_EmptySet
    <3>2. \A c \in {j} : Budget(c) \in Nat
      BY <1>1
    <3>3. Total({}) = 0
      BY <3>1, TotalStep
    <3>4. Total({j}) = Budget(j) + Total({j} \ {j})
      BY <3>1, <3>2, TotalAdds
    <3> QED
      BY <3>1, <3>3, <3>4
  <2> QED
    BY <1>1, <1>4, <2>2, <2>3 DEF Reservation
<1>5. CASE workers # 1
  <2> DEFINE few == {js \in SUBSET Jobs : Cardinality(js) <= workers}
             sums == {Total(js) : js \in few}
             f == [js \in few |-> Total(js)]
  <2>1. IsFiniteSet(SUBSET Jobs)
    BY <1>1, FS_SUBSET
  <2>2. IsFiniteSet(few)
    BY <2>1, FS_Subset
  <2>3. IsFiniteSet(sums)
    <3>1. DOMAIN f = few /\ {f[js] : js \in few} = sums
      OBVIOUS
    <3> HIDE DEF f, few, sums
    <3> QED
      BY <2>2, <3>1, ValuesAreFinite
  <2>4. Total(some) \in sums /\ sums \in SUBSET Nat
    BY <1>2
  <2>5. Max(sums) \in sums /\ \A y \in sums : y <= Max(sums)
    <3> HIDE DEF sums
    <3> QED
      BY <2>3, <2>4, MaxIs
  <2>6. Reservation(j) = Max(sums)
    BY <1>5 DEF Reservation, Total
  <2> HIDE DEF sums
  <2> QED
    BY <2>4, <2>5, <2>6
<1> QED
  BY <1>4, <1>5

\* So many threads have at most so many clips.
LEMMA ThreadsBound ==
    ASSUME NEW n \in Nat, NEW W \in SUBSET (1..n), NEW f
    PROVE  Cardinality({f[w].job : w \in W}) <= n
<1> DEFINE T == {f[w].job : w \in W}
           g == [w \in W |-> f[w].job]
<1>1. IsFiniteSet(1..n) /\ Cardinality(1..n) = n
  BY FS_Interval
<1>2. IsFiniteSet(W) /\ Cardinality(W) <= n
  BY <1>1, FS_Subset
<1>3. g \in Surjection(W, T)
  BY DEF Surjection
<1>4. IsFiniteSet(T) /\ Cardinality(T) <= Cardinality(W)
  <2> HIDE DEF g, T
  <2> QED
    BY <1>2, <1>3, FS_Surjection
<1>5. Cardinality(T) \in Nat /\ Cardinality(W) \in Nat
  BY <1>2, <1>4, FS_CardinalityType
<1> QED
  BY <1>2, <1>4, <1>5

LEMMA PendingIs ==
    ASSUME Inv, pc \in {"render", "stop"}
    PROVE  /\ Pending \in SUBSET Jobs /\ IsFiniteSet(Pending) /\ Total(Pending) \in Nat
           /\ \A c \in Pending : Total(Pending) = Budget(c) + Total(Pending \ {c})
           /\ \A c : Total(Pending \ {c}) \in Nat /\ Total(Pending \ {c}) <= Total(Pending)
<1>1. SelectionOK /\ Timed /\ Pending \in SUBSET Jobs
  BY DEF Inv, PoolInv, PoolOK, SelectionOK, Begun, Pending, Taken
<1>2. IsFiniteSet(Pending) /\ \A c \in Pending : Budget(c) \in Nat
  BY <1>1, JobsAre, BudgetIs, FS_Subset
<1>3. /\ Total(Pending) \in Nat
      /\ \A c \in Pending : Total(Pending) = Budget(c) + Total(Pending \ {c})
  BY <1>2, TotalAdds
<1>4. ASSUME NEW c PROVE Total(Pending \ {c}) \in Nat /\ Total(Pending \ {c}) <= Total(Pending)
  <2>1. IsFiniteSet(Pending \ {c})
    BY <1>2, FS_Subset
  <2>2. Total(Pending \ {c}) \in Nat
    BY <1>2, <2>1, TotalAdds
  <2>3. CASE c \in Pending
    BY <1>2, <1>3, <2>2, <2>3
  <2>4. CASE c \notin Pending
    <3>1. Pending \ {c} = Pending
      BY <2>4
    <3> QED
      BY <1>3, <3>1
  <2> QED
    BY <2>2, <2>3, <2>4
<1> QED
  BY <1>1, <1>2, <1>3, <1>4

\* A thread has begun to write, or ended: its clip is not pending any more.
LEMMA PendingLoses ==
    ASSUME Once, NEW w \in Busy, Busy' \in {Busy, Busy \ {w}},
           \A u \in Busy \ {w} : thread'[u] = thread[u],
           w \in Busy' => thread'[w].written # 0
    PROVE  Pending' = Pending \ {thread[w].job}
<1>1. {u \in Busy' : thread'[u].written = 0} = {u \in Busy : thread[u].written = 0} \ {w}
  OBVIOUS
<1>2. Pending' = {thread'[u].job : u \in {u \in Busy : thread[u].written = 0} \ {w}}
  BY <1>1 DEF Pending
<1> QED
  BY <1>2 DEF Once, Pending

LEMMA ReserveStep ==
    ASSUME Inv, Reserved, NEW w \in 1..workers, Take(w) \/ Write(w) \/ Abandon(w) \/ Rendered(w)
    PROVE  Reserved'
<1>1. /\ pc \in {"render", "stop"} /\ pc \in Begun /\ pc' = pc
      /\ workers' = workers /\ Jobs' = Jobs
  BY JobsStay DEF Take, Write, Abandon, Rendered, Inv, PoolInv, Idle, Busy, Begun, settings
<1>2. /\ PoolOK /\ SelectionOK /\ Timed /\ workers \in Nat
      /\ free \in Int /\ MinFree \in Nat /\ Total(Pending) \in Nat
      /\ Once /\ free - Total(Pending) >= MinFree
  BY <1>1, PendingIs, SuperMemoryAssumption DEF Inv, PoolInv, PoolOK, SelectionOK, Reserved
<1> SUFFICES /\ Once' /\ Total(Pending') \in Nat /\ free' \in Int
             /\ free' - Total(Pending') >= MinFree
  <2>1. Total(Pending)' = Total(Pending')
    OBVIOUS
  <2>2. free' >= MinFree
    BY <1>2
  <2> QED
    BY <1>1, <2>1, <2>2 DEF Reserved
<1>3. CASE Take(w)
  <2>1. thread[w] = None /\ free' = free /\ w \notin Busy
    BY <1>3 DEF Take, Busy
  <2>2. PICK j \in todo :
           /\ todo' = todo \ {j}
           /\ \/ /\ Room(Reservation(j))
                 /\ thread' = [thread EXCEPT ![w] = [job |-> j, written |-> 0]]
              \/ Fails(w, IF cancelled THEN "cancelled" ELSE "space")
    BY <1>3 DEF Take
  <2>3. j \in Jobs /\ j \in Clip
    BY <1>1, <1>2, JobsAre DEF PoolOK
  <2>4. CASE /\ Room(Reservation(j))
             /\ thread' = [thread EXCEPT ![w] = [job |-> j, written |-> 0]]
    <3> DEFINE r == [job |-> j, written |-> 0]
    <3>1. r \in Rendering /\ r.job = j /\ r.written = 0
      BY <2>3 DEF Rendering
    <3> HIDE DEF r
    <3>2. /\ Busy' = Busy \cup {w} /\ thread'[w] = r
          /\ \A u \in Busy' \ {w} : thread'[u] = thread[u]
      BY <1>1, <1>2, <2>4, <3>1, ThreadGets DEF r
    <3>3. Pending' = Pending \cup {j} /\ Taken' = Taken \cup {j}
      BY <2>1, <3>1, <3>2 DEF Pending, Taken
    <3>4. Once'
      <4>1. j \notin Taken
        BY <1>2, <2>2 DEF Once
      <4>2. todo' \cap Taken' = {}
        BY <1>2, <2>2, <3>3 DEF Once
      <4>3. \A u \in Busy : thread[u].job # j
        BY <4>1 DEF Taken
      <4>4. \A u, v \in Busy' : thread'[v].job = thread'[u].job => v = u
        BY <1>2, <2>1, <3>1, <3>2, <4>3 DEF Once
      <4> QED
        BY <4>2, <4>4 DEF Once
    <3>5. Pending' \in SUBSET Jobs /\ j \in Pending'
      BY <1>1, <2>3, <3>3, PendingIs
    <3>6. Cardinality(Pending') <= workers
      <4> DEFINE W == {u \in Busy' : thread'[u].written = 0}
      <4>1. W \in SUBSET (1..workers)
        BY <3>2 DEF Busy
      <4>2. Pending' = {thread'[u].job : u \in W}
        BY DEF Pending
      <4> HIDE DEF W
      <4> QED
        BY <1>2, <4>1, <4>2, ThreadsBound
    <3>7. Reservation(j) \in Nat /\ Total(Pending') <= Reservation(j)
      BY <1>2, <3>5, <3>6, ReservationIs
    <3>8. Total(Pending') \in Nat
      <4>1. IsFiniteSet(Pending') /\ \A c \in Pending' : Budget(c) \in Nat
        BY <1>2, <3>5, JobsAre, BudgetIs, FS_Subset
      <4> QED
        BY <4>1, TotalAdds
    <3>9. free - Reservation(j) >= MinFree
      BY <2>4 DEF Room
    <3> QED
      BY <1>2, <2>1, <3>4, <3>7, <3>8, <3>9
  <2>5. CASE Fails(w, IF cancelled THEN "cancelled" ELSE "space")
    <3>1. thread' = [thread EXCEPT ![w] = None]
      BY <2>5 DEF Fails
    <3>2. Busy' = Busy /\ \A u \in Busy : thread'[u] = thread[u]
      <4>1. Busy' = Busy \ {w} /\ \A u \in Busy' : thread'[u] = thread[u]
        BY <1>1, <1>2, <3>1, ThreadEnds
      <4> QED
        BY <2>1, <4>1
    <3>3. Pending' = Pending /\ Taken' = Taken
      BY <3>2 DEF Pending, Taken
    <3> QED
      BY <1>2, <2>1, <2>2, <3>2, <3>3 DEF Once
  <2> QED
    BY <2>2, <2>4, <2>5
<1>4. CASE Write(w)
  <2> DEFINE j == thread[w].job
  <2>1. /\ w \in Busy /\ thread[w] \in Rendering /\ thread[w].written = 0
        /\ todo' = todo
    BY <1>2, <1>4 DEF Write, Busy, PoolOK
  <2>2. PICK n \in {1, Budget(j)} :
           thread' = [thread EXCEPT ![w].written = @ + n] /\ free' = free - n
    BY <1>4 DEF Write
  <2>3. j \in Pending /\ j \in Jobs /\ Budget(j) \in Nat \ {0}
    <3>1. j \in Pending
      BY <2>1 DEF Pending
    <3> QED
      BY <1>1, <1>2, <3>1, PendingIs, BudgetIs
  <2>4. n \in Nat \ {0} /\ n <= Budget(j)
    BY <2>2, <2>3
  <2> DEFINE r == [thread[w] EXCEPT !.written = @ + n]
  <2>5. /\ r \in Rendering /\ r.job = j /\ r.written # 0 /\ thread' = [thread EXCEPT ![w] = r]
    BY <2>1, <2>2, <2>4 DEF Rendering
  <2> HIDE DEF r
  <2>6. /\ Busy' = Busy /\ thread'[w] = r
        /\ \A u \in Busy \ {w} : thread'[u] = thread[u]
    <3>1. /\ Busy' = Busy \cup {w} /\ thread'[w] = r
          /\ \A u \in Busy' \ {w} : thread'[u] = thread[u]
      BY <1>1, <1>2, <2>5, ThreadGets
    <3> QED
      BY <2>1, <3>1
  <2>7. Pending' = Pending \ {j}
    BY <1>2, <2>1, <2>5, <2>6, PendingLoses
  <2>8. \A u \in Busy : thread'[u].job = thread[u].job
    BY <2>5, <2>6
  <2>9. Once'
    <3>1. Taken' = Taken
      BY <2>6, <2>8 DEF Taken
    <3> QED
      BY <1>2, <2>1, <2>6, <2>8, <3>1 DEF Once
  <2>10. Total(Pending) = Budget(j) + Total(Pending') /\ Total(Pending') \in Nat
    BY <1>1, <2>3, <2>7, PendingIs
  <2> HIDE DEF j
  <2> QED
    BY <1>2, <2>2, <2>3, <2>4, <2>9, <2>10
<1>5. CASE Abandon(w) \/ Rendered(w)
  <2>1. w \in Busy /\ thread[w] \in Rendering /\ todo' = todo
    BY <1>2, <1>5 DEF Abandon, Rendered, Busy, PoolOK
  <2>2. /\ thread' = [thread EXCEPT ![w] = None]
        /\ free' = free \/ free' = free + thread[w].written
    BY <1>5 DEF Abandon, Rendered, Fails
  <2>3. Busy' = Busy \ {w} /\ Taken' \subseteq Taken /\ \A u \in Busy' : thread'[u] = thread[u]
    BY <1>1, <1>2, <2>2, ThreadEnds
  <2>4. Pending' = Pending \ {thread[w].job}
    BY <1>2, <2>1, <2>3, PendingLoses
  <2>5. Once'
    BY <1>2, <2>1, <2>3 DEF Once
  <2>6. Total(Pending') \in Nat /\ Total(Pending') <= Total(Pending)
    BY <1>1, <2>4, PendingIs
  <2>7. free' \in Int /\ free' >= free
    BY <1>2, <2>1, <2>2 DEF Rendering
  <2> QED
    BY <1>2, <2>5, <2>6, <2>7
<1> QED
  BY <1>3, <1>4, <1>5

LEMMA ReserveStays ==
    ASSUME Inv, Reserved, ~Check, [Next]_vars,
           ~ \E w \in 1..workers : Take(w) \/ Write(w) \/ Abandon(w) \/ Rendered(w)
    PROVE  Reserved'
<1>1. /\ free' = free
      /\ pc' \in Begun => pc \in Begun
      /\ pc' \in {"render", "stop"} =>
            /\ pc \in {"render", "stop"} /\ UNCHANGED <<thread, workers>>
            /\ todo' \subseteq todo
  BY DEF vars, Next, Consider, Planned, Collect, Interrupt, Stopped, Build, BuildItem, Built, Freeze,
         Kill, Begun, pool, settings
<1>2. pc' \in {"render", "stop"} => Busy' = Busy /\ Taken' = Taken /\ Pending' = Pending
  <2>1. UNCHANGED <<thread, workers>> => Busy' = Busy /\ Taken' = Taken
    BY ThreadsStay
  <2> QED
    BY <1>1, <2>1 DEF Pending
<1>3. pc' \in {"render", "stop"} => Once'
  BY <1>1, <1>2 DEF Reserved, Once
<1>4. Total(Pending)' = Total(Pending')
  OBVIOUS
<1> QED
  BY <1>1, <1>2, <1>3, <1>4 DEF Reserved

LEMMA CheckReserves ==
    ASSUME Inv, Check
    PROVE  Reserved'
<1> SUFFICES ASSUME pc' \in Begun PROVE Reserved'
  BY DEF Reserved, Begun
<1>1. /\ pc = "check" /\ pc' = "render" /\ Valid /\ UNCHANGED <<thread, workers, free>>
  BY DEF Check, Begun, settings
<1>2. PICK j \in Jobs : Room(Reservation(j))
  BY <1>1 DEF Check
<1>3. SelectionOK /\ Timed /\ free \in Int /\ MinFree \in Nat /\ workers \in Nat /\ workers > 0
  BY <1>1, MeasuredIs, SuperMemoryAssumption DEF Inv, PoolInv, PoolOK, SelectionOK
<1>4. Reservation(j) \in Nat
  <2>1. {j} \in SUBSET Jobs /\ Cardinality({j}) <= workers
    <3>1. Cardinality({j}) = 1
      BY FS_Singleton
    <3> QED
      BY <1>3, <3>1
  <2> QED
    BY <1>3, <2>1, ReservationIs
<1>5. free >= MinFree
  BY <1>2, <1>3, <1>4 DEF Room
<1>6. Busy' = {} /\ Taken' = {} /\ Pending' = {}
  <2>1. Busy' = {}
    BY <1>1, ThreadsStay DEF Inv, PoolInv, Idle
  <2> QED
    BY <2>1 DEF Taken, Pending
<1>7. Total(Pending)' = Total(Pending')
  OBVIOUS
<1>8. Total({}) = 0
  BY FS_EmptySet, TotalStep
<1> QED
  BY <1>1, <1>3, <1>5, <1>6, <1>7, <1>8 DEF Reserved, Once

\* The space that is to be left is never touched: what each thread that runs
\* may still write fits in, whatever the others write, because a thread only
\* begins when the largest clips of all threads together would fit.
THEOREM FloorIsKept == Spec => []ReserveIsKept
<1>1. Init => Reserved
  BY DEF Init, Reserved, Begun
<1>2. Inv /\ Reserved /\ [Next]_vars => Reserved'
  <2> SUFFICES ASSUME Inv, Reserved, [Next]_vars PROVE Reserved'
    OBVIOUS
  <2>1. CASE Check
    BY <2>1, CheckReserves
  <2>2. CASE \E w \in 1..workers : Take(w) \/ Write(w) \/ Abandon(w) \/ Rendered(w)
    BY <2>2, ReserveStep
  <2> QED
    BY <2>1, <2>2, ReserveStays
<1>3. Inv /\ Reserved => ReserveIsKept
  BY DEF Inv, SelectionOK, Reserved, ReserveIsKept, Begun
<1> QED
  BY <1>1, <1>2, <1>3, Invariance, PTL DEF Spec

-----------------------------------------------------------------------------
(* FlattenSeq, which is defined by recursion over the sequences it joins.   *)

\* f joins the first sequences of s, as FlattenSeq does.
Flat(f, s) == f = [i \in 1..Len(s) |-> IF i = 1 THEN s[i] ELSE f[i - 1] \o s[i]]

\* b is next to a in one of the first i sequences, or one begins with b and an
\* earlier one ends with a.
Adjacent(a, b, s, i) ==
    \E j \in 1..i :
       \/ \E m \in 2..Len(s[j]) : a = s[j][m - 1] /\ b = s[j][m]
       \/ /\ Len(s[j]) > 0 /\ b = s[j][1]
          /\ \E h \in 1..(j - 1) : Len(s[h]) > 0 /\ a = s[h][Len(s[h])]

\* q has what the first i sequences of s have, in their order.
Joins(q, s, i) ==
    /\ \A k \in 1..Len(q) : \E j \in 1..i : \E m \in 1..Len(s[j]) : q[k] = s[j][m]
    /\ \A k \in 2..Len(q) : Adjacent(q[k - 1], q[k], s, i)
    /\ Len(q) > 0 => \E h \in 1..i : Len(s[h]) > 0 /\ q[Len(q)] = s[h][Len(s[h])]
    /\ \A j \in 1..i : \A m \in 1..Len(s[j]) : \E k \in 1..Len(q) : q[k] = s[j][m]

LEMMA JoinStep ==
    ASSUME NEW T, NEW s \in Seq(Seq(T)), NEW i \in 1..(Len(s) - 1),
           NEW q \in Seq(T), Joins(q, s, i)
    PROVE  q \o s[i + 1] \in Seq(T) /\ Joins(q \o s[i + 1], s, i + 1)
<1> DEFINE t == s[i + 1]
           r == q \o t
<1>1. i + 1 \in 1..Len(s) /\ i \in Nat /\ t \in Seq(T)
  BY ElementOfSeq
<1>2. /\ Len(q) \in Nat /\ Len(t) \in Nat /\ Len(r) = Len(q) + Len(t) /\ r \in Seq(T)
      /\ \A k \in 1..Len(q) : r[k] = q[k]
      /\ \A m \in 1..Len(t) : r[Len(q) + m] = t[m]
  <2>1. /\ r \in Seq(T) /\ Len(r) = Len(q) + Len(t)
        /\ \A k \in 1..(Len(q) + Len(t)) : r[k] = IF k <= Len(q) THEN q[k] ELSE t[k - Len(q)]
    BY <1>1, ConcatProperties
  <2>2. Len(q) \in Nat /\ Len(t) \in Nat
    BY <1>1
  <2> HIDE DEF r, t
  <2>3. \A k \in 1..Len(q) : r[k] = q[k]
    BY <2>1, <2>2
  <2>4. ASSUME NEW m \in 1..Len(t) PROVE r[Len(q) + m] = t[m]
    <3>1. Len(q) + m \in 1..(Len(q) + Len(t)) /\ ~(Len(q) + m <= Len(q)) /\ (Len(q) + m) - Len(q) = m
      BY <2>2
    <3> QED
      BY <2>1, <3>1
  <2> QED
    BY <2>1, <2>2, <2>3, <2>4
<1>3. /\ \A k \in 1..Len(q) : \E j \in 1..i : \E m \in 1..Len(s[j]) : q[k] = s[j][m]
      /\ \A k \in 2..Len(q) : Adjacent(q[k - 1], q[k], s, i)
      /\ Len(q) > 0 => \E h \in 1..i : Len(s[h]) > 0 /\ q[Len(q)] = s[h][Len(s[h])]
      /\ \A j \in 1..i : \A m \in 1..Len(s[j]) : \E k \in 1..Len(q) : q[k] = s[j][m]
  BY DEF Joins
<1>4. \A j \in 1..(i + 1) : j \in 1..i \/ j = i + 1
  BY <1>1
<1>5. \A j \in 1..i : j \in 1..(i + 1)
  BY <1>1
<1>6. i + 1 \in 1..(i + 1) /\ (i + 1) - 1 = i
  BY <1>1
<1>7. \A k \in 1..Len(r) : k \in 1..Len(q) \/ \E m \in 1..Len(t) : k = Len(q) + m
  <2> SUFFICES ASSUME NEW k \in 1..Len(r), k \notin 1..Len(q)
               PROVE  \E m \in 1..Len(t) : k = Len(q) + m
    OBVIOUS
  <2> HIDE DEF r, t
  <2>1. k - Len(q) \in 1..Len(t) /\ k = Len(q) + (k - Len(q))
    BY <1>2
  <2> QED
    BY <2>1
<1> HIDE DEF r
<1>8. \A k \in 1..Len(r) : \E j \in 1..(i + 1) : \E m \in 1..Len(s[j]) : r[k] = s[j][m]
  <2> SUFFICES ASSUME NEW k \in 1..Len(r)
               PROVE  \E j \in 1..(i + 1) : \E m \in 1..Len(s[j]) : r[k] = s[j][m]
    OBVIOUS
  <2>1. CASE k \in 1..Len(q)
    <3>1. PICK j \in 1..i : \E m \in 1..Len(s[j]) : q[k] = s[j][m]
      BY <1>3, <2>1
    <3>2. j \in 1..(i + 1) /\ r[k] = q[k]
      BY <1>2, <1>5, <2>1
    <3> QED
      BY <3>1, <3>2
  <2>2. CASE \E m \in 1..Len(t) : k = Len(q) + m
    BY <1>2, <1>6, <2>2
  <2> QED
    BY <1>7, <2>1, <2>2
<1>9. \A k \in 2..Len(r) : Adjacent(r[k - 1], r[k], s, i + 1)
  <2> SUFFICES ASSUME NEW k \in 2..Len(r) PROVE Adjacent(r[k - 1], r[k], s, i + 1)
    OBVIOUS
  <2>1. CASE k \in 1..Len(q)
    <3>1. k \in 2..Len(q) /\ k - 1 \in 1..Len(q)
      BY <1>2, <2>1
    <3>2. Adjacent(r[k - 1], r[k], s, i)
      BY <1>2, <1>3, <2>1, <3>1
    <3> QED
      BY <1>5, <3>2 DEF Adjacent
  <2>2. ASSUME NEW m \in 1..Len(t), k = Len(q) + m PROVE Adjacent(r[k - 1], r[k], s, i + 1)
    <3>1. CASE m = 1
      <4>1. Len(q) > 0 /\ k - 1 = Len(q) /\ Len(q) \in 1..Len(q) /\ Len(t) > 0 /\ 1 \in 1..Len(t)
        BY <1>2, <2>2, <3>1
      <4>2. r[k - 1] = q[Len(q)] /\ r[k] = t[1]
        BY <1>2, <2>2, <3>1, <4>1
      <4>3. \E h \in 1..i : Len(s[h]) > 0 /\ r[k - 1] = s[h][Len(s[h])]
        BY <1>3, <4>1, <4>2
      <4> QED
        BY <1>6, <4>1, <4>2, <4>3 DEF Adjacent
    <3>2. CASE m # 1
      <4>1. m \in 2..Len(t) /\ m - 1 \in 1..Len(t) /\ k - 1 = Len(q) + (m - 1)
        BY <1>2, <2>2, <3>2
      <4>2. r[k - 1] = t[m - 1] /\ r[k] = t[m]
        BY <1>2, <2>2, <4>1
      <4> QED
        BY <1>6, <4>1, <4>2 DEF Adjacent
    <3> QED
      BY <3>1, <3>2
  <2> QED
    BY <1>2, <1>7, <2>1, <2>2
<1>10. Len(r) > 0 => \E h \in 1..(i + 1) : Len(s[h]) > 0 /\ r[Len(r)] = s[h][Len(s[h])]
  <2>1. CASE Len(t) = 0
    <3>1. Len(r) = Len(q) /\ (Len(r) > 0 => Len(r) \in 1..Len(q))
      BY <1>2, <2>1
    <3> QED
      BY <1>2, <1>3, <1>5, <3>1
  <2>2. CASE Len(t) # 0
    <3>1. Len(t) > 0 /\ Len(t) \in 1..Len(t)
      BY <1>2, <2>2
    <3>2. r[Len(r)] = t[Len(t)]
      BY <1>2, <3>1
    <3> QED
      BY <1>6, <3>1, <3>2
  <2> QED
    BY <2>1, <2>2
<1>11. \A j \in 1..(i + 1) : \A m \in 1..Len(s[j]) : \E k \in 1..Len(r) : r[k] = s[j][m]
  <2> SUFFICES ASSUME NEW j \in 1..(i + 1), NEW m \in 1..Len(s[j])
               PROVE  \E k \in 1..Len(r) : r[k] = s[j][m]
    OBVIOUS
  <2>1. CASE j \in 1..i
    <3>1. PICK k \in 1..Len(q) : q[k] = s[j][m]
      BY <1>3, <2>1
    <3>2. k \in 1..Len(r)
      BY <1>2, <3>1
    <3> QED
      BY <1>2, <3>1, <3>2
  <2>2. CASE j = i + 1
    <3>1. m \in 1..Len(t) /\ Len(q) + m \in 1..Len(r)
      BY <1>2, <2>2
    <3> QED
      BY <1>2, <2>2, <3>1
  <2> QED
    BY <1>4, <2>1, <2>2
<1> QED
  BY <1>2, <1>8, <1>9, <1>10, <1>11 DEF Joins, r

LEMMA FlatExists ==
    ASSUME NEW s, Len(s) \in Nat
    PROVE  \E f : Flat(f, s)
<1> DEFINE Upto(f, n) == f = [i \in 1..n |-> IF i = 1 THEN s[i] ELSE f[i - 1] \o s[i]]
           Bad == {n \in Nat : ~ \E f : Upto(f, n)}
<1>1. Bad = {}
  <2> SUFFICES ASSUME Bad # {} PROVE FALSE
    OBVIOUS
  <2> DEFINE n == Min(Bad)
  <2>1. n \in Nat /\ ~(\E f : Upto(f, n)) /\ \A y \in Bad : n <= y
    <3>1. Bad \in SUBSET Nat
      OBVIOUS
    <3>2. n \in Bad /\ \A y \in Bad : n <= y
      <4> HIDE DEF Bad
      <4> QED
        BY <3>1, MinIs
    <3> QED
      BY <3>2
  <2> HIDE DEF n
  <2>2. n # 0
    <3> DEFINE g == [i \in 1..0 |-> s[i]]
    <3>1. 1..0 = {}
      OBVIOUS
    <3>2. g = [i \in 1..0 |-> IF i = 1 THEN s[i] ELSE g[i - 1] \o s[i]]
      BY <3>1
    <3> HIDE DEF g
    <3>3. Upto(g, 0)
      BY <3>2
    <3> QED
      BY <2>1, <3>3
  <2>3. n - 1 \in Nat /\ n - 1 \notin Bad
    <3>1. n - 1 \in Nat /\ ~(n <= n - 1)
      BY <2>1, <2>2
    <3> HIDE DEF Bad
    <3> QED
      BY <2>1, <3>1
  <2>4. PICK f : Upto(f, n - 1)
    BY <2>3
  <2> DEFINE g == [i \in 1..n |-> IF i = 1 THEN s[i] ELSE f[i - 1] \o s[i]]
  <2>5. ASSUME NEW i \in 1..n, i # 1 PROVE g[i - 1] = f[i - 1]
    <3>1. i - 1 \in 1..(n - 1) /\ i - 1 \in 1..n
      BY <2>1, <2>5
    <3>2. f[i - 1] = IF i - 1 = 1 THEN s[i - 1] ELSE f[(i - 1) - 1] \o s[i - 1]
      BY <2>4, <3>1, Zenon
    <3>3. g[i - 1] = IF i - 1 = 1 THEN s[i - 1] ELSE f[(i - 1) - 1] \o s[i - 1]
      BY <3>1, Zenon
    <3> QED
      BY <3>2, <3>3
  <2>6. g = [i \in 1..n |-> IF i = 1 THEN s[i] ELSE g[i - 1] \o s[i]]
    <3> DEFINE a(i) == IF i = 1 THEN s[i] ELSE f[i - 1] \o s[i]
               b(i) == IF i = 1 THEN s[i] ELSE g[i - 1] \o s[i]
    <3>1. g = [i \in 1..n |-> a(i)]
      OBVIOUS
    <3>2. \A i \in 1..n : a(i) = b(i)
      <4> HIDE DEF g
      <4> QED
        BY <2>5
    <3> HIDE DEF g, a, b
    <3>3. g = [i \in 1..n |-> b(i)]
      BY <3>1, <3>2
    <3> QED
      BY <3>3 DEF b
  <2> HIDE DEF g
  <2>7. Upto(g, n)
    BY <2>6
  <2> QED
    BY <2>1, <2>7
<1>2. \E f : Upto(f, Len(s))
  BY <1>1
<1> QED
  BY <1>2 DEF Flat

\* What FlattenSeq makes of sequences.
LEMMA FlattenIs ==
    ASSUME NEW T, NEW s \in Seq(Seq(T))
    PROVE  FlattenSeq(s) \in Seq(T) /\ Joins(FlattenSeq(s), s, Len(s))
<1> DEFINE n == Len(s)
<1>1. n \in Nat
  OBVIOUS
<1>2. CASE n = 0
  <2>1. FlattenSeq(s) = s /\ s = <<>>
    BY <1>2 DEF FlattenSeq
  <2> QED
    BY <2>1 DEF Joins
<1>3. CASE n # 0
  <2> DEFINE f == CHOOSE f : Flat(f, s)
             Good(i) == f[i] \in Seq(T) /\ Joins(f[i], s, i)
             Bad == {i \in 1..n : ~Good(i)}
  <2>1. Flat(f, s)
    BY <1>1, FlatExists
  <2>2. FlattenSeq(s) = f[n]
    BY <1>3, Zenon DEF FlattenSeq, Flat
  <2> HIDE DEF f
  <2>3. \A i \in 1..n : f[i] = IF i = 1 THEN s[i] ELSE f[i - 1] \o s[i]
    BY <2>1, Zenon DEF Flat
  <2>4. Good(1)
    <3>1. 1 \in 1..n /\ s[1] \in Seq(T) /\ Len(s[1]) \in Nat
      BY <1>1, <1>3
    <3>2. f[1] = s[1]
      BY <2>3, <3>1
    <3>3. \A k \in 1..Len(s[1]) : \E j \in 1..1 : \E m \in 1..Len(s[j]) : s[1][k] = s[j][m]
      OBVIOUS
    <3>4. \A k \in 2..Len(s[1]) : Adjacent(s[1][k - 1], s[1][k], s, 1)
      BY DEF Adjacent
    <3>5. Joins(s[1], s, 1)
      BY <3>1, <3>3, <3>4 DEF Joins
    <3> QED
      BY <3>1, <3>2, <3>5
  <2>5. Bad = {}
    <3> SUFFICES ASSUME Bad # {} PROVE FALSE
      OBVIOUS
    <3> DEFINE i == Min(Bad)
    <3>1. i \in Bad /\ \A y \in Bad : i <= y
      <4>1. Bad \in SUBSET Nat
        OBVIOUS
      <4> HIDE DEF Bad
      <4> QED
        BY <4>1, MinIs
    <3> HIDE DEF i
    <3>2. i \in 1..n /\ ~Good(i)
      BY <3>1
    <3>3. i # 1
      BY <2>4, <3>2
    <3>4. i - 1 \in 1..(n - 1) /\ i - 1 \in 1..n /\ (i - 1) + 1 = i /\ ~(i <= i - 1)
      BY <1>1, <3>2, <3>3
    <3>5. Good(i - 1)
      BY <3>1, <3>4
    <3>6. f[i] = f[i - 1] \o s[i]
      BY <2>3, <3>2, <3>3
    <3>7. f[i - 1] \o s[(i - 1) + 1] \in Seq(T) /\ Joins(f[i - 1] \o s[(i - 1) + 1], s, (i - 1) + 1)
      BY <3>4, <3>5, JoinStep
    <3> QED
      BY <3>2, <3>4, <3>6, <3>7
  <2>6. Good(n)
    BY <1>1, <1>3, <2>5
  <2> QED
    BY <2>2, <2>6
<1> QED
  BY <1>2, <1>3

-----------------------------------------------------------------------------
(* The steps of the plan, of the frames that are shown and of the items.    *)

LEMMA QuestionsStay ==
    ASSUME UNCHANGED <<rows, context>>
    PROVE  \A row : /\ Selectable(row)' = Selectable(row)
                    /\ RecordingsOf(row)' = RecordingsOf(row)
<1>1. \A v : Starts(v)' = Starts(v)
  BY DEF Starts
<1>2. \A v : StartOf(v)' = StartOf(v)
  BY <1>1 DEF StartOf
<1>3. Known' = Known
  BY <1>1 DEF Known
<1>4. \A row : Boundary(row)' = Boundary(row)
  BY <1>2 DEF Boundary
<1>5. \A v, w : Before(v, w)' = Before(v, w)
  BY <1>2 DEF Before
<1>6. \A vs : InOrder(vs)' = InOrder(vs)
  BY <1>5 DEF InOrder
<1>7. \A row : History(row)' = History(row)
  BY <1>2, <1>4, <1>6 DEF History
<1>8. \A e, row : InTime(e, row)' = InTime(e, row)
  BY <1>2, <1>4 DEF InTime
<1>9. \A row : Selectable(row)' = Selectable(row)
  BY <1>2, <1>3, <1>7, <1>8 DEF Selectable
<1>10. \A row : RecordingsOf(row)' = RecordingsOf(row)
  BY <1>2, <1>4, <1>7 DEF RecordingsOf
<1> QED
  BY <1>9, <1>10

LEMMA AskedStep ==
    ASSUME SelectionOK, Asked, [Next]_vars
    PROVE  Asked'
<1>1. UNCHANGED <<rows, context>>
  BY DEF vars, Next, Consider, Planned, Check, Take, Write, Abandon, Rendered, Collect, Interrupt,
         Stopped, Build, BuildItem, Built, Freeze, Kill, planVars
<1>2. \A row : Selectable(row)' = Selectable(row) /\ RecordingsOf(row)' = RecordingsOf(row)
  BY <1>1, QuestionsStay
<1>3. CASE Consider
  <2> DEFINE row == rows[next]
             new == [row |-> row, recordings |-> RecordingsOf(row)]
  <2>1. selected' = selected \/ (Selectable(row) /\ selected' = Append(selected, new))
    BY <1>3 DEF Consider, RecordingsOf
  <2>2. new.row = row /\ new.recordings = RecordingsOf(row)
    OBVIOUS
  <2> HIDE DEF row, new
  <2>3. IsList(selected)
    BY DEF SelectionOK, IsList, ToSet
  <2>4. /\ DOMAIN selected = 1..Len(selected) /\ Len(selected) \in Nat
        /\ DOMAIN Append(selected, new) = 1..(Len(selected) + 1)
        /\ Append(selected, new)[Len(selected) + 1] = new
        /\ \A k \in 1..Len(selected) : Append(selected, new)[k] = selected[k]
    BY <2>3, AppendIs
  <2>5. ASSUME NEW x \in DOMAIN selected'
        PROVE  Selectable(selected'[x].row) /\ selected'[x].recordings = RecordingsOf(selected'[x].row)
    <3>1. CASE x \in DOMAIN selected /\ selected'[x] = selected[x]
      BY <3>1 DEF Asked
    <3>2. CASE Selectable(row) /\ selected'[x] = new
      BY <2>2, <3>2
    <3> QED
      BY <2>1, <2>4, <2>5, <3>1, <3>2
  <2> QED
    BY <1>2, <2>5 DEF Asked
<1>4. CASE ~Consider
  <2>1. selected' = selected
    BY <1>4 DEF vars, Next, Planned, Check, Take, Write, Abandon, Rendered, Collect, Interrupt,
         Stopped, Build, BuildItem, Built, Freeze, Kill, planVars
  <2> QED
    BY <1>2, <2>1 DEF Asked
<1> QED
  BY <1>3, <1>4

LEMMA PicturedStep ==
    ASSUME Pictured, [Next]_vars
    PROVE  Pictured'
<1>1. UNCHANGED settings
  BY DEF vars, Next, Consider, Planned, Check, Take, Write, Abandon, Rendered, Collect, Interrupt,
         Stopped, Build, BuildItem, Built, Freeze, Kill
<1>2. \A c : Shown(c)' = Shown(c)
  <2>1. \A v : Instants(v)' = Instants(v)
    BY <1>1 DEF settings, Instants
  <2> QED
    BY <2>1 DEF Shown
<1>3. CASE \E w \in 1..workers : Rendered(w)
  BY <1>2, <1>3 DEF Rendered, Pictured
<1>4. CASE ~ \E w \in 1..workers : Rendered(w)
  <2>1. media' = media
    BY <1>4 DEF vars, Next, Consider, Planned, Check, Take, Write, Abandon, Collect, Interrupt,
         Stopped, Build, BuildItem, Built, Freeze, Kill, pool
  <2> QED
    BY <1>2, <2>1 DEF Pictured
<1> QED
  BY <1>3, <1>4

LEMMA ItemsStay ==
    ASSUME UNCHANGED <<selected, duration>>
    PROVE  \A x : EnvOf(x)' = EnvOf(x) /\ \A row, env : Spans(row, env)' = Spans(row, env)
<1>1. \A rec : Ends(rec)' = Ends(rec)
  BY DEF Ends
<1>2. \A rec : ClipsOf(rec)' = ClipsOf(rec)
  BY <1>1 DEF ClipsOf
<1>3. \A env : Sessions(env)' = Sessions(env)
  BY <1>2 DEF Sessions
<1> QED
  BY <1>1, <1>3 DEF EnvOf, Spans

LEMMA MadeStep ==
    ASSUME Inv, Inv', Made, [Next]_vars
    PROVE  Made'
<1>1. CASE Build
  <2>1. /\ pc' = "build" /\ release' = [items |-> <<>>, envs |-> <<>>]
        /\ UNCHANGED selected
    BY <1>1 DEF Build, planVars
  <2>2. (Jobs \subseteq DOMAIN media)'
    BY <2>1 DEF Inv, PoolInv, NoneLost
  <2>3. Len(selected') >= 0
    BY <2>1 DEF Inv, SelectionOK
  <2> QED
    BY <2>1, <2>2, <2>3 DEF Made, IsList
<1>2. CASE BuildItem
  <2> DEFINE n == Len(release.items) + 1
             item == [id |-> n, env |-> EnvOf(n), spans |-> Spans(selected[n].row, EnvOf(n))]
  <2>1. /\ pc = "build" /\ pc' = "build" /\ Len(release.items) < Len(selected)
        /\ release'.items = Append(release.items, item)
        /\ UNCHANGED <<selected, duration, media>> /\ UNCHANGED <<planVars, settings>>
    BY <1>2 DEF BuildItem, planVars, settings, pool
  <2>2. \A x : EnvOf(x)' = EnvOf(x) /\ \A row, env : Spans(row, env)' = Spans(row, env)
    BY <2>1, ItemsStay
  <2>3. /\ IsList(release.items)
        /\ \A x \in DOMAIN release.items :
              release.items[x] = [id |-> x, env |-> EnvOf(x),
                                  spans |-> Spans(selected[x].row, EnvOf(x))]
    BY <2>1 DEF Made
  <2>4. (Jobs \subseteq DOMAIN media)'
    BY <2>1 DEF Inv, PoolInv, NoneLost
  <2> HIDE DEF item
  <2>5. /\ IsList(Append(release.items, item)) /\ Len(release.items) \in Nat
        /\ DOMAIN release.items = 1..Len(release.items)
        /\ DOMAIN Append(release.items, item) = 1..n
        /\ Append(release.items, item)[n] = item
        /\ \A k \in 1..Len(release.items) : Append(release.items, item)[k] = release.items[k]
    BY <2>3, AppendIs
  <2>6. Len(Append(release.items, item)) = n
    BY <2>5 DEF IsList
  <2>7. ASSUME NEW x \in 1..n
        PROVE  Append(release.items, item)[x]
                  = [id |-> x, env |-> EnvOf(x), spans |-> Spans(selected[x].row, EnvOf(x))]
    <3>1. CASE x = n
      BY <2>5, <3>1 DEF item
    <3>2. CASE x # n
      <4>1. x \in 1..Len(release.items)
        BY <2>5, <3>2
      <4> QED
        BY <2>3, <2>5, <4>1
    <3> QED
      BY <3>1, <3>2
  <2>8. n <= Len(selected)
    BY <2>1, <2>5 DEF Inv, SelectionOK
  <2> HIDE DEF n
  <2> QED
    BY <2>1, <2>2, <2>4, <2>5, <2>6, <2>7, <2>8 DEF Made
<1>3. CASE ~Build /\ ~BuildItem
  <2> SUFFICES ASSUME release' # None \/ pc' = "build" PROVE Made'
    BY DEF Made
  <2>1. release' = release /\ (pc' = "build" => pc = "build")
    BY <1>3 DEF vars, suiteVars, Next, Consider, Planned, Check, Take, Write, Abandon, Rendered,
                Collect, Interrupt, Stopped, Built, Freeze, Kill, SuiteNext, WriteItems, WriteEnvs,
                WriteManifest, ReadItems, ReadEnvs, ReadManifest, Filter, Retry
  <2>2. pc \in {"build", "freeze", "failed", "killed"} /\ Made
    BY <2>1 DEF Made
  <2>3. \A w \in 1..workers : thread[w] = None
    BY <2>2 DEF Inv, PoolInv, Idle, Busy
  <2>4. /\ UNCHANGED <<planVars, settings, media>>
        /\ pc' \in {"build", "freeze", "failed", "killed"}
    BY <1>3, <2>2, <2>3
    DEF vars, pool, Next, Consider, Planned, Check, Take, Write, Abandon, Rendered,
        Collect, Interrupt, Stopped, Built, Freeze, Kill
  <2>5. UNCHANGED <<selected, duration>> /\ Jobs' = Jobs
    BY <2>4, JobsStay DEF planVars, settings
  <2>6. \A x : EnvOf(x)' = EnvOf(x) /\ \A row, env : Spans(row, env)' = Spans(row, env)
    BY <2>5, ItemsStay
  <2> QED
    BY <2>1, <2>2, <2>4, <2>5, <2>6 DEF Made
<1> QED
  BY <1>1, <1>2, <1>3

-----------------------------------------------------------------------------
(* What the clips of an item show.                                         *)

\* A question's recordings begin one after the other, before it is put.
LEMMA RecordingsAre ==
    ASSUME rows \in Seq(Annotation), context \in Contexts, NEW row \in Annotation, Selectable(row)
    PROVE  LET r == RecordingsOf(row)
           IN  /\ r \in Seq(Recording)
               /\ \A k \in DOMAIN r : /\ StartOf(r[k].video) \in Nat
                                      /\ r[k].end + StartOf(r[k].video) = Boundary(row)
               /\ \A j, k \in DOMAIN r : j < k => StartOf(r[j].video) <= StartOf(r[k].video)
               /\ \A e \in row.evidence : \E k \in DOMAIN r : r[k].video = e.video /\ e.to <= r[k].end
<1> DEFINE h == History(row)
           r == RecordingsOf(row)
<1>1. /\ h \in Seq(Videos) /\ Boundary(row) \in Nat
      /\ \A v \in ToSet(h) : StartOf(v) \in Nat /\ StartOf(v) < Boundary(row)
      /\ \A j, k \in DOMAIN h : j < k => StartOf(h[j]) <= StartOf(h[k])
  BY HistoryIs
<1>2. /\ DOMAIN r = DOMAIN h /\ DOMAIN h = 1..Len(h) /\ Len(h) \in Nat
      /\ \A k \in DOMAIN h : r[k] = [video |-> h[k], end |-> Boundary(row) - StartOf(h[k])]
      /\ r = [k \in 1..Len(h) |-> r[k]]
  BY <1>1 DEF RecordingsOf
<1>3. \A k \in DOMAIN h : h[k] \in Videos /\ h[k] \in ToSet(h)
  BY <1>1 DEF ToSet
<1>4. \A e \in row.evidence : e.video \in ToSet(h) /\ InTime(e, row) /\ e.to \in Nat
  <2> SUFFICES ASSUME NEW e \in row.evidence
               PROVE  e.video \in ToSet(h) /\ InTime(e, row) /\ e.to \in Nat
    OBVIOUS
  <2>1. e.to \in Nat /\ InTime(e, row)
    BY DEF Annotation, Selectable
  <2>2. CASE context = "single-session"
    <3>1. h = <<row.primary>> /\ e.video = row.primary
      BY <2>2 DEF Selectable, History
    <3> QED
      BY <2>1, <3>1 DEF ToSet
  <2>3. CASE context = "history"
    BY <2>1, <2>3 DEF Selectable
  <2> QED
    BY <2>2, <2>3, SuperMemoryAssumption
<1> HIDE DEF h, r
<1>5. \A k \in DOMAIN h : r[k] \in Recording
  BY <1>1, <1>2, <1>3 DEF Recording
<1>6. r \in Seq(Recording)
  BY <1>2, <1>5
<1>7. \A k \in DOMAIN r : /\ StartOf(r[k].video) \in Nat
                          /\ r[k].end + StartOf(r[k].video) = Boundary(row)
  BY <1>1, <1>2, <1>3
<1>8. \A j, k \in DOMAIN r : j < k => StartOf(r[j].video) <= StartOf(r[k].video)
  BY <1>1, <1>2
<1>9. ASSUME NEW e \in row.evidence
      PROVE  \E k \in DOMAIN r : r[k].video = e.video /\ e.to <= r[k].end
  <2>1. PICK k \in DOMAIN h : h[k] = e.video
    BY <1>4 DEF ToSet
  <2>2. StartOf(e.video) + e.to <= Boundary(row) /\ e.to \in Nat
    BY <1>4 DEF InTime
  <2> QED
    BY <1>1, <1>2, <1>3, <2>1, <2>2
<1> QED
  BY <1>6, <1>7, <1>8, <1>9 DEF r

\* The frames of a clip were recorded while it lasts.
LEMMA FramesAre ==
    ASSUME SelectionOK, NEW c \in Clip, duration[c.video] \in Nat, Shown(c) # None,
           NEW f \in Range(Shown(c))
    PROVE  f \in Nat /\ c.from <= f /\ f < c.to
<1> DEFINE inside == {t \in Instants(c.video) : c.from <= t /\ t < c.to}
           length == c.to - c.from
           n == length * Rate
           due(k) == {t \in inside : 2 * n * c.from + (2 * k - 1) * length <= 2 * n * t}
<1>1. inside \in SUBSET Nat /\ IsFiniteSet(inside)
  <2>1. inside \in SUBSET (0..duration[c.video])
    BY DEF Instants
  <2>2. IsFiniteSet(0..duration[c.video])
    BY FS_Interval
  <2> QED
    BY <2>1, <2>2, FS_Subset
<1>2. inside # {} /\ Shown(c) = [k \in 1..n |-> IF due(k) = {} THEN Max(inside) ELSE Min(due(k))]
  BY DEF Shown
<1>3. \A k : due(k) \in SUBSET inside
  OBVIOUS
<1>4. PICK k \in 1..n : f = IF due(k) = {} THEN Max(inside) ELSE Min(due(k))
  BY <1>2 DEF Range
<1> HIDE DEF inside, due
<1>5. f \in inside
  <2>1. Max(inside) \in inside
    BY <1>1, <1>2, MaxIs
  <2>2. due(k) # {} => Min(due(k)) \in due(k)
    BY <1>1, <1>3, MinIs
  <2> QED
    BY <1>3, <1>4, <2>1, <2>2
<1> QED
  BY <1>1, <1>5 DEF inside

\* The clips of a recording follow on each other from its beginning to its end.
LEMMA ClipsFollow ==
    ASSUME NEW rec \in Recording, duration[rec.video] \in Nat
    PROVE  LET cs == ClipsOf(rec)
           IN  /\ Len(cs) > 0 => cs[1].from = 0
               /\ \A m \in 2..Len(cs) : cs[m].from # 0 /\ cs[m].from = cs[m - 1].to
               /\ \A t \in Nat : t < Ends(rec) => \E c \in ToSet(cs) : c.from <= t /\ t < c.to
<1> DEFINE E == Ends(rec)
           n == (E + Chunk - 1) \div Chunk
           cs == ClipsOf(rec)
<1>1. E \in Nat /\ Chunk \in Nat /\ Chunk > 0
  BY SuperMemoryAssumption DEF Recording, Ends, Least
<1>2. /\ DOMAIN cs = 1..n
      /\ \A m \in 1..n : cs[m].from = (m - 1) * Chunk /\ cs[m].to = Least(m * Chunk, E)
  BY DEF ClipsOf
<1>3. n \in Nat /\ n * Chunk <= E + Chunk - 1 /\ E + Chunk - 1 < (n + 1) * Chunk
  <2> HIDE DEF E
  <2> QED
    BY <1>1
<1>4. Len(cs) = n
  <2> HIDE DEF n
  <2>1. cs \in Seq(Clip)
    BY ClipsAre
  <2>2. Len(cs) \in Nat /\ 1..Len(cs) = 1..n
    BY <1>2, <2>1
  <2> QED
    BY <1>3, <2>2
<1> HIDE DEF cs, n, E
<1>5. Len(cs) > 0 => cs[1].from = 0
  BY <1>1, <1>2, <1>3, <1>4
<1>6. ASSUME NEW m \in 2..n
      PROVE  cs[m].from # 0 /\ cs[m].from = cs[m - 1].to
  <2>1. m \in 1..n /\ m - 1 \in 1..n /\ m - 1 \in Nat /\ m \in Nat
    BY <1>3
  <2>2. (m - 1) * Chunk # 0 /\ m * Chunk = (m - 1) * Chunk + Chunk /\ m * Chunk <= n * Chunk
    BY <1>1, <1>3, <2>1
  <2>3. (m - 1) * Chunk \in Nat /\ m * Chunk \in Nat /\ n * Chunk \in Nat
    BY <1>1, <1>3, <2>1
  <2>4. (m - 1) * Chunk <= E
    BY <1>1, <1>3, <2>2, <2>3
  <2>5. Least((m - 1) * Chunk, E) = (m - 1) * Chunk
    BY <1>1, <2>3, <2>4 DEF Least
  <2> QED
    BY <1>2, <2>1, <2>2, <2>5
<1>7. ASSUME NEW t \in Nat, t < E
      PROVE  \E c \in ToSet(cs) : c.from <= t /\ t < c.to
  <2> DEFINE q == t \div Chunk
  <2>1. q \in Nat /\ q * Chunk <= t /\ t < (q + 1) * Chunk
    BY <1>1
  <2> HIDE DEF q
  <2>2. q * Chunk < n * Chunk
    <3>1. /\ (n + 1) * Chunk = n * Chunk + Chunk
          /\ n * Chunk \in Nat /\ q * Chunk \in Nat
      BY <1>1, <1>3, <2>1
    <3>2. E <= n * Chunk
      BY <1>1, <1>3, <3>1
    <3> QED
      BY <1>1, <1>7, <2>1, <3>1, <3>2
  <2>3. q < n
    BY <1>1, <1>3, <2>1, <2>2
  <2>4. q + 1 \in 1..n /\ (q + 1) - 1 = q
    BY <1>3, <2>1, <2>3
  <2>5. cs[q + 1].from = q * Chunk /\ cs[q + 1].to = Least((q + 1) * Chunk, E)
    BY <1>2, <2>4
  <2>6. t < Least((q + 1) * Chunk, E)
    BY <1>7, <2>1 DEF Least
  <2>7. cs[q + 1] \in ToSet(cs)
    BY <1>2, <2>4 DEF ToSet
  <2> QED
    BY <2>1, <2>5, <2>6, <2>7
<1> QED
  BY <1>4, <1>5, <1>6, <1>7 DEF cs, E

\* The sessions of an item are the clips of its question's recordings.
LEMMA SessionsAre ==
    ASSUME SelectionOK, Timed, NEW x \in DOMAIN selected
    PROVE  LET r == selected[x].recordings
               s == [k \in DOMAIN r |-> ClipsOf(r[k])]
           IN  /\ r \in Seq(Recording) /\ s \in Seq(Seq(Clip)) /\ Len(s) = Len(r)
               /\ \A k \in DOMAIN r : duration[r[k].video] \in Nat /\ ToSet(ClipsOf(r[k])) \subseteq Jobs
               /\ Sessions(EnvOf(x)) \in Seq(Clip)
               /\ Joins(Sessions(EnvOf(x)), s, Len(s))
<1> DEFINE r == selected[x].recordings
           env == EnvOf(x)
           s == [k \in DOMAIN r |-> ClipsOf(r[k])]
<1>1. r \in Seq(Recording)
  <2>1. selected[x] \in Example
    BY DEF SelectionOK
  <2> QED
    BY <2>1 DEF Example
<1>2. ASSUME NEW k \in DOMAIN r
      PROVE  /\ r[k] \in Recording /\ r[k] \in ToSet(r)
             /\ duration[r[k].video] \in Nat
             /\ ClipsOf(r[k]) \in Seq(Clip)
             /\ ToSet(ClipsOf(r[k])) \subseteq Jobs
             /\ ClipsOf(env[k]) = ClipsOf(r[k])
  <2>1. r[k] \in Recording /\ r[k] \in ToSet(r)
    BY <1>1 DEF ToSet
  <2>2. duration[r[k].video] \in Nat
    BY <2>1 DEF Timed, Used
  <2>3. ClipsOf(r[k]) \in Seq(Clip) /\ ToSet(ClipsOf(r[k])) \subseteq Jobs
    BY <2>1, <2>2, ClipsAre DEF Jobs
  <2>4. env[k].video = r[k].video /\ env[k].end = Ends(r[k])
    BY DEF EnvOf
  <2>5. Ends(env[k]) = Ends(r[k])
    <3>1. r[k].end \in Nat
      BY <2>1 DEF Recording
    <3> QED
      BY <2>2, <2>4, <3>1 DEF Ends, Least
  <2>6. ClipsOf(env[k]) = ClipsOf(r[k])
    BY <2>4, <2>5 DEF ClipsOf
  <2> QED
    BY <2>1, <2>2, <2>3, <2>6
<1>3. DOMAIN env = DOMAIN r /\ DOMAIN r = 1..Len(r) /\ Len(r) \in Nat
  BY <1>1 DEF EnvOf
<1> HIDE DEF r, env
<1>4. [k \in DOMAIN env |-> ClipsOf(env[k])] = s
  BY <1>2, <1>3
<1>5. s \in Seq(Seq(Clip)) /\ Len(s) = Len(r)
  <2>1. s \in [1..Len(r) -> Seq(Clip)]
    BY <1>2, <1>3
  <2> QED
    BY <1>3, <2>1
<1>6. Sessions(env) = FlattenSeq(s)
  BY <1>4 DEF Sessions
<1>7. FlattenSeq(s) \in Seq(Clip) /\ Joins(FlattenSeq(s), s, Len(s))
  BY <1>5, FlattenIs
<1> QED
  BY <1>1, <1>2, <1>5, <1>6, <1>7 DEF r, env

\* What is shown for an item, and whether it shows the evidence.
LEMMA ItemIs ==
    ASSUME SelectionOK, Timed, Asked, Pictured, Jobs \subseteq DOMAIN media,
           NEW x \in DOMAIN selected
    PROVE  LET row == selected[x].row
               clips == Sessions(EnvOf(x))
           IN  /\ \A k \in DOMAIN clips :
                     /\ clips[k] \in DOMAIN media
                     /\ \A f \in Range(media[clips[k]]) :
                           /\ clips[k].from <= f /\ f < clips[k].to
                           /\ StartOf(clips[k].video) + f < Boundary(row)
                     /\ k > 1 => IF clips[k].from = 0
                                 THEN StartOf(clips[k - 1].video) <= StartOf(clips[k].video)
                                 ELSE /\ clips[k].video = clips[k - 1].video
                                      /\ clips[k].from = clips[k - 1].to
               /\ \A e \in row.evidence : \A t \in e.from..(e.to - 1) :
                     t < duration[e.video] =>
                        \E c \in ToSet(clips) : c.video = e.video /\ c.from <= t /\ t < c.to
<1> DEFINE row == selected[x].row
           r == selected[x].recordings
           clips == Sessions(EnvOf(x))
           s == [k \in DOMAIN r |-> ClipsOf(r[k])]
<1>1. /\ r \in Seq(Recording) /\ s \in Seq(Seq(Clip)) /\ Len(s) = Len(r)
      /\ \A k \in DOMAIN r : duration[r[k].video] \in Nat /\ ToSet(ClipsOf(r[k])) \subseteq Jobs
      /\ clips \in Seq(Clip)
      /\ Joins(clips, s, Len(s))
  BY SessionsAre
<1>2. row \in Annotation /\ Selectable(row) /\ r = RecordingsOf(row)
  <2>1. selected[x] \in Example
    BY DEF SelectionOK
  <2> QED
    BY <2>1 DEF Asked, Example
<1>3. /\ \A k \in DOMAIN r : /\ StartOf(r[k].video) \in Nat
                             /\ r[k].end + StartOf(r[k].video) = Boundary(row)
      /\ \A j, k \in DOMAIN r : j < k => StartOf(r[j].video) <= StartOf(r[k].video)
      /\ \A e \in row.evidence : \E k \in DOMAIN r : r[k].video = e.video /\ e.to <= r[k].end
  BY <1>2, RecordingsAre DEF SelectionOK
<1>4. /\ DOMAIN r = 1..Len(r) /\ DOMAIN clips = 1..Len(clips)
      /\ Len(r) \in Nat /\ Len(clips) \in Nat
      /\ \A j \in 1..Len(r) : s[j] = ClipsOf(r[j])
  BY <1>1
<1> HIDE DEF clips, s, r, row
<1>5. ASSUME NEW j \in 1..Len(r)
      PROVE  /\ r[j] \in Recording /\ s[j] \in Seq(Clip) /\ ToSet(s[j]) \subseteq Jobs
             /\ \A m \in 1..Len(s[j]) : s[j][m] \in Clip /\ s[j][m] \in ToSet(s[j])
             /\ \A c \in ToSet(s[j]) : c \in Clip /\ c.video = r[j].video /\ c.to <= Ends(r[j])
             /\ Len(s[j]) > 0 => s[j][1].from = 0
             /\ \A m \in 2..Len(s[j]) : s[j][m].from # 0 /\ s[j][m].from = s[j][m - 1].to
             /\ \A t \in Nat : t < Ends(r[j]) => \E c \in ToSet(s[j]) : c.from <= t /\ t < c.to
             /\ Ends(r[j]) \in Nat /\ Ends(r[j]) <= r[j].end
             /\ Ends(r[j]) \in {r[j].end, duration[r[j].video]}
             /\ r[j].end \in Nat /\ duration[r[j].video] \in Nat
  <2>1. r[j] \in Recording /\ duration[r[j].video] \in Nat /\ ToSet(s[j]) \subseteq Jobs
    BY <1>1, <1>4
  <2>2. s[j] \in Seq(Clip)
    BY <1>1, <1>4, ClipsAre
  <2>3. \A m \in 1..Len(s[j]) : s[j][m] \in Clip /\ s[j][m] \in ToSet(s[j])
    BY <2>2 DEF ToSet
  <2>4. \A c \in ToSet(s[j]) : c \in Clip /\ c.video = r[j].video /\ c.to <= Ends(r[j])
    BY <1>4, <2>1, ClipsAre
  <2>5. /\ Len(s[j]) > 0 => s[j][1].from = 0
        /\ \A m \in 2..Len(s[j]) : s[j][m].from # 0 /\ s[j][m].from = s[j][m - 1].to
        /\ \A t \in Nat : t < Ends(r[j]) => \E c \in ToSet(s[j]) : c.from <= t /\ t < c.to
    BY <1>4, <2>1, ClipsFollow
  <2>6. r[j].end \in Nat
    BY <2>1 DEF Recording
  <2>7. /\ Ends(r[j]) \in Nat /\ Ends(r[j]) <= r[j].end
        /\ Ends(r[j]) \in {r[j].end, duration[r[j].video]}
    BY <2>1, <2>6 DEF Ends, Least
  <2> QED
    BY <2>1, <2>2, <2>3, <2>4, <2>5, <2>6, <2>7
<1>6. /\ \A k \in 1..Len(clips) : \E j \in 1..Len(r) : \E m \in 1..Len(s[j]) : clips[k] = s[j][m]
      /\ \A k \in 2..Len(clips) : Adjacent(clips[k - 1], clips[k], s, Len(r))
      /\ \A j \in 1..Len(r) : \A m \in 1..Len(s[j]) : \E k \in 1..Len(clips) : clips[k] = s[j][m]
  BY <1>1 DEF Joins
<1>7. ASSUME NEW k \in DOMAIN clips
      PROVE  /\ clips[k] \in DOMAIN media
             /\ \A f \in Range(media[clips[k]]) :
                   /\ clips[k].from <= f /\ f < clips[k].to
                   /\ StartOf(clips[k].video) + f < Boundary(row)
  <2> DEFINE c == clips[k]
  <2>1. PICK j \in 1..Len(r) : \E m \in 1..Len(s[j]) : c = s[j][m]
    BY <1>4, <1>6
  <2>2. c \in Clip /\ c \in Jobs /\ c.video = r[j].video /\ c.to <= Ends(r[j])
    BY <1>5, <2>1
  <2> HIDE DEF c
  <2>3. c \in DOMAIN media /\ media[c] = Shown(c) /\ Shown(c) # None
    BY <2>2 DEF Pictured
  <2>4. ASSUME NEW f \in Range(media[c])
        PROVE  c.from <= f /\ f < c.to /\ StartOf(c.video) + f < Boundary(row)
    <3>1. f \in Nat /\ c.from <= f /\ f < c.to
      BY <1>5, <2>2, <2>3, FramesAre
    <3>2. StartOf(c.video) \in Nat /\ r[j].end + StartOf(c.video) = Boundary(row)
      BY <1>3, <1>4, <2>2
    <3>3. c.to \in Nat /\ Ends(r[j]) \in Nat /\ r[j].end \in Nat /\ Ends(r[j]) <= r[j].end
      BY <1>5, <2>2 DEF Clip
    <3> QED
      BY <2>2, <3>1, <3>2, <3>3
  <2> QED
    BY <2>3, <2>4 DEF c
<1>8. ASSUME NEW k \in DOMAIN clips, k > 1
      PROVE  IF clips[k].from = 0
             THEN StartOf(clips[k - 1].video) <= StartOf(clips[k].video)
             ELSE /\ clips[k].video = clips[k - 1].video
                  /\ clips[k].from = clips[k - 1].to
  <2> DEFINE a == clips[k - 1]
             b == clips[k]
  <2>1. Adjacent(a, b, s, Len(r))
    <3>1. k \in 2..Len(clips)
      BY <1>4, <1>8
    <3> QED
      BY <1>6, <3>1
  <2> HIDE DEF a, b
  <2>2. PICK j \in 1..Len(r) :
          \/ \E m \in 2..Len(s[j]) : a = s[j][m - 1] /\ b = s[j][m]
          \/ /\ Len(s[j]) > 0 /\ b = s[j][1]
             /\ \E h \in 1..(j - 1) : Len(s[h]) > 0 /\ a = s[h][Len(s[h])]
    BY <2>1 DEF Adjacent
  <2>3. ASSUME NEW m \in 2..Len(s[j]), a = s[j][m - 1], b = s[j][m]
        PROVE  b.from # 0 /\ b.video = a.video /\ b.from = a.to
    <3>1. m \in 1..Len(s[j]) /\ m - 1 \in 1..Len(s[j])
      BY <1>5
    <3> QED
      BY <1>5, <2>3, <3>1
  <2>4. ASSUME Len(s[j]) > 0, b = s[j][1],
               NEW h \in 1..(j - 1), Len(s[h]) > 0, a = s[h][Len(s[h])]
        PROVE  b.from = 0 /\ StartOf(a.video) <= StartOf(b.video)
    <3>1. h \in 1..Len(r) /\ h < j
      BY <1>4
    <3>2. 1 \in 1..Len(s[j]) /\ Len(s[h]) \in 1..Len(s[h])
      BY <1>5, <2>4, <3>1
    <3>3. a.video = r[h].video /\ b.video = r[j].video /\ b.from = 0
      BY <1>5, <2>4, <3>1, <3>2
    <3> QED
      BY <1>3, <1>4, <3>1, <3>3
  <2>5. IF b.from = 0 THEN StartOf(a.video) <= StartOf(b.video)
        ELSE b.video = a.video /\ b.from = a.to
    BY <2>2, <2>3, <2>4
  <2> QED
    BY <2>5 DEF a, b
<1>9. ASSUME NEW e \in row.evidence, NEW t \in e.from..(e.to - 1), t < duration[e.video]
      PROVE  \E c \in ToSet(clips) : c.video = e.video /\ c.from <= t /\ t < c.to
  <2>1. PICK j \in 1..Len(r) : r[j].video = e.video /\ e.to <= r[j].end
    BY <1>3, <1>4
  <2>2. e.from \in Nat /\ e.to \in Nat /\ t \in Nat /\ t < e.to
    <3>1. e.from \in Nat /\ e.to \in Nat
      BY <1>2 DEF Annotation
    <3> QED
      BY <3>1
  <2>3. t < Ends(r[j])
    BY <1>5, <1>9, <2>1, <2>2
  <2>4. PICK m \in 1..Len(s[j]) : s[j][m].from <= t /\ t < s[j][m].to
    <3>1. PICK c \in ToSet(s[j]) : c.from <= t /\ t < c.to
      BY <1>5, <2>2, <2>3
    <3>2. DOMAIN s[j] = 1..Len(s[j])
      <4>1. s[j] \in Seq(Clip)
        BY <1>5
      <4> QED
        BY <4>1
    <3> QED
      BY <3>1, <3>2 DEF ToSet
  <2>5. PICK k \in 1..Len(clips) : clips[k] = s[j][m]
    BY <1>6, <2>4
  <2>6. clips[k] \in ToSet(clips)
    BY <1>4, <2>5 DEF ToSet
  <2>7. s[j][m].video = e.video
    BY <1>5, <2>1
  <2> QED
    BY <2>4, <2>5, <2>6, <2>7
<1> QED
  BY <1>7, <1>8, <1>9 DEF row, clips

\* Evidence that a clip shows is among the spans of its item.
LEMMA SpanIs ==
    ASSUME NEW row \in Annotation, NEW env, NEW e \in row.evidence, NEW t \in e.from..(e.to - 1),
           NEW c \in ToSet(Sessions(env)), c \in Clip,
           c.video = e.video, c.from <= t, t < c.to
    PROVE  \E s \in Spans(row, env) :
              /\ s.clip.video = e.video
              /\ s.clip.from + s.from <= t /\ t < s.clip.from + s.to
              /\ s.clip.from + s.to <= s.clip.to
<1> DEFINE s == [clip |-> c, from |-> IF e.from > c.from THEN e.from - c.from ELSE 0,
                 to |-> Least(e.to, c.to) - c.from]
<1>1. e.from \in Nat /\ e.to \in Nat /\ c.from \in Nat /\ c.to \in Nat
  BY DEF Annotation, Clip
<1>2. t \in Nat /\ e.from <= t /\ t < e.to
  BY <1>1
<1>3. Shares(c, e)
  BY <1>1, <1>2 DEF Shares
<1>4. s \in Spans(row, env)
  BY <1>3 DEF Spans
<1>5. s.clip = c /\ c.from + s.from <= t /\ t < c.from + s.to /\ c.from + s.to <= c.to
  BY <1>1, <1>2 DEF Least
<1> QED
  BY <1>4, <1>5

\* No frame of an item's clips is of the moment its question is put, or later;
\* its clips follow on each other from the beginning, and every second of its
\* evidence that was recorded is in one of them, where the item says.
THEOREM FutureIsAbsent == Spec => []PastIsWholeFutureIsAbsent
<1>1. Init => Asked /\ Pictured /\ Made
  BY DEF Init, SuiteInit, Asked, Pictured, Made
<1>2. Inv /\ [Next]_vars => Inv'
  BY InvStep
<1>3. Inv /\ Inv' /\ Asked /\ Pictured /\ Made /\ [Next]_vars => Asked' /\ Pictured' /\ Made'
  BY AskedStep, PicturedStep, MadeStep DEF Inv
<1>4. Inv /\ Asked /\ Pictured /\ Made => PastIsWholeFutureIsAbsent
  <2> SUFFICES ASSUME Inv, Asked, Pictured, Made, release # None,
                      NEW x \in DOMAIN release.items
               PROVE  LET row == selected[x].row
                          env == release.items[x].env
                          clips == Sessions(env)
                      IN  /\ \A k \in DOMAIN clips :
                                /\ clips[k] \in DOMAIN media
                                /\ \A f \in Range(media[clips[k]]) :
                                      /\ clips[k].from <= f /\ f < clips[k].to
                                      /\ StartOf(clips[k].video) + f < Boundary(row)
                                /\ k > 1 => IF clips[k].from = 0
                                            THEN StartOf(clips[k - 1].video) <= StartOf(clips[k].video)
                                            ELSE /\ clips[k].video = clips[k - 1].video
                                                 /\ clips[k].from = clips[k - 1].to
                          /\ \A e \in row.evidence : \A t \in e.from..(e.to - 1) :
                                t < duration[e.video] =>
                                   \E s \in release.items[x].spans :
                                      /\ s.clip.video = e.video
                                      /\ s.clip.from + s.from <= t /\ t < s.clip.from + s.to
                                      /\ s.clip.from + s.to <= s.clip.to
    BY DEF PastIsWholeFutureIsAbsent
  <2> DEFINE row == selected[x].row
             env == EnvOf(x)
             clips == Sessions(env)
  <2>1. /\ Jobs \subseteq DOMAIN media /\ IsList(release.items)
        /\ Len(release.items) <= Len(selected)
        /\ release.items[x].env = env /\ release.items[x].spans = Spans(row, env)
    <3>1. /\ Jobs \subseteq DOMAIN media /\ IsList(release.items)
          /\ Len(release.items) <= Len(selected)
          /\ release.items[x] = [id |-> x, env |-> env, spans |-> Spans(row, env)]
      BY DEF Made
    <3> HIDE DEF row, env
    <3> QED
      BY <3>1
  <2>2. SelectionOK /\ Timed
    BY DEF Inv, Made, SelectionOK, Begun
  <2>3. x \in DOMAIN selected
    BY <2>1, <2>2 DEF IsList, SelectionOK
  <2>4. row \in Annotation
    <3>1. selected[x] \in Example
      BY <2>2, <2>3 DEF SelectionOK
    <3> QED
      BY <3>1 DEF Example
  <2>5. clips \in Seq(Clip)
    BY <2>2, <2>3, SessionsAre
  <2>6. \A c \in ToSet(clips) : c \in Clip
    BY <2>5 DEF ToSet
  <2>7. /\ \A k \in DOMAIN clips :
              /\ clips[k] \in DOMAIN media
              /\ \A f \in Range(media[clips[k]]) :
                    /\ clips[k].from <= f /\ f < clips[k].to
                    /\ StartOf(clips[k].video) + f < Boundary(row)
              /\ k > 1 => IF clips[k].from = 0
                          THEN StartOf(clips[k - 1].video) <= StartOf(clips[k].video)
                          ELSE /\ clips[k].video = clips[k - 1].video
                               /\ clips[k].from = clips[k - 1].to
        /\ \A e \in row.evidence : \A t \in e.from..(e.to - 1) :
              t < duration[e.video] =>
                 \E c \in ToSet(clips) : c.video = e.video /\ c.from <= t /\ t < c.to
    BY <2>1, <2>2, <2>3, ItemIs
  <2> HIDE DEF row, env
  <2>8. ASSUME NEW e \in row.evidence, NEW t \in e.from..(e.to - 1), t < duration[e.video]
        PROVE  \E s \in Spans(row, env) :
                  /\ s.clip.video = e.video
                  /\ s.clip.from + s.from <= t /\ t < s.clip.from + s.to
                  /\ s.clip.from + s.to <= s.clip.to
    <3>1. PICK c \in ToSet(clips) : c.video = e.video /\ c.from <= t /\ t < c.to
      BY <2>7, <2>8
    <3> QED
      BY <2>4, <2>6, <3>1, SpanIs
  <2> QED
    BY <2>1, <2>7, <2>8 DEF row
<1> QED
  BY <1>1, <1>2, <1>3, <1>4, Invariance, InvInit, PTL DEF Spec
=============================================================================
