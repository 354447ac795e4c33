---------------------------- MODULE Evidence_proofs ----------------------------
(***************************************************************************)
(* Theorems about what a system under test is handed, and what it makes of *)
(* it. About Staging, for any number of videos and of processes, on both   *)
(* platforms, in both modes, over any number of attempts: the data set     *)
(* survives, and a revocation that leaves something readable says so. And  *)
(* about Memory, for any systems, films and homes, any numbers of frames,  *)
(* retries and questions: each system is one that recalls, what it reports *)
(* is what it keeps, and what an oracle run is shown is spread over all    *)
(* sessions. The two share nothing but this module.                        *)
(***************************************************************************)
EXTENDS Staging, Memory, FiniteSetTheorems, SequenceTheorems, WellFoundedInduction, TLAPS

-----------------------------------------------------------------------------
(* Staging: the inductive invariant.                                       *)

\* A copy never shares its inode with the original, a link always does, and so
\* do the descriptors opened through either.
Separate ==
    /\ \A n \in Names : mode[n] = "copy" => path[n] # "source"
    /\ \A n \in Names : mode[n] = "hardlink" => path[n] # "own"
    /\ \A h \in handles : mode[h[2]] # "none"
    /\ \A h \in handles : mode[h[2]] = "copy" => h[3] = "own"

\* Revocation has only staged files to treat, one at a time, and only the system
\* under test makes such a file disappear.
Treating ==
    /\ \A m, n \in cut : m = n
    /\ phase = "open" => cut = {}
    /\ phase = "open" => \A n \in Files : path[n] = "none" => n \in removed
    /\ phase = "revoking" => left \subseteq Files
    /\ phase = "revoking" =>
          \A n \in left \ cut : path[n] = "none" => n \in removed
    /\ phase = "revoked" => left = {}

Reported(n) == n \in report.open \cup report.contested \cup report.errors

\* A file that has been treated is reported, or was a copy and is empty.
Treated ==
    phase \in {"revoking", "revoked"} =>
        \A n \in Files \ removed : n \notin left \/ n \in cut =>
            Reported(n) \/ (mode[n] = "copy" /\ data[n] = "empty")

AreaInv == AreaTypeOK /\ SourcesIntact /\ Separate /\ Treating /\ Treated /\ HandedIsWhole

LEMMA AreaInitInv == AreaInit => AreaInv
BY StagingAssumption
DEF StagingAssumption, AreaInit, AreaInv, AreaTypeOK, Contents, Inodes, SourcesIntact,
    Separate, Treating, Treated, HandedIsWhole, Content, Files, NoReport

-----------------------------------------------------------------------------
(* Each step of Staging keeps it.                                          *)

LEMMA StageInv ==
    ASSUME AreaInv, NEW n \in Names, Stage(n) \/ StageFails(n)
    PROVE  AreaInv'
<1> USE DEF AreaInv, AreaTypeOK, Contents, Inodes, Stage, StageFails, Files, setting, disk
<1>1. AreaTypeOK'
  OBVIOUS
<1>2. SourcesIntact' /\ HandedIsWhole'
  BY DEF SourcesIntact, HandedIsWhole, Content
<1>3. Separate'
  BY DEF Separate
<1>4. Treating' /\ Treated'
  BY DEF Treating, Treated
<1>5. QED
  BY <1>1, <1>2, <1>3, <1>4

LEMMA NewReportType ==
    ASSUME NEW audit \in SUBSET Names
    PROVE  [open |-> audit, contested |-> {}, errors |-> {}] \in
               [open : SUBSET Names, contested : SUBSET Names, errors : SUBSET Names]
OBVIOUS

LEMMA RevokeInv ==
    ASSUME AreaInv, Revoke
    PROVE  AreaInv'
<1> USE DEF AreaInv, AreaTypeOK, Contents, Inodes, Revoke, Files, setting, disk
<1>1. AreaTypeOK'
  <2>1. Audit \subseteq Names
    BY DEF Audit
  <2>2. report' = [open |-> Audit, contested |-> {}, errors |-> {}]
    BY DEF NoReport
  <2>3. report' \in [open : SUBSET Names, contested : SUBSET Names,
                      errors : SUBSET Names]
    BY <2>1, <2>2, NewReportType
  <2>4. left' \subseteq Names /\ cut' \subseteq left'
    BY DEF Treating
  <2>5. QED
    BY <2>3, <2>4
<1>2. SourcesIntact' /\ HandedIsWhole' /\ Separate'
  BY DEF SourcesIntact, HandedIsWhole, Content, Separate
<1>3. Treating' /\ Treated'
  BY DEF Treating, Treated
<1>4. QED
  BY <1>1, <1>2, <1>3

LEMMA SkipInv ==
    ASSUME AreaInv, NEW n \in Names, Skip(n)
    PROVE  AreaInv'
<1> USE DEF AreaInv, AreaTypeOK, Contents, Inodes, Skip, Files, setting, disk
<1>1. AreaTypeOK'
  OBVIOUS
<1>2. SourcesIntact' /\ HandedIsWhole' /\ Separate'
  BY DEF SourcesIntact, HandedIsWhole, Content, Separate
<1>3. Treating' /\ Treated'
  BY DEF Treating, Treated, Reported
<1>4. QED
  BY <1>1, <1>2, <1>3

LEMMA TruncateInv ==
    ASSUME AreaInv, NEW n \in Names, Truncate(n)
    PROVE  AreaInv'
<1> USE DEF AreaInv, AreaTypeOK, Contents, Inodes, Truncate, Empty, Files, setting, disk
<1>1. mode[n] = "copy" \/ (mode[n] = "hardlink" /\ path[n] = "source")
  BY DEF Treating, Separate
<1>2. CASE mode[n] = "hardlink" /\ path[n] = "source"
  <2>1. AreaTypeOK'
    BY <1>2
  <2>2. SourcesIntact' /\ HandedIsWhole' /\ Separate'
    BY <1>2 DEF SourcesIntact, HandedIsWhole, Content, Separate
  <2>3. Treating' /\ Treated'
    BY <1>2 DEF Treating, Treated, Reported
  <2>4. QED
    BY <2>1, <2>2, <2>3
<1>3. CASE mode[n] = "copy"
  <2>1. path[n] = "own"
    BY <1>3 DEF Separate
  <2>2. AreaTypeOK'
    BY <1>3, <2>1
  <2>3. SourcesIntact' /\ HandedIsWhole' /\ Separate'
    BY <1>3, <2>1 DEF SourcesIntact, HandedIsWhole, Content, Separate
  <2>4. Treating' /\ Treated'
    BY <1>3, <2>1 DEF Treating, Treated, Reported
  <2>5. QED
    BY <2>2, <2>3, <2>4
<1>4. QED
  BY <1>1, <1>2, <1>3

LEMMA UnlinkInv ==
    ASSUME AreaInv, NEW n \in Names, Unlink(n)
    PROVE  AreaInv'
<1> USE DEF AreaInv, AreaTypeOK, Contents, Inodes, Unlink, Files, setting, disk
<1>1. AreaTypeOK'
  OBVIOUS
<1>2. SourcesIntact' /\ HandedIsWhole' /\ Separate'
  BY DEF SourcesIntact, HandedIsWhole, Content, Separate, Treating
<1>3. Treating' /\ Treated'
  BY DEF Treating, Treated, Reported
<1>4. QED
  BY <1>1, <1>2, <1>3

LEMMA LeavingInv ==
    ASSUME AreaInv, RevokeReturns \/ Destroy \/ Kill \/ Enter
    PROVE  AreaInv'
<1> USE DEF AreaInv, AreaTypeOK, Contents, Inodes, Files, setting, disk
<1>1. CASE RevokeReturns
  BY <1>1 DEF RevokeReturns, SourcesIntact, HandedIsWhole, Content, Separate, Treating,
              Treated, Reported
<1>2. CASE Destroy
  BY <1>2 DEF Destroy, SourcesIntact, HandedIsWhole, Content, Separate, Treating, Treated
<1>3. CASE Kill
  BY <1>3 DEF Kill, SourcesIntact, HandedIsWhole, Content, Separate, Treating, Treated
<1>4. CASE Enter
  BY <1>4 DEF Enter, NoReport, SourcesIntact, HandedIsWhole, Content, Separate,
              Treating, Treated
<1>5. QED
  BY <1>1, <1>2, <1>3, <1>4

LEMMA SystemInv ==
    ASSUME AreaInv,
           \/ \E p \in Processes, n \in Names : Open(p, n)
           \/ \E h \in handles : CloseHandle(h)
           \/ \E n \in Names : Delete(n)
    PROVE  AreaInv'
<1> USE DEF AreaInv, AreaTypeOK, Contents, Inodes, Files, setting, disk
<1>1. ASSUME NEW p \in Processes, NEW n \in Names, Open(p, n)
      PROVE  AreaInv'
  <2>1. handles' = handles \cup {<<p, n, path[n]>>} /\ path[n] \in Inodes
    BY <1>1 DEF Open
  <2>2. AreaTypeOK'
    BY <1>1, <2>1 DEF Open
  <2>3. Separate'
    BY <1>1, <2>1 DEF Open, Separate
  <2>4. SourcesIntact' /\ HandedIsWhole' /\ Treating' /\ Treated'
    BY <1>1 DEF Open, SourcesIntact, HandedIsWhole, Content, Treating, Treated, Reported
  <2>5. QED
    BY <2>2, <2>3, <2>4
<1>2. ASSUME NEW h \in handles, CloseHandle(h)
      PROVE  AreaInv'
  BY <1>2 DEF CloseHandle, SourcesIntact, HandedIsWhole, Content, Separate, Treating,
              Treated, Reported
<1>3. ASSUME NEW n \in Names, Delete(n)
      PROVE  AreaInv'
  BY <1>3 DEF Delete, SourcesIntact, HandedIsWhole, Content, Separate, Treating,
              Treated, Reported
<1>4. QED
  BY <1>1, <1>2, <1>3

LEMMA Invariant == AreaSpec => []AreaInv
<1>1. AreaInit => AreaInv
  BY AreaInitInv
<1>2. AreaInv /\ [AreaNext]_areaVars => AreaInv'
  <2>1. CASE UNCHANGED areaVars
    BY <2>1 DEF areaVars, setting, disk, AreaInv, AreaTypeOK, SourcesIntact, HandedIsWhole,
                Content, Separate, Treating, Treated, Reported, Files
  <2>2. QED
    BY <2>1, StageInv, RevokeInv, SkipInv, TruncateInv, UnlinkInv, LeavingInv,
       SystemInv DEF AreaNext
<1>3. QED
  BY <1>1, <1>2, PTL DEF AreaSpec

-----------------------------------------------------------------------------
(* The theorems about Staging.                                             *)

\* Every variable keeps its type.
THEOREM AreaTypeCorrect == AreaSpec => []AreaTypeOK
<1>1. AreaInv => AreaTypeOK
  BY DEF AreaInv
<1>2. QED
  BY <1>1, Invariant, PTL

\* The dataset survives every revocation, after killed attempts in another mode
\* too: what is truncated is a copy, whose inode is never the original's.
THEOREM DatasetSurvives == AreaSpec => []SourcesIntact
<1>1. AreaInv => SourcesIntact
  BY DEF AreaInv
<1>2. QED
  BY <1>1, Invariant, PTL

\* Nothing that was emptied or cut short is handed to a system, whatever earlier
\* attempts left in the directory because it could not be removed.
THEOREM HandedWhole == AreaSpec => []HandedIsWhole
<1>1. AreaInv => HandedIsWhole
  BY DEF AreaInv
<1>2. QED
  BY <1>1, Invariant, PTL

\* A revocation that leaves something readable says so, whichever process
\* opened what at whatever moment.
THEOREM RevocationIsHonest == AreaSpec => []ReadableIsReported
<1>1. AreaInv => ReadableIsReported
  <2> SUFFICES ASSUME AreaInv, phase = "revoked", NEW n \in Files \ removed, Readable(n)
               PROVE  Reported(n)
    BY DEF ReadableIsReported, Reported
  <2>1. n \in Names /\ n \notin left
    BY DEF AreaInv, Treating, Files
  <2>2. SUFFICES ASSUME mode[n] = "copy", data[n] = "empty"
                 PROVE  FALSE
    BY <2>1 DEF AreaInv, Treated
  <2>3. ~(path[n] # "none" /\ Content(n, path[n]) = "video")
    BY <2>1, <2>2 DEF AreaInv, Separate, Content
  <2>4. ASSUME NEW h \in handles, h[2] = n, Content(n, h[3]) = "video"
        PROVE  FALSE
    BY <2>2, <2>4 DEF AreaInv, Separate, Content
  <2>5. QED
    BY <2>3, <2>4 DEF Readable
<1>2. QED
  BY <1>1, Invariant, PTL

-----------------------------------------------------------------------------
(* Memory: the inductive invariant.                                        *)

\* The homes there are, and the number of the one that is shown.
Housed ==
    /\ homes \in Neighbourhoods /\ home \in Nat /\ shown \in Nat
    /\ home # 0 => home \in 1..Len(homes) /\ shown <= Len(homes[home])
    /\ home = 0 => shown = 0 /\ pc = "idle"

\* The sessions that are retained are the first ones, in their order.
Retained == paths \in Seq(Nat) /\ Len(paths) <= shown /\ \A x \in DOMAIN paths : paths[x] = x

TypeOK ==
    /\ Housed /\ Retained
    /\ system \in Systems
    /\ pc \in {"idle", "ingest", "query", "exited"}
    /\ notes \in Seq(SUBSET Frame)
    /\ cache \in {None} \cup Seq(Frame)
    /\ weights \in SUBSET Frame
    /\ writes \in Nat /\ asked \in Nat
    /\ stats \in Seq([frames : Nat, chars : Nat]) /\ Len(stats) = shown
    /\ ack \in {None} \cup [records : Nat, frames : Nat \cup {None}]

Oracle == Generative /\ system.mode = "oracle"

\* A call is made for a note on the session that is shown, or for an answer
\* from what is kept.
Calling ==
    call # None =>
       /\ Generative
       /\ call = [for |-> call.for, frames |-> call.frames, from |-> call.from,
                  tries |-> call.tries]
       /\ \/ /\ call.for = "note" /\ pc = "ingest" /\ system.mode = "memory"
             /\ shown < Len(homes[home])
             /\ call.from = {} /\ call.frames # <<>>
             /\ call.frames \in Seq([home : {home}, session : {Session}, at : Nat])
          \/ /\ call.for = "answer" /\ pc = "query"
             /\ call.frames = IF system.mode = "oracle" THEN cache ELSE <<>>
             /\ call.from = IF system.mode = "memory" THEN FramesOf(notes) ELSE {}

\* What each sort of system keeps: frames of the sessions shown of this home.
Keeping ==
    /\ notes # <<>> => Generative /\ system.mode = "memory"
    /\ weights # {} => system.kind \in {"lact", "mean", "lora"} /\ system.mode # "blind"
    /\ cache # None => Oracle /\ pc \in {"query", "idle"} /\ ~OracleFails /\ cache = OracleFrames
    /\ Oracle => Len(paths) = shown
    /\ Oracle /\ pc = "query" => cache # None
    /\ system.mode = "blind" /\ system.kind # "echo" => writes = 0
    /\ \A f \in Recalled : f.home = home /\ f.session \in 1..shown

Records ==
    IF Generative THEN Len(notes) ELSE IF system.kind \in {"none", "lora"} THEN 0 ELSE writes

Remembers == system.mode = "memory" /\ system.kind \notin {"echo", "none"}

\* What is reported of the sessions is what is kept of them.
Counting ==
    pc # "idle" /\ Remembers =>
       /\ \A x \in DOMAIN stats : Contributed(x) <=> \E f \in Recalled : f.session = x
       /\ system.kind # "lora" => Records = Cardinality({x \in DOMAIN stats : stats[x].frames > 0})

\* Once the sessions are over it is reported what there is, and answered from it.
Answering ==
    /\ pc = "ingest" => ack = None /\ answer = None
    /\ pc = "query" =>
          /\ ack = IF Oracle THEN [records |-> Len(cache), frames |-> Len(cache)]
                   ELSE [records |-> Records, frames |-> None]
          /\ \/ answer = None
             \/ answer \subseteq Recalled /\ (system.kind = "vlm" => answer = Recalled)

Inv == TypeOK /\ Calling /\ Keeping /\ Counting /\ Answering

-----------------------------------------------------------------------------
(* Numbers.                                                                *)

LEMMA DivIs ==
    ASSUME NEW a \in Nat, NEW b \in Nat \ {0}
    PROVE  /\ a \div b \in Nat /\ (a \div b) * b <= a /\ a < (a \div b) * b + b
OBVIOUS

LEMMA Cancel ==
    ASSUME NEW a \in Int, NEW b \in Int, NEW c \in Nat \ {0}, a * c < b * c
    PROVE  a < b
OBVIOUS
\* Of K places that are spread evenly over L, one is in any window of n of these
\* when L is at most n * K.
LEMMA Window ==
    ASSUME NEW L \in Nat \ {0}, NEW K \in Nat \ {0}, NEW o \in Nat, NEW n \in Nat, o + n <= L, n * K >= L
    PROVE  \E p \in 0..(K - 1) : (p * L) \div K \in o..(o + n - 1)
<1> DEFINE p == (o * K + (L - 1)) \div L
           q == (p * L) \div K
<1>1. o * K \in Nat /\ n * K \in Nat /\ L * K \in Nat
  OBVIOUS
<1>2. p \in Nat /\ p * L <= o * K + (L - 1) /\ o * K + (L - 1) < p * L + L
  BY <1>1, DivIs
<1> HIDE DEF p
<1>3. p * L \in Nat /\ o * K <= p * L /\ p * L < o * K + n * K
  BY <1>1, <1>2
<1>4. q \in Nat /\ q * K <= p * L /\ p * L < q * K + K
  BY <1>3, DivIs
<1> HIDE DEF q
<1>5. q * K < (o + n) * K /\ o * K < (q + 1) * K
  BY <1>1, <1>3, <1>4
<1>6. q < o + n /\ o < q + 1
  BY <1>4, <1>5, Cancel
<1>7. (o + n) * K <= K * L
  OBVIOUS
<1>8. p * L < K * L
  BY <1>1, <1>3, <1>7
<1>9. p < K
  BY <1>2, <1>8, Cancel
<1>10. p \in 0..(K - 1) /\ q \in o..(o + n - 1)
  BY <1>2, <1>4, <1>6, <1>9
<1> QED
  BY <1>10 DEF q

LEMMA DivMono ==
    ASSUME NEW a \in Nat, NEW b \in Nat, NEW K \in Nat \ {0}, a <= b
    PROVE  a \div K <= b \div K
<1> DEFINE x == a \div K
           y == b \div K
<1>1. x \in Nat /\ x * K <= a /\ y \in Nat /\ b < y * K + K
  BY DivIs
<1> HIDE DEF x, y
<1>2. x * K < (y + 1) * K
  BY <1>1
<1>3. x < y + 1
  BY <1>1, <1>2, Cancel
<1> QED
  BY <1>1, <1>3 DEF x, y

-----------------------------------------------------------------------------
(* The frames of a video.                                                  *)

\* The values of a function with a finite domain.
LEMMA ValuesAreFinite ==
    ASSUME NEW S, IsFiniteSet(S), NEW f, DOMAIN f = S
    PROVE  IsFiniteSet({f[x] : x \in S})
<1> DEFINE T == {f[x] : x \in S}
           g == [x \in S |-> f[x]]
<1>1. g \in Surjection(S, T)
  BY DEF Surjection
<1> QED
  BY <1>1, FS_Surjection

LEMMA MinIs ==
    ASSUME NEW S \in SUBSET Nat, S # {}
    PROVE  Min(S) \in S /\ \A y \in S : Min(S) <= y
<1> DEFINE T == {0..x : x \in S}
<1>1. T \subseteq FiniteSubsetsOf(Nat) /\ T # {}
  <2>1. ASSUME NEW x \in S PROVE 0..x \in SUBSET Nat /\ IsFiniteSet(0..x)
    BY FS_Interval
  <2> QED
    BY <2>1 DEF FiniteSubsetsOf
<1>2. PICK t \in T : \A u \in T : <<u, t>> \notin StrictSubsetOrdering(Nat)
  BY <1>1, FS_StrictSubsetOrderingWellFounded, WFMin
<1>3. PICK m \in S : t = 0..m
  OBVIOUS
<1>4. ASSUME NEW y \in S, y < m PROVE FALSE
  <2>1. 0..y \in T /\ 0..y \subseteq 0..m /\ 0..y # 0..m
    BY <1>4
  <2>2. <<0..y, 0..m>> \in StrictSubsetOrdering(Nat)
    BY <1>3, <2>1 DEF StrictSubsetOrdering
  <2> QED
    BY <1>2, <1>3, <2>1, <2>2
<1>5. \A y \in S : m <= y
  BY <1>4
<1> QED
  BY <1>5 DEF Min

LEMMA MaxIs ==
    ASSUME NEW S \in SUBSET Nat, S # {}, IsFiniteSet(S)
    PROVE  Max(S) \in S /\ \A y \in S : y <= Max(S)
<1> DEFINE U(x) == {y \in S : x < y}
           T == {U(x) : x \in S}
<1>1. T \subseteq FiniteSubsetsOf(S) /\ T # {}
  <2>1. ASSUME NEW x \in S PROVE U(x) \in SUBSET S /\ IsFiniteSet(U(x))
    BY FS_Subset
  <2> QED
    BY <2>1 DEF FiniteSubsetsOf
<1>2. PICK t \in T : \A u \in T : <<u, t>> \notin StrictSubsetOrdering(S)
  <2> HIDE DEF T
  <2> QED
    BY <1>1, FS_StrictSubsetOrderingWellFounded, WFMin
<1>3. PICK m \in S : t = U(m)
  OBVIOUS
<1>4. ASSUME NEW y \in S, m < y PROVE FALSE
  <2>1. y \in U(m) /\ y \notin U(y) /\ U(y) \in T
    <3>1. y \in Nat /\ ~(y < y)
      OBVIOUS
    <3> QED
      BY <1>4, <3>1
  <2>3. U(y) \subseteq U(m)
    <3>1. ASSUME NEW z \in S, y < z PROVE m < z
      <4>1. m \in Nat /\ y \in Nat /\ z \in Nat
        OBVIOUS
      <4> QED
        BY <1>4, <3>1, <4>1
    <3> QED
      BY <3>1
  <2>2. <<U(y), U(m)>> \in StrictSubsetOrdering(S)
    BY <2>1, <2>3 DEF StrictSubsetOrdering
  <2> QED
    BY <1>2, <1>3, <2>1, <2>2
<1>5. \A y \in S : y <= m
  BY <1>4
<1> QED
  BY <1>5 DEF Max

\* A sequence of times that never go back.
Ordered(s) == \A j, k \in DOMAIN s : j <= k => s[j] <= s[k]

LEMMA VideoIs ==
    ASSUME NEW v, IsVideo(v)
    PROVE  /\ v.at \in Seq(Nat) /\ Ordered(v.at)
           /\ Instants(v) \in SUBSET Nat /\ IsFiniteSet(Instants(v))
           /\ v.at # <<>> => Instants(v) # {}
<1>1. v.at \in Seq(Nat) /\ Len(v.at) \in Nat /\ DOMAIN v.at = 1..Len(v.at)
  BY DEF IsVideo
<1>2. Ordered(v.at)
  <2> SUFFICES ASSUME NEW j \in DOMAIN v.at PROVE \A k \in DOMAIN v.at : j <= k => v.at[j] <= v.at[k]
    BY DEF Ordered
  <2> DEFINE Bad == {k \in DOMAIN v.at : j <= k /\ ~(v.at[j] <= v.at[k])}
             k == Min(Bad)
  <2> SUFFICES ASSUME Bad # {} PROVE FALSE
    OBVIOUS
  <2>1. Bad \in SUBSET Nat
    BY <1>1
  <2>2. k \in Bad /\ \A y \in Bad : k <= y
    <3> HIDE DEF Bad
    <3> QED
      BY <2>1, MinIs
  <2> HIDE DEF k
  <2>3. k \in 1..Len(v.at) /\ j <= k /\ ~(v.at[j] <= v.at[k])
    BY <1>1, <2>2
  <2>4. v.at[j] \in Nat /\ v.at[k] \in Nat /\ j \in 1..Len(v.at)
    BY <1>1, <2>3, ElementOfSeq
  <2>5. k # j
    BY <2>3, <2>4
  <2>6. k - 1 \in 1..Len(v.at) /\ j <= k - 1 /\ k \in 2..Len(v.at) /\ ~(k <= k - 1)
    BY <1>1, <2>3, <2>4, <2>5
  <2>7. v.at[k - 1] <= v.at[k] /\ v.at[k - 1] \in Nat
    BY <1>1, <2>6, ElementOfSeq DEF IsVideo
  <2>8. ~(v.at[j] <= v.at[k - 1])
    BY <2>3, <2>4, <2>7
  <2>9. k - 1 \in Bad
    BY <1>1, <2>6, <2>8
  <2> QED
    BY <2>2, <2>6, <2>9
<1>3. Instants(v) \in SUBSET Nat
  BY <1>1, ElementOfSeq DEF Instants
<1>4. IsFiniteSet(Instants(v))
  <2>1. IsFiniteSet(DOMAIN v.at)
    BY <1>1, FS_Interval
  <2> QED
    BY <1>1, <2>1, ValuesAreFinite DEF Instants
<1>5. v.at # <<>> => Instants(v) # {}
  <2>1. v.at # <<>> => 1 \in DOMAIN v.at
    BY <1>1, EmptySeq
  <2> QED
    BY <2>1 DEF Instants
<1> QED
  BY <1>1, <1>2, <1>3, <1>4, <1>5

\* The instants at or after the middle of the k-th of n parts.
Due(v, k, n) == {t \in Instants(v) : (2 * k - 1) * v.duration <= 2 * n * t}

\* A later target has a later frame.
LEMMA FrameAtIs ==
    ASSUME NEW v, IsVideo(v), v.duration # None, NEW n \in Nat \ {0}, v.at # <<>>, v.seeks
    PROVE  /\ \A k \in 1..n : FrameAt(v, k, n) \in Nat
           /\ \A j, k \in 1..n : j <= k => FrameAt(v, j, n) <= FrameAt(v, k, n)
<1>1. Instants(v) \in SUBSET Nat /\ IsFiniteSet(Instants(v)) /\ Instants(v) # {}
  BY VideoIs
<1>2. v.duration \in Nat
  BY DEF IsVideo
<1>3. \A k \in 1..n : FrameAt(v, k, n) = IF Due(v, k, n) = {} THEN Max(Instants(v)) ELSE Min(Due(v, k, n))
  BY DEF FrameAt, Due
<1>4. Max(Instants(v)) \in Instants(v) /\ \A t \in Instants(v) : t <= Max(Instants(v))
  BY <1>1, MaxIs
<1>5. ASSUME NEW k \in 1..n, Due(v, k, n) # {}
      PROVE  Min(Due(v, k, n)) \in Due(v, k, n) /\ \A t \in Due(v, k, n) : Min(Due(v, k, n)) <= t
  <2>1. Due(v, k, n) \in SUBSET Nat
    BY <1>1 DEF Due
  <2> QED
    BY <1>5, <2>1, MinIs
<1>6. ASSUME NEW k \in 1..n PROVE FrameAt(v, k, n) \in Instants(v)
  BY <1>3, <1>4, <1>5 DEF Due
<1>7. ASSUME NEW j \in 1..n, NEW k \in 1..n, j <= k
      PROVE  FrameAt(v, j, n) <= FrameAt(v, k, n)
  <2>1. ASSUME NEW t \in Due(v, k, n) PROVE t \in Due(v, j, n)
    <3>1. t \in Instants(v) /\ t \in Nat /\ (2 * k - 1) * v.duration <= 2 * n * t
      BY <1>1, <2>1 DEF Due
    <3> DEFINE a == 2 * j - 1
               b == 2 * k - 1
    <3>2. a \in Nat /\ b - a \in Nat /\ 2 * n * t \in Nat
      BY <1>7, <3>1
    <3> HIDE DEF a, b
    <3>3. a * v.duration <= b * v.duration
      <4>1. b \in Int /\ (b - a) * v.duration \in Nat
        BY <1>2, <3>2 DEF b
      <4>2. b * v.duration = a * v.duration + (b - a) * v.duration
        BY <1>2, <3>2, <4>1
      <4> QED
        BY <1>2, <3>2, <4>1, <4>2
    <3>4. a * v.duration <= 2 * n * t
      <4>1. a * v.duration \in Int /\ b * v.duration \in Int
        BY <1>2, <3>2 DEF b
      <4> QED
        BY <3>1, <3>2, <3>3, <4>1 DEF b
    <3> QED
      BY <3>1, <3>4 DEF Due, a
  <2>2. CASE Due(v, k, n) = {}
    BY <1>1, <1>3, <1>4, <1>6, <2>2
  <2>3. CASE Due(v, k, n) # {}
    <3>1. Due(v, j, n) # {} /\ Min(Due(v, k, n)) \in Due(v, j, n)
      BY <1>5, <2>1, <2>3
    <3> QED
      BY <1>3, <1>5, <2>3, <3>1
  <2> QED
    BY <2>2, <2>3
<1> QED
  BY <1>1, <1>6, <1>7

LEMMA SequentialIs ==
    ASSUME NEW v, IsVideo(v), NEW n \in Nat \ {0}
    PROVE  Sequential(v, n) \in Seq(Nat) /\ Ordered(Sequential(v, n))
<1> DEFINE L == Len(v.at)
           stride == IF v.duration = None \/ L < n THEN 1 ELSE L \div n
           place(k) == 1 + (k - 1) * stride
           D == {k \in 1..n : place(k) <= L}
           s == [k \in D |-> v.at[place(k)]]
<1>1. v.at \in Seq(Nat) /\ L \in Nat /\ DOMAIN v.at = 1..L /\ Ordered(v.at)
  BY VideoIs
<1>2. Sequential(v, n) = s
  BY DEF Sequential
<1>3. stride \in Nat \ {0}
  <2>1. CASE v.duration = None \/ L < n
    <3>1. stride = 1
      BY <2>1, Zenon
    <3> HIDE DEF stride
    <3> QED
      BY <3>1
  <2>2. CASE ~(v.duration = None \/ L < n)
    <3>1. L \div n \in Nat /\ L < (L \div n) * n + n
      BY <1>1, DivIs
    <3>2. ~(L < n) /\ stride = L \div n
      BY <2>2, Zenon
    <3> HIDE DEF stride
    <3>3. L \div n # 0
      <4> DEFINE q == L \div n
      <4>1. L < q * n + n /\ ~(L < n) /\ L \in Nat
        BY <1>1, <3>1, <3>2
      <4> HIDE DEF q, L
      <4>2. q # 0
        BY <4>1
      <4> QED
        BY <4>2 DEF q
    <3> QED
      BY <3>1, <3>2, <3>3
  <2> QED
    BY <2>1, <2>2
<1> HIDE DEF stride
<1>4. ASSUME NEW j \in Nat \ {0}, NEW k \in Nat, j <= k PROVE place(j) \in Nat \ {0} /\ place(j) <= place(k)
  <2>1. (k - j) * stride \in Nat /\ (j - 1) * stride \in Nat
    BY <1>3, <1>4
  <2>2. (k - 1) * stride = (j - 1) * stride + (k - j) * stride
    BY <1>3
  <2> QED
    BY <2>1, <2>2
<1>5. \A k \in 1..n : place(k) \in Nat \ {0}
  BY <1>4
<1> HIDE DEF place
<1>6. \A k \in D : place(k) \in 1..L
  BY <1>1, <1>5
<1>7. \E m \in Nat : D = 1..m
  <2> DEFINE Bad == {k \in Nat : k \notin D /\ k # 0}
  <2>1. n + 1 \in Bad
    OBVIOUS
  <2>2. Bad \in SUBSET Nat /\ Bad # {}
    BY <2>1
  <2> DEFINE m == Min(Bad)
  <2>3. m \in Bad /\ \A y \in Bad : m <= y
    <3> HIDE DEF Bad
    <3> QED
      BY <2>2, MinIs
  <2> HIDE DEF m
  <2>4. m \in Nat \ {0} /\ m \notin D
    BY <2>3
  <2>5. ASSUME NEW k \in D PROVE k \in 1..(m - 1)
    <3>1. k \in 1..n /\ place(k) <= L
      OBVIOUS
    <3> SUFFICES ASSUME m <= k PROVE FALSE
      BY <2>4, <3>1
    <3>2. m \in 1..n /\ place(m) <= place(k)
      BY <1>4, <2>4, <3>1
    <3>3. place(m) <= L
      BY <1>1, <1>5, <3>1, <3>2
    <3> QED
      BY <2>4, <3>2, <3>3
  <2>6. ASSUME NEW k \in 1..(m - 1) PROVE k \in D
    <3>1. k \in Nat /\ k # 0 /\ ~(m <= k)
      BY <2>4
    <3> HIDE DEF D
    <3> QED
      BY <2>3, <3>1
  <2>7. D = 1..(m - 1) /\ m - 1 \in Nat
    BY <2>4, <2>5, <2>6
  <2> QED
    BY <2>7
<1>8. PICK m \in Nat : D = 1..m
  BY <1>7
<1>9. D \subseteq 1..n
  OBVIOUS
<1> HIDE DEF D
<1>10. s \in Seq(Nat) /\ DOMAIN s = D
  <2>1. \A k \in D : v.at[place(k)] \in Nat
    BY <1>1, <1>6, ElementOfSeq
  <2>2. s \in [1..m -> Nat]
    BY <1>8, <2>1
  <2> QED
    BY <1>8, <2>2
<1>11. Ordered(s)
  <2> SUFFICES ASSUME NEW j \in D, NEW k \in D, j <= k PROVE s[j] <= s[k]
    BY <1>10 DEF Ordered
  <2>1. place(j) \in 1..L /\ place(k) \in 1..L /\ place(j) <= place(k)
    BY <1>4, <1>6, <1>9
  <2> QED
    BY <1>1, <2>1 DEF Ordered
<1> QED
  BY <1>2, <1>10, <1>11

\* A video that opens gives times that never go back.
LEMMA SampleIs ==
    ASSUME NEW v, IsVideo(v), NEW n \in Nat \ {0}
    PROVE  \/ SampleFrames(v, n) = MediaError
           \/ SampleFrames(v, n) \in Seq(Nat) /\ Ordered(SampleFrames(v, n))
<1> DEFINE found == [k \in 1..n |-> FrameAt(v, k, n)]
<1>1. CASE ~v.opens
  BY <1>1 DEF SampleFrames
<1>2. CASE v.opens /\ (v.duration = None \/ None \in ToSet(found))
  <2>1. SampleFrames(v, n) = Sequential(v, n)
    BY <1>2 DEF SampleFrames
  <2> QED
    BY <2>1, SequentialIs
<1>3. CASE v.opens /\ v.duration # None /\ None \notin ToSet(found)
  <2>1. SampleFrames(v, n) = found
    BY <1>3 DEF SampleFrames
  <2>2. 1 \in 1..n /\ FrameAt(v, 1, n) # None
    BY <1>3 DEF ToSet
  <2>3. v.at # <<>> /\ v.seeks
    BY <2>2 DEF FrameAt
  <2>4. /\ \A k \in 1..n : FrameAt(v, k, n) \in Nat
        /\ \A j, k \in 1..n : j <= k => FrameAt(v, j, n) <= FrameAt(v, k, n)
    BY <1>3, <2>3, FrameAtIs
  <2>5. found \in Seq(Nat) /\ Ordered(found)
    BY <2>4 DEF Ordered
  <2> QED
    BY <2>1, <2>5
<1> QED
  BY <1>1, <1>2, <1>3

-----------------------------------------------------------------------------
(* FlattenSeq, which is a recursive function.                              *)

\* f joins the first sequences of s, as FlattenSeq does.
Flat(f, s) == f = [i \in 1..Len(s) |-> IF i = 1 THEN s[i] ELSE f[i - 1] \o s[i]]

LEMMA FlatExists ==
    ASSUME NEW s, Len(s) \in Nat
    PROVE  \E f : Flat(f, s)
<1> DEFINE Upto(f, n) == f = [i \in 1..n |-> IF i = 1 THEN s[i] ELSE f[i - 1] \o s[i]]
           Bad == {n \in Nat : ~ \E f : Upto(f, n)}
<1>1. Bad = {}
  <2> SUFFICES ASSUME Bad # {} PROVE FALSE
    OBVIOUS
  <2> DEFINE n == Min(Bad)
  <2>1. n \in Nat /\ ~(\E f : Upto(f, n)) /\ \A y \in Bad : n <= y
    <3>1. Bad \in SUBSET Nat
      OBVIOUS
    <3>2. n \in Bad /\ \A y \in Bad : n <= y
      <4> HIDE DEF Bad
      <4> QED
        BY <3>1, MinIs
    <3> QED
      BY <3>2
  <2> HIDE DEF n
  <2>2. n # 0
    <3> DEFINE g == [i \in 1..0 |-> s[i]]
    <3>1. 1..0 = {}
      OBVIOUS
    <3>2. g = [i \in 1..0 |-> IF i = 1 THEN s[i] ELSE g[i - 1] \o s[i]]
      BY <3>1
    <3> HIDE DEF g
    <3>3. Upto(g, 0)
      BY <3>2
    <3> QED
      BY <2>1, <3>3
  <2>3. n - 1 \in Nat /\ n - 1 \notin Bad
    <3>1. n - 1 \in Nat /\ ~(n <= n - 1)
      BY <2>1, <2>2
    <3> HIDE DEF Bad
    <3> QED
      BY <2>1, <3>1
  <2>4. PICK f : Upto(f, n - 1)
    BY <2>3
  <2> DEFINE g == [i \in 1..n |-> IF i = 1 THEN s[i] ELSE f[i - 1] \o s[i]]
  <2>5. ASSUME NEW i \in 1..n, i # 1 PROVE g[i - 1] = f[i - 1]
    <3>1. i - 1 \in 1..(n - 1) /\ i - 1 \in 1..n
      BY <2>1, <2>5
    <3>2. f[i - 1] = IF i - 1 = 1 THEN s[i - 1] ELSE f[(i - 1) - 1] \o s[i - 1]
      BY <2>4, <3>1, Zenon
    <3>3. g[i - 1] = IF i - 1 = 1 THEN s[i - 1] ELSE f[(i - 1) - 1] \o s[i - 1]
      BY <3>1, Zenon
    <3> QED
      BY <3>2, <3>3
  <2>6. g = [i \in 1..n |-> IF i = 1 THEN s[i] ELSE g[i - 1] \o s[i]]
    <3> DEFINE a(i) == IF i = 1 THEN s[i] ELSE f[i - 1] \o s[i]
               b(i) == IF i = 1 THEN s[i] ELSE g[i - 1] \o s[i]
    <3>1. g = [i \in 1..n |-> a(i)]
      OBVIOUS
    <3>2. \A i \in 1..n : a(i) = b(i)
      <4> HIDE DEF g
      <4> QED
        BY <2>5
    <3> HIDE DEF g, a, b
    <3>3. g = [i \in 1..n |-> b(i)]
      BY <3>1, <3>2
    <3> QED
      BY <3>3 DEF b
  <2> HIDE DEF g
  <2>7. Upto(g, n)
    BY <2>6
  <2> QED
    BY <2>1, <2>7
<1>2. \E f : Upto(f, Len(s))
  BY <1>1
<1> QED
  BY <1>2 DEF Flat

\* A set that has 1, and i + 1 with each i before n, has n.
LEMMA UpTo ==
    ASSUME NEW n \in Nat \ {0}, NEW S, 1 \in S,
           \A i \in 1..n : i # n /\ i \in S => i + 1 \in S
    PROVE  n \in S
<1> DEFINE Bad == {i \in 1..n : i \notin S}
           i == Min(Bad)
<1> SUFFICES ASSUME Bad # {} PROVE FALSE
  OBVIOUS
<1>1. i \in Bad /\ \A y \in Bad : i <= y
  <2>1. Bad \in SUBSET Nat
    OBVIOUS
  <2> HIDE DEF Bad
  <2> QED
    BY <2>1, MinIs
<1> HIDE DEF i
<1>2. i \in 1..n /\ i \notin S /\ i # 1
  BY <1>1
<1>3. i - 1 \in 1..n /\ i - 1 # n /\ (i - 1) + 1 = i /\ ~(i <= i - 1)
  BY <1>2
<1>4. i - 1 \in S
  BY <1>1, <1>3
<1> QED
  BY <1>2, <1>3, <1>4

LEMMA FlatIs ==
    ASSUME NEW T, NEW s \in Seq(Seq(T)), s # <<>>
    PROVE  \E f : /\ FlattenSeq(s) = f[Len(s)] /\ f[1] = s[1]
                  /\ \A i \in 1..Len(s) : i # Len(s) => f[i + 1] = f[i] \o s[i + 1]
<1> DEFINE f == CHOOSE f : Flat(f, s)
           n == Len(s)
<1>1. n \in Nat \ {0}
  BY EmptySeq
<1>2. Flat(f, s)
  BY <1>1, FlatExists
<1>3. FlattenSeq(s) = f[n]
  BY <1>1, Zenon DEF FlattenSeq, Flat
<1> HIDE DEF f
<1>4. \A i \in 1..n : f[i] = IF i = 1 THEN s[i] ELSE f[i - 1] \o s[i]
  BY <1>2, Zenon DEF Flat
<1>5. f[1] = s[1]
  <2>1. 1 \in 1..n
    BY <1>1
  <2> QED
    BY <1>4, <2>1
<1>6. ASSUME NEW i \in 1..n, i # n PROVE f[i + 1] = f[i] \o s[i + 1]
  <2>1. i + 1 \in 1..n /\ i + 1 # 1 /\ (i + 1) - 1 = i
    BY <1>1, <1>6
  <2>2. f[i + 1] = f[(i + 1) - 1] \o s[i + 1]
    BY <1>4, <2>1
  <2> QED
    BY <2>1, <2>2
<1> QED
  BY <1>3, <1>5, <1>6

\* One sequence after another.
LEMMA ConcatIs ==
    ASSUME NEW T, NEW q \in Seq(T), NEW t \in Seq(T)
    PROVE  /\ q \o t \in Seq(T) /\ Len(q \o t) = Len(q) + Len(t)
           /\ Len(q) \in Nat /\ Len(t) \in Nat
           /\ \A k \in 1..Len(q) : (q \o t)[k] = q[k]
           /\ \A m \in 1..Len(t) : (q \o t)[Len(q) + m] = t[m]
           /\ \A k \in 1..Len(q \o t) : k \in 1..Len(q) \/ k - Len(q) \in 1..Len(t)
<1> DEFINE r == q \o t
<1>1. /\ r \in Seq(T) /\ Len(r) = Len(q) + Len(t)
      /\ \A k \in 1..(Len(q) + Len(t)) : r[k] = IF k <= Len(q) THEN q[k] ELSE t[k - Len(q)]
  BY ConcatProperties
<1>2. Len(q) \in Nat /\ Len(t) \in Nat
  OBVIOUS
<1> HIDE DEF r
<1>3. \A k \in 1..Len(q) : r[k] = q[k]
  BY <1>1, <1>2
<1>4. ASSUME NEW m \in 1..Len(t) PROVE r[Len(q) + m] = t[m]
  <2>1. Len(q) + m \in 1..(Len(q) + Len(t)) /\ ~(Len(q) + m <= Len(q)) /\ (Len(q) + m) - Len(q) = m
    BY <1>2
  <2> QED
    BY <1>1, <2>1
<1>5. \A k \in 1..Len(r) : k \in 1..Len(q) \/ k - Len(q) \in 1..Len(t)
  BY <1>1, <1>2
<1> QED
  BY <1>1, <1>2, <1>3, <1>4, <1>5 DEF r

\* Joined sequences are as long as other ones of the same lengths, joined.
LEMMA FlatLength ==
    ASSUME NEW T, NEW s \in Seq(Seq(T)), NEW U, NEW t \in Seq(Seq(U)), Len(s) = Len(t),
           \A j \in 1..Len(s) : Len(s[j]) = Len(t[j])
    PROVE  Len(FlattenSeq(s)) = Len(FlattenSeq(t))
<1> DEFINE n == Len(s)
<1>1. CASE n = 0
  <2>1. s = <<>> /\ t = <<>>
    BY <1>1, EmptySeq
  <2> QED
    BY <2>1
<1>2. CASE n # 0
  <2>1. n \in Nat \ {0} /\ s # <<>> /\ t # <<>> /\ 1 \in 1..n
    BY <1>2
  <2>2. PICK f : /\ FlattenSeq(s) = f[n] /\ f[1] = s[1]
                 /\ \A i \in 1..n : i # n => f[i + 1] = f[i] \o s[i + 1]
    BY <2>1, FlatIs
  <2>3. PICK g : /\ FlattenSeq(t) = g[n] /\ g[1] = t[1]
                 /\ \A i \in 1..n : i # n => g[i + 1] = g[i] \o t[i + 1]
    <3>1. n = Len(t)
      OBVIOUS
    <3> HIDE DEF n
    <3>2. \E g : /\ FlattenSeq(t) = g[Len(t)] /\ g[1] = t[1]
                 /\ \A i \in 1..Len(t) : i # Len(t) => g[i + 1] = g[i] \o t[i + 1]
      BY <2>1, FlatIs
    <3> QED
      BY <3>1, <3>2
  <2> DEFINE S == {i \in 1..n : f[i] \in Seq(T) /\ g[i] \in Seq(U) /\ Len(f[i]) = Len(g[i])}
  <2>4. \A j \in 1..n : s[j] \in Seq(T) /\ t[j] \in Seq(U)
    BY ElementOfSeq
  <2>5. 1 \in S
    BY <2>1, <2>2, <2>3, <2>4
  <2>6. ASSUME NEW i \in 1..n, i # n, i \in S PROVE i + 1 \in S
    <3>1. i + 1 \in 1..n
      BY <2>1, <2>6
    <3>2. s[i + 1] \in Seq(T) /\ t[i + 1] \in Seq(U) /\ Len(s[i + 1]) = Len(t[i + 1])
      BY <2>4, <3>1
    <3>3. /\ f[i] \o s[i + 1] \in Seq(T) /\ Len(f[i] \o s[i + 1]) = Len(f[i]) + Len(s[i + 1])
          /\ g[i] \o t[i + 1] \in Seq(U) /\ Len(g[i] \o t[i + 1]) = Len(g[i]) + Len(t[i + 1])
      BY <2>6, <3>2, ConcatIs
    <3> QED
      BY <2>2, <2>3, <2>6, <3>1, <3>2, <3>3
  <2>7. n \in S
    <3> HIDE DEF S
    <3> QED
      BY <2>1, <2>5, <2>6, UpTo
  <2> QED
    BY <2>2, <2>3, <2>7
<1> QED
  BY <1>1, <1>2

-----------------------------------------------------------------------------
(* What an oracle run is shown: the frames of all sessions, thinned.       *)

\* Frame a was not taken after frame b.
Chrono(a, b) == a.session < b.session \/ (a.session = b.session /\ a.at <= b.at)

Chronological(q) == \A k, l \in 1..Len(q) : k <= l => Chrono(q[k], q[l])

\* The frames of each session, in their order.
Chronicle(s) ==
    /\ s \in Seq(Seq(Frame))
    /\ \A j \in 1..Len(s) : /\ \A m \in 1..Len(s[j]) : s[j][m].session = j
                            /\ Chronological(s[j])

\* q has the frames of the first i sessions, each one's together.
Gathers(q, s, i) ==
    /\ q \in Seq(Frame) /\ Chronological(q)
    /\ \A k \in 1..Len(q) : q[k].session <= i
    /\ \A k \in 1..Len(q) : \E j \in 1..i : \E m \in 1..Len(s[j]) : q[k] = s[j][m]
    /\ \A j \in 1..i : \E o \in Nat : /\ o + Len(s[j]) <= Len(q)
                                      /\ \A m \in 1..Len(s[j]) : q[o + m] = s[j][m]

LEMMA GatherStep ==
    ASSUME NEW s, Chronicle(s), NEW i \in 1..Len(s), i # Len(s),
           NEW q, Gathers(q, s, i)
    PROVE  Gathers(q \o s[i + 1], s, i + 1)
<1> DEFINE t == s[i + 1]
           r == q \o t
<1>1. i + 1 \in 1..Len(s) /\ i \in Nat /\ t \in Seq(Frame) /\ Len(t) \in Nat
  BY ElementOfSeq DEF Chronicle
<1>2. q \in Seq(Frame) /\ Len(q) \in Nat
  BY DEF Gathers
<1>3. /\ r \in Seq(Frame) /\ Len(r) = Len(q) + Len(t)
      /\ \A k \in 1..Len(q) : r[k] = q[k]
      /\ \A m \in 1..Len(t) : r[Len(q) + m] = t[m]
      /\ \A k \in 1..Len(r) : k \in 1..Len(q) \/ k - Len(q) \in 1..Len(t)
  BY <1>1, <1>2, ConcatIs
<1>4. /\ \A m \in 1..Len(t) : t[m].session = i + 1 /\ t[m] \in Frame
      /\ Chronological(t)
  BY <1>1, ElementOfSeq DEF Chronicle
<1>5. \A k \in 1..Len(q) : q[k] \in Frame
  BY <1>2, ElementOfSeq
<1> HIDE DEF r, t
<1>6. \A k \in 1..Len(r) : k \notin 1..Len(q) =>
         k - Len(q) \in 1..Len(t) /\ r[k] = t[k - Len(q)]
  <2> SUFFICES ASSUME NEW k \in 1..Len(r), k \notin 1..Len(q)
               PROVE  k - Len(q) \in 1..Len(t) /\ r[k] = t[k - Len(q)]
    OBVIOUS
  <2>1. k - Len(q) \in 1..Len(t) /\ Len(q) + (k - Len(q)) = k
    BY <1>2, <1>3
  <2> QED
    BY <1>3, <2>1
<1>7. Chronological(r)
  <2> SUFFICES ASSUME NEW k \in 1..Len(r), NEW l \in 1..Len(r), k <= l PROVE Chrono(r[k], r[l])
    BY DEF Chronological
  <2>1. CASE l \in 1..Len(q)
    <3>1. k \in 1..Len(q)
      BY <1>2, <2>1
    <3> QED
      BY <1>3, <2>1, <3>1 DEF Gathers, Chronological
  <2>2. CASE l \notin 1..Len(q) /\ k \in 1..Len(q)
    <3>1. r[k] = q[k] /\ q[k].session <= i /\ q[k].session \in Nat
      BY <1>3, <1>5, <2>2 DEF Gathers, Frame
    <3>2. r[l].session = i + 1
      BY <1>4, <1>6, <2>2
    <3>3. r[k].session < r[l].session
      BY <1>1, <3>1, <3>2
    <3> QED
      BY <3>3 DEF Chrono
  <2>3. CASE l \notin 1..Len(q) /\ k \notin 1..Len(q)
    <3>1. k - Len(q) \in 1..Len(t) /\ l - Len(q) \in 1..Len(t) /\ k - Len(q) <= l - Len(q)
      BY <1>2, <1>6, <2>3
    <3> QED
      BY <1>4, <1>6, <2>3, <3>1 DEF Chronological
  <2> QED
    BY <2>1, <2>2, <2>3
<1>8. \A k \in 1..Len(r) : r[k].session <= i + 1
  <2> SUFFICES ASSUME NEW k \in 1..Len(r) PROVE r[k].session <= i + 1
    OBVIOUS
  <2>1. CASE k \in 1..Len(q)
    <3>1. r[k] = q[k] /\ q[k].session <= i /\ q[k].session \in Nat
      BY <1>3, <1>5, <2>1 DEF Gathers, Frame
    <3> QED
      BY <1>1, <3>1
  <2>2. CASE k \notin 1..Len(q)
    BY <1>1, <1>4, <1>6, <2>2
  <2> QED
    BY <2>1, <2>2
<1>9. \A k \in 1..Len(r) : \E j \in 1..(i + 1) : \E m \in 1..Len(s[j]) : r[k] = s[j][m]
  <2> SUFFICES ASSUME NEW k \in 1..Len(r)
               PROVE  \E j \in 1..(i + 1) : \E m \in 1..Len(s[j]) : r[k] = s[j][m]
    OBVIOUS
  <2>1. CASE k \in 1..Len(q)
    <3>1. PICK j \in 1..i : \E m \in 1..Len(s[j]) : q[k] = s[j][m]
      BY <2>1 DEF Gathers
    <3>2. j \in 1..(i + 1) /\ r[k] = q[k]
      BY <1>1, <1>3, <2>1
    <3> QED
      BY <3>1, <3>2
  <2>2. CASE k \notin 1..Len(q)
    <3>1. i + 1 \in 1..(i + 1) /\ k - Len(q) \in 1..Len(s[i + 1]) /\ r[k] = s[i + 1][k - Len(q)]
      BY <1>1, <1>6, <2>2 DEF t
    <3> QED
      BY <3>1
  <2> QED
    BY <2>1, <2>2
<1>10. ASSUME NEW j \in 1..(i + 1)
       PROVE  \E o \in Nat : /\ o + Len(s[j]) <= Len(r)
                             /\ \A m \in 1..Len(s[j]) : r[o + m] = s[j][m]
  <2>1. CASE j \in 1..i
    <3>1. PICK o \in Nat : /\ o + Len(s[j]) <= Len(q)
                           /\ \A m \in 1..Len(s[j]) : q[o + m] = s[j][m]
      BY <2>1 DEF Gathers
    <3>2. j \in 1..Len(s) /\ Len(s[j]) \in Nat
      <4>1. j \in 1..Len(s)
        BY <1>1, <2>1
      <4> QED
        BY <4>1, ElementOfSeq DEF Chronicle
    <3>3. o + Len(s[j]) <= Len(r) /\ \A m \in 1..Len(s[j]) : o + m \in 1..Len(q)
      BY <1>1, <1>2, <1>3, <3>1, <3>2
    <3> QED
      BY <1>3, <3>1, <3>3
  <2>2. CASE j = i + 1
    <3>1. s[j] = t
      BY <2>2 DEF t
    <3>2. Len(q) \in Nat /\ Len(q) + Len(t) <= Len(r) /\ \A m \in 1..Len(t) : r[Len(q) + m] = t[m]
      BY <1>1, <1>2, <1>3
    <3> QED
      BY <3>1, <3>2
  <2> QED
    BY <1>1, <2>1, <2>2
<1> QED
  BY <1>3, <1>7, <1>8, <1>9, <1>10 DEF Gathers, r, t

LEMMA GatheredIs ==
    ASSUME NEW s, Chronicle(s)
    PROVE  Gathers(FlattenSeq(s), s, Len(s))
<1> DEFINE n == Len(s)
<1>1. n \in Nat /\ s \in Seq(Seq(Frame))
  BY DEF Chronicle
<1>2. CASE n = 0
  <2>1. FlattenSeq(s) = <<>>
    BY <1>1, <1>2, EmptySeq DEF FlattenSeq
  <2>2. 1..0 = {} /\ Len(<<>>) = 0 /\ <<>> \in Seq(Frame)
    OBVIOUS
  <2> QED
    BY <1>2, <2>1, <2>2 DEF Gathers, Chronological
<1>3. CASE n # 0
  <2>1. s # <<>> /\ n \in Nat \ {0} /\ 1 \in 1..n
    BY <1>1, <1>3
  <2>2. PICK f : /\ FlattenSeq(s) = f[n] /\ f[1] = s[1]
                 /\ \A i \in 1..n : i # n => f[i + 1] = f[i] \o s[i + 1]
    BY <1>1, <2>1, FlatIs
  <2> DEFINE S == {i \in 1..n : Gathers(f[i], s, i)}
  <2>3. 1 \in S
    <3>1. s[1] \in Seq(Frame) /\ Len(s[1]) \in Nat
      BY <1>1, <2>1, ElementOfSeq
    <3>2. Chronological(s[1]) /\ \A m \in 1..Len(s[1]) : s[1][m].session = 1
      BY <2>1 DEF Chronicle
    <3>3. \A k \in 1..Len(s[1]) : \E j \in 1..1 : \E m \in 1..Len(s[j]) : s[1][k] = s[j][m]
      OBVIOUS
    <3>4. \A j \in 1..1 : \E o \in Nat : /\ o + Len(s[j]) <= Len(s[1])
                                         /\ \A m \in 1..Len(s[j]) : s[1][o + m] = s[j][m]
      <4> SUFFICES ASSUME NEW j \in 1..1
                   PROVE  \E o \in Nat : /\ o + Len(s[j]) <= Len(s[1])
                                         /\ \A m \in 1..Len(s[j]) : s[1][o + m] = s[j][m]
        OBVIOUS
      <4>1. j = 1 /\ 0 \in Nat
        OBVIOUS
      <4>2. 0 + Len(s[1]) <= Len(s[1])
        BY <3>1
      <4>3. ASSUME NEW m \in 1..Len(s[1]) PROVE s[1][0 + m] = s[1][m]
        <5>1. 0 + m = m
          BY <3>1
        <5> QED
          BY <5>1
      <4> QED
        BY <4>1, <4>2, <4>3
    <3>5. \A k \in 1..Len(s[1]) : s[1][k].session <= 1
      BY <3>2
    <3>6. Gathers(s[1], s, 1)
      BY <3>1, <3>2, <3>3, <3>4, <3>5 DEF Gathers
    <3> QED
      BY <2>1, <2>2, <3>6
  <2>4. ASSUME NEW i \in 1..n, i # n, i \in S PROVE i + 1 \in S
    <3>1. Gathers(f[i] \o s[i + 1], s, i + 1)
      BY <2>4, GatherStep
    <3>2. i + 1 \in 1..n
      BY <2>1, <2>4
    <3> QED
      BY <2>2, <2>4, <3>1, <3>2
  <2>5. n \in S
    <3> HIDE DEF S
    <3> QED
      BY <2>1, <2>3, <2>4, UpTo
  <2> QED
    BY <2>2, <2>5
<1> QED
  BY <1>2, <1>3

LEMMA ThinnedIs ==
    ASSUME NEW frames \in Seq(Frame), NEW keep \in Nat \ {0}
    PROVE  LET t == Thinned(frames, keep)
           IN  /\ t \in Seq(Frame) /\ Len(t) <= keep
               /\ \A i \in 1..Len(t) : \E k \in 1..Len(frames) : t[i] = frames[k]
               /\ Chronological(frames) => Chronological(t)
               /\ \A o, n \in Nat : n > 0 /\ o + n <= Len(frames) /\ n * keep >= Len(frames) =>
                     \E i \in 1..Len(t) : \E k \in (o + 1)..(o + n) : t[i] = frames[k]
<1> DEFINE L == Len(frames)
           t == Thinned(frames, keep)
<1>1. L \in Nat
  OBVIOUS
<1>2. CASE L <= keep
  <2>1. t = frames
    BY <1>2 DEF Thinned
  <2>2. ASSUME NEW o \in Nat, NEW n \in Nat, n > 0, o + n <= L
        PROVE  \E i \in 1..L : \E k \in (o + 1)..(o + n) : frames[i] = frames[k]
    <3>1. o + 1 \in 1..L /\ o + 1 \in (o + 1)..(o + n)
      BY <1>1, <2>2
    <3> QED
      BY <3>1
  <2> QED
    BY <1>2, <2>1, <2>2
<1>3. CASE ~(L <= keep)
  <2> DEFINE from(i) == ((i - 1) * L) \div keep + 1
  <2>1. t = [i \in 1..keep |-> frames[from(i)]]
    BY <1>3 DEF Thinned
  <2>2. L \in Nat \ {0}
    BY <1>1, <1>3
  <2>3. ASSUME NEW i \in 1..keep, NEW j \in 1..keep, i <= j PROVE from(i) <= from(j)
    <3>1. (i - 1) * L \in Nat /\ (j - i) * L \in Nat /\ (j - 1) * L = (i - 1) * L + (j - i) * L
      BY <1>1, <2>3
    <3>2. (j - 1) * L \in Nat /\ (i - 1) * L <= (j - 1) * L
      BY <3>1
    <3>3. ((i - 1) * L) \div keep <= ((j - 1) * L) \div keep
      BY <3>1, <3>2, DivMono
    <3>4. ((i - 1) * L) \div keep \in Nat /\ ((j - 1) * L) \div keep \in Nat
      BY <3>1, <3>2, DivIs
    <3> QED
      BY <3>3, <3>4
  <2>4. ASSUME NEW i \in 1..keep PROVE from(i) \in 1..L
    <3> DEFINE q == ((i - 1) * L) \div keep
    <3>1. (i - 1) * L \in Nat
      BY <1>1
    <3>2. q \in Nat /\ q * keep <= (i - 1) * L
      BY <3>1, DivIs
    <3> HIDE DEF q
    <3>3. (i - 1) * L < keep * L /\ keep * L = L * keep
      <4>1. (keep - (i - 1)) \in Nat \ {0}
        OBVIOUS
      <4>2. (keep - (i - 1)) * L \in Nat \ {0}
        BY <2>2, <4>1
      <4>3. keep * L = (i - 1) * L + (keep - (i - 1)) * L
        BY <1>1
      <4> QED
        BY <1>1, <3>1, <4>2, <4>3
    <3>4. q * keep < L * keep
      BY <1>1, <3>1, <3>2, <3>3
    <3>5. q < L
      BY <1>1, <3>2, <3>4, Cancel
    <3> QED
      BY <1>1, <3>2, <3>5 DEF q
  <2> HIDE DEF t, L
  <2>5. \A i \in 1..keep : t[i] = frames[from(i)]
    BY <2>1
  <2>6. \A k \in 1..L : frames[k] \in Frame
    BY ElementOfSeq DEF L
  <2>7. t \in Seq(Frame) /\ Len(t) = keep
    <3>1. t \in [1..keep -> Frame]
      <4> HIDE DEF from
      <4> QED
        BY <2>1, <2>4, <2>6
    <3> QED
      BY <3>1
  <2>8. Chronological(frames) => Chronological(t)
    <3> HIDE DEF from
    <3> QED
      BY <2>3, <2>4, <2>5, <2>7 DEF Chronological, L
  <2>9. ASSUME NEW o \in Nat, NEW n \in Nat, n > 0, o + n <= L, n * keep >= L
        PROVE  \E i \in 1..keep : \E k \in (o + 1)..(o + n) : t[i] = frames[k]
    <3>1. PICK p \in 0..(keep - 1) : (p * L) \div keep \in o..(o + n - 1)
      BY <2>2, <2>9, Window
    <3>2. p + 1 \in 1..keep /\ (p + 1) - 1 = p
      OBVIOUS
    <3>3. from(p + 1) \in (o + 1)..(o + n)
      BY <3>1, <3>2
    <3> HIDE DEF from
    <3> QED
      BY <2>5, <3>2, <3>3
  <2>10. \A i \in 1..keep : \E k \in 1..L : t[i] = frames[k]
    <3> HIDE DEF from
    <3> QED
      BY <2>4, <2>5
  <2> QED
    BY <2>7, <2>8, <2>9, <2>10 DEF t, L
<1> QED
  BY <1>1, <1>2, <1>3

LEMMA FilmIs ==
    ASSUME Housed, home # 0, NEW x \in 1..Len(homes[home])
    PROVE  \/ SampleOf(x) = MediaError
           \/ SampleOf(x) \in Seq(Nat) /\ Ordered(SampleOf(x))
<1>1. home \in 1..Len(homes) /\ homes \in Seq(Seq(Films))
  BY MemoryAssumption DEF Housed
<1>2. homes[home] \in Seq(Films)
  BY <1>1, ElementOfSeq
<1>3. homes[home][x] \in Films
  BY <1>2, ElementOfSeq
<1>4. IsVideo(homes[home][x]) /\ NFrames \in Nat \ {0}
  BY <1>3, MemoryAssumption
<1> QED
  BY <1>4, SampleIs DEF SampleOf

LEMMA HomeIs ==
    ASSUME Housed, home # 0
    PROVE  Len(homes[home]) \in Nat /\ shown \in Nat /\ shown <= Len(homes[home])
<1>1. home \in 1..Len(homes) /\ homes \in Seq(Seq(Films))
  BY MemoryAssumption DEF Housed
<1>2. homes[home] \in Seq(Films)
  BY <1>1, ElementOfSeq
<1> QED
  BY <1>2 DEF Housed

LEMMA SessionIs ==
    ASSUME Housed, NEW x \in 1..shown
    PROVE  \/ SampleOf(x) = MediaError
           \/ SampleOf(x) \in Seq(Nat) /\ Ordered(SampleOf(x))
<1>1. home # 0 /\ shown \in Nat
  BY DEF Housed
<1>2. x \in 1..Len(homes[home])
  BY <1>1, HomeIs
<1> QED
  BY <1>1, <1>2, FilmIs

LEMMA TakenIs ==
    ASSUME home \in Nat, NEW x \in Nat, NEW s \in Seq(Nat)
    PROVE  /\ Taken(x, s) \in Seq(Frame) /\ Len(Taken(x, s)) = Len(s)
           /\ \A m \in 1..Len(s) : Taken(x, s)[m] = [home |-> home, session |-> x, at |-> s[m]]
<1>1. Len(s) \in Nat /\ DOMAIN s = 1..Len(s) /\ \A m \in 1..Len(s) : s[m] \in Nat
  BY ElementOfSeq
<1>2. Taken(x, s) = [m \in 1..Len(s) |-> [home |-> home, session |-> x, at |-> s[m]]]
  BY <1>1 DEF Taken
<1>3. \A m \in 1..Len(s) : [home |-> home, session |-> x, at |-> s[m]] \in Frame
  BY <1>1 DEF Frame
<1>4. Taken(x, s) \in [1..Len(s) -> Frame]
  BY <1>2, <1>3
<1>5. Taken(x, s) \in Seq(Frame) /\ Len(Taken(x, s)) = Len(s)
  BY <1>1, <1>4
<1>6. \A m \in 1..Len(s) : Taken(x, s)[m] = [home |-> home, session |-> x, at |-> s[m]]
  BY <1>2
<1> QED
  BY <1>5, <1>6

\* The frames of the sessions that are retained.
Showing == [x \in DOMAIN paths |-> Taken(paths[x], SampleOf(paths[x]))]
Samples == [x \in DOMAIN paths |-> SampleOf(paths[x])]

LEMMA ShowingIs ==
    ASSUME Housed, Retained, ~OracleFails
    PROVE  /\ Chronicle(Showing) /\ Samples \in Seq(Seq(Nat))
           /\ Len(Showing) = Len(paths) /\ Len(Samples) = Len(paths)
           /\ \A x \in 1..Len(paths) :
                 /\ Len(Showing[x]) = Len(Samples[x]) /\ Samples[x] = SampleOf(paths[x])
                 /\ \A m \in 1..Len(Showing[x]) : Showing[x][m].home = home
<1>1. paths \in Seq(Nat) /\ Len(paths) \in Nat /\ DOMAIN paths = 1..Len(paths) /\ home \in Nat
  BY DEF Retained, Housed
<1>2. ASSUME NEW x \in 1..Len(paths)
      PROVE  /\ paths[x] = x /\ SampleOf(x) \in Seq(Nat) /\ Ordered(SampleOf(x))
             /\ Showing[x] \in Seq(Frame) /\ Len(Showing[x]) = Len(SampleOf(x))
             /\ \A m \in 1..Len(SampleOf(x)) :
                   Showing[x][m] = [home |-> home, session |-> x, at |-> SampleOf(x)[m]]
  <2>1. paths[x] = x /\ x \in 1..shown
    BY <1>1 DEF Retained, Housed
  <2>2. SampleOf(x) # MediaError
    BY <1>1, <2>1 DEF OracleFails
  <2>3. SampleOf(x) \in Seq(Nat) /\ Ordered(SampleOf(x))
    BY <2>1, <2>2, SessionIs
  <2>4. Showing[x] = Taken(x, SampleOf(x))
    BY <1>1, <2>1 DEF Showing
  <2> QED
    BY <1>1, <2>1, <2>3, <2>4, TakenIs
<1>3. Showing \in Seq(Seq(Frame)) /\ Len(Showing) = Len(paths)
  <2>1. Showing \in [1..Len(paths) -> Seq(Frame)]
    BY <1>1, <1>2 DEF Showing
  <2> QED
    BY <1>1, <2>1
<1>4. Samples \in Seq(Seq(Nat)) /\ Len(Samples) = Len(paths)
  <2>1. Samples \in [1..Len(paths) -> Seq(Nat)]
    BY <1>1, <1>2 DEF Samples
  <2> QED
    BY <1>1, <2>1
<1>5. Chronicle(Showing)
  <2> SUFFICES ASSUME NEW j \in 1..Len(paths)
               PROVE  /\ \A m \in 1..Len(Showing[j]) : Showing[j][m].session = j
                      /\ Chronological(Showing[j])
    BY <1>3 DEF Chronicle
  <2>1. \A m \in 1..Len(Showing[j]) :
           Showing[j][m].session = j /\ Showing[j][m].at = SampleOf(j)[m]
    <3> SUFFICES ASSUME NEW m \in 1..Len(Showing[j])
                 PROVE  Showing[j][m].session = j /\ Showing[j][m].at = SampleOf(j)[m]
      OBVIOUS
    <3>1. m \in 1..Len(SampleOf(j))
      BY <1>2
    <3>2. Showing[j][m] = [home |-> home, session |-> j, at |-> SampleOf(j)[m]]
      BY <1>2, <3>1
    <3> QED
      BY <3>2
  <2>2. \A k, l \in 1..Len(Showing[j]) : k <= l => SampleOf(j)[k] <= SampleOf(j)[l]
    BY <1>2 DEF Ordered
  <2> QED
    BY <2>1, <2>2 DEF Chronological, Chrono
<1>6. ASSUME NEW x \in 1..Len(paths)
      PROVE  /\ Len(Showing[x]) = Len(Samples[x]) /\ Samples[x] = SampleOf(paths[x])
             /\ \A m \in 1..Len(Showing[x]) : Showing[x][m].home = home
  <2>1. Samples[x] = SampleOf(x) /\ paths[x] = x /\ Len(Showing[x]) = Len(SampleOf(x))
    BY <1>1, <1>2 DEF Samples
  <2>2. ASSUME NEW m \in 1..Len(Showing[x]) PROVE Showing[x][m].home = home
    <3>1. m \in 1..Len(SampleOf(x))
      BY <2>1
    <3>2. Showing[x][m] = [home |-> home, session |-> x, at |-> SampleOf(x)[m]]
      BY <1>2, <3>1
    <3> QED
      BY <3>2
  <2> QED
    BY <2>1, <2>2
<1> QED
  BY <1>3, <1>4, <1>5, <1>6

\* What is shown in an oracle run, and that no session is overlooked.
LEMMA OracleShows ==
    ASSUME Housed, Retained, ~OracleFails
    PROVE  /\ OracleFrames \in Seq(Frame) /\ Len(OracleFrames) <= Cap
           /\ \A i \in 1..Len(OracleFrames) : /\ OracleFrames[i].home = home
                                             /\ OracleFrames[i].session \in 1..shown
           /\ Chronological(OracleFrames)
           /\ \A x \in 1..Len(paths) :
                 LET n == Len(SampleOf(paths[x]))
                 IN  n > 0 /\ n * Cap >= Len(FlattenSeq(Samples)) =>
                        \E i \in 1..Len(OracleFrames) : OracleFrames[i].session = paths[x]
<1> DEFINE q == FlattenSeq(Showing)
           t == Thinned(q, Cap)
<1>1. /\ Chronicle(Showing) /\ Samples \in Seq(Seq(Nat))
      /\ Len(Showing) = Len(paths) /\ Len(Samples) = Len(paths)
      /\ \A x \in 1..Len(paths) :
            /\ Len(Showing[x]) = Len(Samples[x]) /\ Samples[x] = SampleOf(paths[x])
            /\ \A m \in 1..Len(Showing[x]) : Showing[x][m].home = home
  BY ShowingIs
<1>2. OracleFrames = t
  BY DEF OracleFrames, Showing
<1>3. Gathers(q, Showing, Len(paths))
  BY <1>1, GatheredIs
<1>4. Len(q) = Len(FlattenSeq(Samples))
  BY <1>1, FlatLength DEF Chronicle
<1>5. Cap \in Nat \ {0} /\ Len(paths) \in Nat /\ shown \in Nat /\ Len(paths) <= shown
  BY MemoryAssumption DEF Retained, Housed
<1> HIDE DEF q
<1>6. /\ q \in Seq(Frame) /\ Len(q) \in Nat /\ Chronological(q)
      /\ \A k \in 1..Len(q) : \E j \in 1..Len(paths) : \E m \in 1..Len(Showing[j]) : q[k] = Showing[j][m]
      /\ \A j \in 1..Len(paths) : \E o \in Nat :
            o + Len(Showing[j]) <= Len(q) /\ \A m \in 1..Len(Showing[j]) : q[o + m] = Showing[j][m]
  <2>1. q \in Seq(Frame) /\ Chronological(q)
    BY <1>3 DEF Gathers
  <2>2. Len(q) \in Nat
    BY <2>1
  <2>3. \A k \in 1..Len(q) : \E j \in 1..Len(paths) : \E m \in 1..Len(Showing[j]) : q[k] = Showing[j][m]
    BY <1>3, Zenon DEF Gathers
  <2>4. \A j \in 1..Len(paths) : \E o \in Nat :
            o + Len(Showing[j]) <= Len(q) /\ \A m \in 1..Len(Showing[j]) : q[o + m] = Showing[j][m]
    BY <1>3, Zenon DEF Gathers
  <2> QED
    BY <2>1, <2>2, <2>3, <2>4
<1>7. /\ t \in Seq(Frame) /\ Len(t) <= Cap
      /\ \A i \in 1..Len(t) : \E k \in 1..Len(q) : t[i] = q[k]
      /\ Chronological(t)
      /\ \A o, n \in Nat : n > 0 /\ o + n <= Len(q) /\ n * Cap >= Len(q) =>
            \E i \in 1..Len(t) : \E k \in (o + 1)..(o + n) : t[i] = q[k]
  BY <1>5, <1>6, ThinnedIs
<1> HIDE DEF t
<1>8. ASSUME NEW j \in 1..Len(paths), NEW m \in 1..Len(Showing[j])
      PROVE  Showing[j][m].session = paths[j] /\ Showing[j][m].session \in 1..shown
  <2>1. Showing[j][m].session = j
    BY <1>1 DEF Chronicle
  <2>2. paths[j] = j /\ j \in 1..shown
    BY <1>5 DEF Retained
  <2> QED
    BY <2>1, <2>2
<1>9. ASSUME NEW i \in 1..Len(t) PROVE t[i].home = home /\ t[i].session \in 1..shown
  <2>1. PICK k \in 1..Len(q) : t[i] = q[k]
    BY <1>7
  <2>2. PICK j \in 1..Len(paths) : \E m \in 1..Len(Showing[j]) : q[k] = Showing[j][m]
    BY <1>6
  <2>3. PICK m \in 1..Len(Showing[j]) : q[k] = Showing[j][m]
    BY <2>2
  <2> QED
    BY <1>1, <1>8, <2>1, <2>3
<1>10. ASSUME NEW x \in 1..Len(paths),
              Len(SampleOf(paths[x])) > 0, Len(SampleOf(paths[x])) * Cap >= Len(FlattenSeq(Samples))
       PROVE  \E i \in 1..Len(t) : t[i].session = paths[x]
  <2> DEFINE n == Len(Showing[x])
  <2>1. n = Len(SampleOf(paths[x])) /\ n \in Nat
    <3>1. Samples[x] \in Seq(Nat)
      BY <1>1, ElementOfSeq
    <3> QED
      BY <1>1, <3>1
  <2>2. PICK o \in Nat : o + n <= Len(q) /\ \A m \in 1..n : q[o + m] = Showing[x][m]
    BY <1>6
  <2> HIDE DEF n
  <2>3. n > 0 /\ n * Cap >= Len(q)
    BY <1>4, <1>10, <2>1
  <2>4. PICK i \in 1..Len(t), k \in (o + 1)..(o + n) : t[i] = q[k]
    BY <1>7, <2>1, <2>2, <2>3
  <2>5. k - o \in 1..n /\ o + (k - o) = k
    BY <2>1
  <2>6. t[i] = Showing[x][k - o]
    BY <2>2, <2>4, <2>5
  <2> QED
    BY <1>8, <2>5, <2>6 DEF n
<1> QED
  BY <1>2, <1>7, <1>9, <1>10

LEMMA CeilingHolds ==
    ASSUME Housed, Retained, ~OracleFails, cache = OracleFrames
    PROVE  CeilingSeesAll
<1>1. /\ cache \in Seq(Frame) /\ Chronological(cache)
      /\ \A x \in 1..Len(paths) :
            LET n == Len(SampleOf(paths[x]))
            IN  n > 0 /\ n * Cap >= Len(FlattenSeq(Samples)) =>
                   \E i \in 1..Len(cache) : cache[i].session = paths[x]
  BY OracleShows
<1>2. DOMAIN paths = 1..Len(paths) /\ DOMAIN cache = 1..Len(cache) /\ Len(cache) \in Nat
  BY <1>1 DEF Retained
<1>3. ASSUME NEW x \in DOMAIN paths, Len(SampleOf(paths[x])) > 0,
             Len(SampleOf(paths[x])) * Cap >= Len(FlattenSeq(Samples))
      PROVE  \E f \in ToSet(cache) : f.session = paths[x]
  BY <1>1, <1>2, <1>3 DEF ToSet
<1>4. ASSUME NEW k \in 2..Len(cache)
      PROVE  \/ cache[k - 1].session < cache[k].session
             \/ cache[k - 1].session = cache[k].session /\ cache[k - 1].at <= cache[k].at
  <2>1. k \in 1..Len(cache) /\ k - 1 \in 1..Len(cache) /\ k - 1 <= k
    BY <1>2
  <2> QED
    BY <1>1, <2>1 DEF Chronological, Chrono
<1> QED
  BY <1>3, <1>4 DEF CeilingSeesAll, Samples

-----------------------------------------------------------------------------
(* What is kept.                                                           *)

LEMMA NoFrames == FramesOf(<<>>) = {}
BY DEF FramesOf

LEMMA FramesOfIs ==
    ASSUME NEW T, NEW s \in Seq(SUBSET T), NEW F \in SUBSET T
    PROVE  /\ Append(s, F) \in Seq(SUBSET T) /\ Len(Append(s, F)) = Len(s) + 1
           /\ FramesOf(Append(s, F)) = FramesOf(s) \cup F
<1> DEFINE r == Append(s, F)
<1>1. /\ r \in Seq(SUBSET T) /\ Len(r) = Len(s) + 1 /\ Len(s) \in Nat
      /\ r[Len(s) + 1] = F /\ \A k \in 1..Len(s) : r[k] = s[k]
  BY AppendProperties
<1>2. DOMAIN r = 1..Len(s) + 1 /\ DOMAIN s = 1..Len(s)
  BY <1>1
<1> HIDE DEF r
<1>3. \A x \in DOMAIN r : x \in DOMAIN s \/ x = Len(s) + 1
  BY <1>1, <1>2
<1>4. DOMAIN s \subseteq DOMAIN r /\ Len(s) + 1 \in DOMAIN r
  BY <1>1, <1>2
<1>5. FramesOf(r) = FramesOf(s) \cup F
  BY <1>1, <1>2, <1>3, <1>4 DEF FramesOf
<1> QED
  BY <1>1, <1>5 DEF r

Counted(s) == {x \in DOMAIN s : s[x].frames > 0}
Report == [frames : Nat, chars : Nat]

LEMMA CountedIs ==
    ASSUME NEW s \in Seq(Report), NEW e \in Report
    PROVE  /\ Append(s, e) \in Seq(Report) /\ Len(Append(s, e)) = Len(s) + 1 /\ Len(s) \in Nat
           /\ DOMAIN Append(s, e) = DOMAIN s \cup {Len(s) + 1} /\ DOMAIN s = 1..Len(s)
           /\ Append(s, e)[Len(s) + 1] = e /\ \A x \in DOMAIN s : Append(s, e)[x] = s[x]
           /\ Cardinality(Counted(s)) \in Nat
           /\ Cardinality(Counted(Append(s, e)))
                 = Cardinality(Counted(s)) + (IF e.frames > 0 THEN 1 ELSE 0)
<1> DEFINE r == Append(s, e)
           n == Len(s) + 1
<1>1. /\ r \in Seq(Report) /\ Len(r) = n /\ Len(s) \in Nat
      /\ r[n] = e /\ \A k \in 1..Len(s) : r[k] = s[k]
  BY AppendProperties
<1>2. DOMAIN r = 1..n /\ DOMAIN s = 1..Len(s)
  BY <1>1
<1> HIDE DEF r
<1>3. DOMAIN r = DOMAIN s \cup {n} /\ n \notin DOMAIN s
  BY <1>1, <1>2
<1>4. IsFiniteSet(Counted(s)) /\ Cardinality(Counted(s)) \in Nat
  <2>1. IsFiniteSet(DOMAIN s)
    BY <1>1, <1>2, FS_Interval
  <2> QED
    BY <2>1, FS_Subset, FS_CardinalityType DEF Counted
<1>5. CASE e.frames > 0
  <2>1. Counted(r) = Counted(s) \cup {n} /\ n \notin Counted(s)
    BY <1>1, <1>2, <1>3, <1>5 DEF Counted
  <2> QED
    BY <1>1, <1>2, <1>3, <1>4, <1>5, <2>1, FS_AddElement DEF r
<1>6. CASE ~(e.frames > 0)
  <2>1. Counted(r) = Counted(s)
    BY <1>1, <1>2, <1>3, <1>6 DEF Counted
  <2> QED
    BY <1>1, <1>2, <1>3, <1>4, <1>6, <2>1 DEF r
<1> QED
  BY <1>5, <1>6

\* The frames of the session that is being shown.
Now == [home : {home}, session : {Session}, at : Nat]

LEMMA SeenIs ==
    ASSUME Housed, Ingesting, pc # "idle", ~Unseen(Film)
    PROVE  /\ Seen \in Seq(Now) /\ Seen # <<>> /\ Len(Seen) \in Nat \ {0}
           /\ ToSet(Seen) \in SUBSET Now /\ ToSet(Seen) # {}
<1>1. home # 0 /\ home \in Nat /\ shown \in Nat /\ Session \in Nat
  BY DEF Housed, Session
<1>2. Session \in 1..Len(homes[home])
  BY <1>1, HomeIs DEF Ingesting, Session
<1>3. SampleFrames(Film, NFrames) = SampleOf(Session)
  BY DEF SampleOf, Film
<1>4. SampleOf(Session) \in Seq(Nat) /\ SampleOf(Session) # <<>>
  BY <1>1, <1>2, <1>3, FilmIs DEF Unseen
<1>5. Len(SampleOf(Session)) \in Nat \ {0}
  BY <1>4, EmptySeq
<1>6. /\ Seen \in Seq(Frame) /\ Len(Seen) = Len(SampleOf(Session))
      /\ \A m \in 1..Len(SampleOf(Session)) :
            Seen[m] = [home |-> home, session |-> Session, at |-> SampleOf(Session)[m]]
  BY <1>1, <1>3, <1>4, TakenIs DEF Seen
<1>7. \A m \in 1..Len(Seen) : Seen[m] \in Now
  <2> SUFFICES ASSUME NEW m \in 1..Len(Seen) PROVE Seen[m] \in Now
    OBVIOUS
  <2>1. SampleOf(Session)[m] \in Nat
    BY <1>4, <1>6, ElementOfSeq
  <2>2. Seen[m] = [home |-> home, session |-> Session, at |-> SampleOf(Session)[m]]
    BY <1>6
  <2>3. [home |-> home, session |-> Session, at |-> SampleOf(Session)[m]] \in Now
    BY <2>1 DEF Now
  <2> QED
    BY <2>2, <2>3
<1> HIDE DEF Seen
<1>8. Seen \in Seq(Now)
  <2>1. DOMAIN Seen = 1..Len(Seen) /\ Seen = [m \in 1..Len(Seen) |-> Seen[m]] /\ Len(Seen) \in Nat
    BY <1>5, <1>6
  <2>2. Seen \in [1..Len(Seen) -> Now]
    BY <1>7, <2>1
  <2> QED
    BY <2>1, <2>2
<1>9. DOMAIN Seen = 1..Len(Seen) /\ 1 \in DOMAIN Seen
  BY <1>5, <1>6, <1>8
<1> QED
  BY <1>5, <1>6, <1>7, <1>8, <1>9 DEF ToSet

\* What a session adds, when it is over, is what is reported of it.
LEMMA SessionCounts ==
    ASSUME TypeOK, Keeping, Counting, pc = "ingest",
           NEW n \in Nat, NEW c \in Nat, IngestDone(n, c), UNCHANGED <<system, home>>,
           NEW F \in SUBSET Now, Recalled' = Recalled \cup F,
           Remembers => (F # {} <=> n > 0 /\ (Generative => c > 0)),
           Remembers /\ system.kind # "lora" => Records' = Records + (IF n > 0 THEN 1 ELSE 0)
    PROVE  /\ Counting'
           /\ \A f \in Recalled' : f.home = home' /\ f.session \in 1..shown'
           /\ stats' \in Seq(Report) /\ Len(stats') = shown' /\ shown' \in Nat
<1> DEFINE e == [frames |-> n, chars |-> c]
<1>1. stats \in Seq(Report) /\ Len(stats) = shown /\ shown \in Nat /\ e \in Report
  BY DEF TypeOK, Housed, Report
<1>2. stats' = Append(stats, e) /\ shown' = shown + 1 /\ shown' = Session
  BY DEF IngestDone, Session
<1>3. /\ stats' \in Seq(Report) /\ Len(stats') = shown'
      /\ DOMAIN stats' = DOMAIN stats \cup {shown'} /\ DOMAIN stats = 1..shown
      /\ stats'[shown'] = e /\ \A x \in DOMAIN stats : stats'[x] = stats[x]
      /\ Cardinality(Counted(stats)) \in Nat
      /\ Cardinality(Counted(stats')) = Cardinality(Counted(stats)) + (IF n > 0 THEN 1 ELSE 0)
  BY <1>1, <1>2, CountedIs
<1>4. /\ \A f \in Recalled : f.home = home /\ f.session \in 1..shown
      /\ \A f \in F : f.home = home /\ f.session = shown'
  BY <1>2 DEF Keeping, Now
<1>5. \A f \in Recalled' : f.home = home' /\ f.session \in 1..shown'
  BY <1>1, <1>2, <1>4
<1>6. Remembers' = Remembers /\ Generative' = Generative /\ system' = system
  BY DEF Remembers, Generative
<1>7. ASSUME Remembers, NEW x \in DOMAIN stats'
      PROVE  Contributed(x)' <=> \E f \in Recalled' : f.session = x
  <2>1. CASE x \in DOMAIN stats
    <3>1. Contributed(x)' <=> Contributed(x)
      BY <1>3, <1>6, <2>1 DEF Contributed
    <3>2. x # shown'
      BY <1>1, <1>2, <1>3, <2>1
    <3>3. Contributed(x) <=> \E f \in Recalled : f.session = x
      BY <1>7, <2>1 DEF Counting
    <3> QED
      BY <1>4, <3>1, <3>2, <3>3
  <2>2. CASE x = shown'
    <3>1. Contributed(x)' <=> n > 0 /\ (Generative => c > 0)
      BY <1>3, <1>6, <2>2 DEF Contributed
    <3>2. \A f \in Recalled : f.session # x
      BY <1>1, <1>2, <1>4, <2>2
    <3> QED
      BY <1>4, <1>7, <2>2, <3>1, <3>2
  <2> QED
    BY <1>3, <2>1, <2>2
<1>8. ASSUME Remembers, system.kind # "lora" PROVE Records' = Cardinality(Counted(stats'))
  BY <1>3, <1>8 DEF Counting, Counted
<1>9. Counting'
  BY <1>6, <1>7, <1>8 DEF Counting, Counted
<1> QED
  BY <1>1, <1>2, <1>3, <1>5, <1>9

-----------------------------------------------------------------------------
(* The steps preserve the invariant.                                       *)

LEMMA Kept ==
    ASSUME UNCHANGED <<system, homes, home, paths>>
    PROVE  /\ OracleFails' <=> OracleFails
           /\ OracleFrames' = OracleFrames
           /\ Oracle' <=> Oracle
           /\ Generative' <=> Generative
           /\ Remembers' <=> Remembers
BY DEF OracleFails, OracleFrames, SampleOf, Taken, Oracle, Generative, Remembers

\* A session is over.
LEMMA SessionOver ==
    ASSUME Inv, pc = "ingest", shown < Len(homes[home]),
           UNCHANGED <<system, homes, home, cache, ack, asked, answer>>,
           NEW n \in Nat, NEW c \in Nat, IngestDone(n, c),
           NEW F \in SUBSET Now, Recalled' = Recalled \cup F,
           Remembers => (F # {} <=> n > 0 /\ (Generative => c > 0)),
           Remembers /\ system.kind # "lora" => Records' = Records + (IF n > 0 THEN 1 ELSE 0),
           notes' \in Seq(SUBSET Frame), weights' \in SUBSET Frame, writes' \in Nat,
           Retained', Oracle => Len(paths') = Session,
           notes' # <<>> => Generative /\ system.mode = "memory",
           weights' # {} => system.kind \in {"lact", "mean", "lora"} /\ system.mode # "blind",
           system.mode = "blind" /\ system.kind # "echo" => writes' = 0
    PROVE  Inv'
<1>1. TypeOK /\ Calling /\ Keeping /\ Counting /\ Answering /\ Housed /\ home # 0
  BY DEF Inv, TypeOK, Housed
<1>2. /\ Counting'
      /\ \A f \in Recalled' : f.home = home' /\ f.session \in 1..shown'
      /\ stats' \in Seq(Report) /\ Len(stats') = shown' /\ shown' \in Nat
  BY <1>1, SessionCounts
<1>3. shown' = Session /\ Session = shown + 1 /\ pc' = "ingest" /\ call' = None
  BY DEF IngestDone, Session
<1>4. Housed'
  <2>1. Len(homes[home]) \in Nat /\ shown \in Nat
    BY <1>1, HomeIs
  <2> QED
    BY <1>1, <1>3, <2>1 DEF Housed
<1>5. TypeOK'
  BY <1>1, <1>2, <1>3, <1>4 DEF TypeOK, Report
<1>6. Calling'
  BY <1>3 DEF Calling
<1>7. cache' = None /\ cache = None
  BY <1>1 DEF Keeping
<1>8. Keeping'
  BY <1>1, <1>2, <1>3, <1>7 DEF Keeping, Oracle, Generative
<1>9. Answering'
  BY <1>1, <1>3 DEF Answering
<1> QED
  BY <1>2, <1>5, <1>6, <1>8, <1>9 DEF Inv

\* The process has ended.
LEMMA ExitKeeps ==
    ASSUME Inv, pc = "ingest", Exit,
           UNCHANGED <<system, homes, home, memory, ack, asked, answer>>
    PROVE  Inv'
<1>1. TypeOK /\ Calling /\ Keeping /\ Counting /\ Answering /\ Housed /\ home # 0
  BY DEF Inv, TypeOK, Housed
<1>2. /\ pc' = "exited" /\ call' = None /\ shown' = shown /\ stats' = stats
      /\ notes' = notes /\ paths' = paths /\ cache' = cache /\ weights' = weights /\ writes' = writes
  BY DEF Exit, memory
<1>3. Recalled' = Recalled /\ (Oracle' <=> Oracle) /\ (Remembers' <=> Remembers) /\ Records' = Records
  BY <1>2, Kept DEF Recalled, FramesOf, Records, Generative
<1>4. TypeOK'
  BY <1>1, <1>2 DEF TypeOK, Housed, Retained
<1>5. Calling' /\ Answering'
  BY <1>2 DEF Calling, Answering
<1>6. Keeping'
  BY <1>1, <1>2, <1>3 DEF Keeping, Generative
<1>7. Counting'
  <2>1. \A x : Contributed(x)' <=> Contributed(x)
    BY <1>2 DEF Contributed, Generative
  <2> QED
    BY <1>1, <1>2, <1>3, <2>1 DEF Counting
<1> QED
  BY <1>4, <1>5, <1>6, <1>7 DEF Inv

\* Only the call that runs has changed.
LEMMA CallKeeps ==
    ASSUME Inv, Calling',
           UNCHANGED <<system, homes, home, shown, pc, memory, stats, ack, asked, answer>>
    PROVE  Inv'
<1>1. /\ notes' = notes /\ paths' = paths /\ cache' = cache /\ weights' = weights
      /\ writes' = writes /\ system' = system /\ homes' = homes /\ home' = home
      /\ shown' = shown /\ stats' = stats /\ ack' = ack /\ pc' = pc /\ answer' = answer
      /\ asked' = asked
  BY DEF memory
<1>2. TypeOK /\ Keeping /\ Counting /\ Answering
  BY DEF Inv
<1>3. /\ Recalled' = Recalled /\ Records' = Records
      /\ \A x : Contributed(x)' <=> Contributed(x)
  BY <1>1 DEF Recalled, FramesOf, Records, Generative, Contributed
<1>4. /\ Oracle' <=> Oracle
      /\ OracleFails' <=> OracleFails
      /\ OracleFrames' = OracleFrames
      /\ Remembers' <=> Remembers
      /\ Generative' <=> Generative
  BY <1>1, Kept
<1>5. TypeOK'
  BY <1>1, <1>2 DEF TypeOK, Housed, Retained
<1>6. Keeping'
  BY <1>1, <1>2, <1>3, <1>4 DEF Keeping
<1>7. Counting' /\ Answering'
  BY <1>1, <1>2, <1>3, <1>4 DEF Counting, Answering
<1> QED
  BY <1>5, <1>6, <1>7 DEF Inv

LEMMA InitInv == Init => Inv
<1> SUFFICES ASSUME Init PROVE Inv
  OBVIOUS
<1>1. /\ home = 0 /\ shown = 0 /\ pc = "idle" /\ call = None
      /\ notes = <<>> /\ paths = <<>> /\ cache = None /\ weights = {} /\ writes = 0
      /\ stats = <<>> /\ ack = None /\ asked = 0 /\ answer = None
      /\ homes \in Neighbourhoods /\ system \in Systems
  BY DEF Init
<1>2. Recalled = {}
  BY <1>1, NoFrames DEF Recalled
<1>3. TypeOK
  BY <1>1 DEF TypeOK, Housed, Retained
<1>4. Calling /\ Counting /\ Answering
  BY <1>1 DEF Calling, Counting, Answering
<1>5. Keeping
  BY <1>1, <1>2 DEF Keeping, Oracle
<1> QED
  BY <1>3, <1>4, <1>5 DEF Inv

LEMMA EnvBeginKeeps == Inv /\ EnvBegin => Inv'
<1> SUFFICES ASSUME Inv, EnvBegin PROVE Inv'
  OBVIOUS
<1>1. TypeOK /\ Calling /\ Keeping /\ Housed
  BY DEF Inv, TypeOK
<1>2. /\ home < Len(homes) /\ home' = home + 1 /\ shown' = 0 /\ pc' = "ingest"
      /\ stats' = <<>> /\ ack' = None /\ asked' = 0 /\ answer' = None
      /\ notes' = <<>> /\ paths' = <<>> /\ cache' = None /\ weights' = {}
      /\ writes' = IF system.kind = "echo" THEN writes ELSE 0
      /\ system' = system /\ homes' = homes /\ call' = call
  BY DEF EnvBegin, Forget
<1>3. call = None
  BY DEF EnvBegin
<1>4. Recalled' = {}
  <2>1. FramesOf(notes') = {}
    BY <1>2, NoFrames
  <2> QED
    BY <1>2, <2>1 DEF Recalled, FramesOf
<1>5. Housed'
  <2>1. home \in Nat /\ homes \in Seq(Seq(Films)) /\ homes \in Neighbourhoods
    BY <1>1, MemoryAssumption DEF Housed
  <2>2. home + 1 \in 1..Len(homes)
    BY <1>2, <2>1
  <2>3. homes[home + 1] \in Seq(Films)
    BY <2>1, <2>2, ElementOfSeq
  <2>4. 0 <= Len(homes[home + 1])
    BY <2>3
  <2> QED
    BY <1>2, <2>1, <2>2, <2>4 DEF Housed
<1>6. TypeOK'
  BY <1>1, <1>2, <1>5 DEF TypeOK, Retained
<1>7. Calling' /\ Answering'
  BY <1>2, <1>3 DEF Calling, Answering
<1>8. Keeping'
  BY <1>2, <1>4 DEF Keeping, Oracle, Generative
<1>9. Counting'
  <2>1. Remembers' => (system.kind # "lora" => Records' = 0)
    BY <1>2 DEF Remembers, Records, Generative
  <2>2. {x \in DOMAIN stats' : stats'[x].frames > 0} = {}
    BY <1>2
  <2>3. DOMAIN stats' = {}
    BY <1>2
  <2> QED
    BY <1>2, <2>1, <2>2, <2>3, FS_EmptySet DEF Counting
<1> QED
  BY <1>6, <1>7, <1>8, <1>9 DEF Inv

\* What the steps of the sessions start from.
LEMMA SessionStarts ==
    ASSUME Inv, Ingesting
    PROVE  /\ TypeOK /\ Keeping /\ Housed /\ Retained /\ home # 0
           /\ pc = "ingest" /\ shown < Len(homes[home]) /\ cache = None
           /\ shown \in Nat /\ Session \in Nat /\ home \in Nat
           /\ Now \in SUBSET Frame
<1>1. /\ TypeOK /\ Keeping /\ Housed /\ Retained /\ home # 0
      /\ pc = "ingest" /\ shown < Len(homes[home]) /\ shown \in Nat /\ home \in Nat
  BY DEF Inv, TypeOK, Housed, Ingesting
<1>2. cache = None
  BY <1>1 DEF Keeping
<1>3. Session \in Nat
  BY <1>1 DEF Session
<1>4. Now \in SUBSET Frame
  BY <1>1, <1>3 DEF Now, Frame
<1> QED
  BY <1>1, <1>2, <1>3, <1>4

\* A session of which nothing is kept.
LEMMA NothingKept ==
    ASSUME Inv, pc = "ingest", shown < Len(homes[home]), ~Oracle, IngestDone(0, 0),
           UNCHANGED <<system, homes, home, memory, ack, asked, answer>>
    PROVE  Inv'
<1>1. /\ TypeOK /\ Keeping /\ Housed /\ Retained
      /\ shown' = shown + 1 /\ shown \in Nat
  BY DEF IngestDone, Inv, TypeOK, Housed
<1>2. notes' = notes /\ paths' = paths /\ cache' = cache /\ weights' = weights /\ writes' = writes
  BY DEF memory
<1>3. Recalled' = Recalled \cup {} /\ Records' = Records + 0
  <2>1. Recalled' = Recalled /\ Records' = Records
    BY <1>2 DEF Recalled, FramesOf, Records, Generative
  <2>2. Records \in Nat
    <3>1. Len(notes) \in Nat
      BY <1>1 DEF TypeOK
    <3> QED
      BY <1>1, <3>1 DEF Records, TypeOK
  <2> QED
    BY <2>1, <2>2
<1>4. Retained'
  BY <1>1, <1>2 DEF Retained
<1>5. notes' \in Seq(SUBSET Frame) /\ weights' \in SUBSET Frame /\ writes' \in Nat
  BY <1>1, <1>2 DEF TypeOK
<1>6. /\ notes' # <<>> => Generative /\ system.mode = "memory"
      /\ weights' # {} => system.kind \in {"lact", "mean", "lora"} /\ system.mode # "blind"
      /\ system.mode = "blind" /\ system.kind # "echo" => writes' = 0
  BY <1>1, <1>2 DEF Keeping
<1>7. {} \in SUBSET Now /\ ~(0 > 0) /\ 0 \in Nat
  OBVIOUS
<1> QED
  BY <1>1, <1>2, <1>3, <1>4, <1>5, <1>6, <1>7, SessionOver

LEMMA IngestNothingKeeps == Inv /\ IngestNothing => Inv'
<1> SUFFICES ASSUME Inv, IngestNothing PROVE Inv'
  OBVIOUS
<1>1. /\ Ingesting /\ IngestDone(0, 0) /\ ~Oracle
      /\ writes' = writes + (IF system.kind = "echo" THEN 1 ELSE 0)
      /\ UNCHANGED <<system, homes, home, notes, paths, cache, weights, ack, asked, answer>>
  BY DEF IngestNothing, HasPath, Oracle, Generative
<1>2. /\ TypeOK /\ Keeping /\ Retained /\ writes \in Nat
      /\ pc = "ingest" /\ shown < Len(homes[home]) /\ shown' = shown + 1 /\ shown \in Nat
  BY <1>1, SessionStarts DEF IngestDone, TypeOK
<1>3. CASE system.kind # "echo"
  <2>1. writes' = writes
    BY <1>1, <1>2, <1>3
  <2> QED
    BY <1>1, <1>2, <2>1, NothingKept DEF memory
<1>4. CASE system.kind = "echo"
  <2>1. Recalled' = Recalled \cup {} /\ ~Remembers /\ Retained'
    BY <1>1, <1>2, <1>4 DEF Recalled, FramesOf, Remembers, Retained
  <2>2. notes' \in Seq(SUBSET Frame) /\ weights' \in SUBSET Frame /\ writes' \in Nat
    BY <1>1, <1>2 DEF TypeOK
  <2>3. /\ notes' # <<>> => Generative /\ system.mode = "memory"
        /\ weights' # {} => system.kind \in {"lact", "mean", "lora"} /\ system.mode # "blind"
        /\ system.mode = "blind" /\ system.kind # "echo" => writes' = 0
    BY <1>1, <1>2, <1>4 DEF Keeping
  <2>4. {} \in SUBSET Now /\ 0 \in Nat
    OBVIOUS
  <2> QED
    BY <1>1, <1>2, <1>4, <2>1, <2>2, <2>3, <2>4, SessionOver
<1> QED
  BY <1>3, <1>4

LEMMA DeferKeeps == Inv /\ Defer => Inv'
<1> SUFFICES ASSUME Inv, Defer PROVE Inv'
  OBVIOUS
<1>1. /\ Ingesting /\ IngestDone(0, 0) /\ system.mode = "oracle"
      /\ paths' = Append(paths, Session)
      /\ UNCHANGED <<system, homes, home, notes, cache, weights, writes, ack, asked, answer>>
  BY DEF Defer
<1>2. /\ TypeOK /\ Keeping /\ Retained /\ Oracle
      /\ pc = "ingest" /\ shown < Len(homes[home]) /\ shown' = shown + 1 /\ shown \in Nat
      /\ Session \in Nat /\ Session = shown + 1
  BY <1>1, SessionStarts DEF IngestDone, Session, Oracle, Generative, Defer
<1>3. Len(paths) = shown /\ paths \in Seq(Nat)
  BY <1>2 DEF Keeping, Retained
<1>4. Retained' /\ Len(paths') = Session
  <2>1. /\ paths' \in Seq(Nat) /\ Len(paths') = Len(paths) + 1
        /\ paths'[Len(paths) + 1] = Session
        /\ \A k \in 1..Len(paths) : paths'[k] = paths[k]
    BY <1>1, <1>2, <1>3, AppendProperties
  <2>2. DOMAIN paths' = 1..(shown + 1) /\ DOMAIN paths = 1..shown
    BY <1>3, <2>1
  <2>3. ASSUME NEW x \in DOMAIN paths' PROVE paths'[x] = x
    <3>1. CASE x = shown + 1
      BY <1>2, <1>3, <2>1, <3>1
    <3>2. CASE x \in 1..shown
      BY <1>2, <1>3, <2>1, <2>2, <3>2 DEF Retained
    <3> QED
      BY <1>2, <2>2, <3>1, <3>2
  <2> QED
    BY <1>2, <1>3, <2>1, <2>3 DEF Retained
<1>5. Recalled' = Recalled \cup {} /\ ~Remembers
  BY <1>1 DEF Recalled, FramesOf, Remembers
<1>6. notes' \in Seq(SUBSET Frame) /\ weights' \in SUBSET Frame /\ writes' \in Nat
  BY <1>1, <1>2 DEF TypeOK
<1>7. /\ notes' # <<>> => Generative /\ system.mode = "memory"
      /\ weights' # {} => system.kind \in {"lact", "mean", "lora"} /\ system.mode # "blind"
      /\ system.mode = "blind" /\ system.kind # "echo" => writes' = 0
  BY <1>1, <1>2 DEF Keeping
<1>8. {} \in SUBSET Now /\ 0 \in Nat
  OBVIOUS
<1> QED
  BY <1>1, <1>2, <1>4, <1>5, <1>6, <1>7, <1>8, SessionOver

LEMMA WatchInVainKeeps == Inv /\ WatchInVain => Inv'
<1> SUFFICES ASSUME Inv, WatchInVain PROVE Inv'
  OBVIOUS
<1>1. /\ Ingesting /\ ~Oracle
      /\ Exit \/ IngestDone(0, 0)
      /\ UNCHANGED <<system, homes, home, memory, ack, asked, answer>>
  BY DEF WatchInVain, Watching, Oracle, Generative
<1>2. pc = "ingest" /\ shown < Len(homes[home])
  BY <1>1 DEF Ingesting
<1>3. CASE Exit
  BY <1>1, <1>2, <1>3, ExitKeeps
<1>4. CASE IngestDone(0, 0)
  BY <1>1, <1>2, <1>4, NothingKept
<1> QED
  BY <1>1, <1>3, <1>4

LEMMA WatchKeeps == Inv /\ Watch => Inv'
<1> SUFFICES ASSUME Inv, Watch PROVE Inv'
  OBVIOUS
<1>1. /\ Ingesting /\ ~Unseen(Film) /\ Generative /\ ~Oracle /\ system.mode # "blind"
      /\ call' = [for |-> "note", frames |-> Seen, from |-> {}, tries |-> 1]
      /\ UNCHANGED <<system, homes, home, shown, pc, memory, stats, ack, asked, answer>>
  BY DEF Watch, Watching, HasPath, Oracle, Generative
<1>2. /\ TypeOK /\ Keeping /\ Counting /\ Answering /\ Housed
      /\ pc = "ingest" /\ shown < Len(homes[home])
  BY <1>1, SessionStarts DEF Inv
<1>3. Seen \in Seq(Now) /\ Seen # <<>>
  BY <1>1, <1>2, SeenIs
<1>4. system.mode = "memory"
  BY <1>1, <1>2, MemoryAssumption DEF TypeOK, Oracle
<1>5. Calling'
  BY <1>1, <1>2, <1>3, <1>4 DEF Calling, Now, Generative, Session
<1> QED
  BY <1>1, <1>5, CallKeeps

LEMMA WriteWeightsKeeps == Inv /\ WriteWeights => Inv'
<1> SUFFICES ASSUME Inv, WriteWeights PROVE Inv'
  OBVIOUS
<1>1. /\ Ingesting /\ ~Unseen(Film) /\ ~Generative /\ system.mode # "blind"
      /\ system.kind \in {"lact", "mean", "none", "lora"}
      /\ UNCHANGED <<system, homes, home, notes, paths, cache, ack, asked, answer>>
  BY DEF WriteWeights, Watching, HasPath, Generative
<1>2. /\ TypeOK /\ Keeping /\ Housed /\ Retained /\ ~Oracle /\ Now \in SUBSET Frame
      /\ pc = "ingest" /\ shown < Len(homes[home]) /\ shown \in Nat
  BY <1>1, SessionStarts DEF Oracle
<1>3. /\ Len(Seen) \in Nat \ {0} /\ ToSet(Seen) \in SUBSET Now /\ ToSet(Seen) # {}
  BY <1>1, <1>2, SeenIs
<1> DEFINE W == ToSet(Seen)
<1>4. CASE /\ IngestDone(Len(Seen), 0) /\ system.kind # "none"
           /\ weights' = weights \cup W /\ writes' = writes + 1
  <2>1. Recalled' = Recalled \cup W
    BY <1>1, <1>4 DEF Recalled, FramesOf
  <2>2. Retained'
    BY <1>1, <1>2, <1>4 DEF Retained, IngestDone
  <2>3. Remembers /\ system.kind # "lora" => Records' = Records + 1
    BY <1>1, <1>4 DEF Records, Generative
  <2>4. notes' \in Seq(SUBSET Frame) /\ weights' \in SUBSET Frame /\ writes' \in Nat
    BY <1>1, <1>2, <1>3, <1>4 DEF TypeOK
  <2>5. /\ notes' # <<>> => Generative /\ system.mode = "memory"
        /\ weights' # {} => system.kind \in {"lact", "mean", "lora"} /\ system.mode # "blind"
        /\ system.mode = "blind" /\ system.kind # "echo" => writes' = 0
    BY <1>1, <1>2, <1>4 DEF Keeping
  <2>6. Len(Seen) > 0 /\ 0 \in Nat /\ W # {} /\ W \in SUBSET Now
    BY <1>3
  <2> HIDE DEF W
  <2> QED
    BY <1>1, <1>2, <1>3, <1>4, <2>1, <2>2, <2>3, <2>4, <2>5, <2>6, SessionOver
<1>5. CASE IngestDone(Len(Seen), 0) /\ system.kind = "none" /\ UNCHANGED <<weights, writes>>
  <2>1. Recalled' = Recalled \cup {} /\ Retained' /\ ~Remembers
    BY <1>1, <1>2, <1>5 DEF Recalled, FramesOf, Retained, IngestDone, Remembers
  <2>2. notes' \in Seq(SUBSET Frame) /\ weights' \in SUBSET Frame /\ writes' \in Nat
    BY <1>1, <1>2, <1>5 DEF TypeOK
  <2>3. /\ notes' # <<>> => Generative /\ system.mode = "memory"
        /\ weights' # {} => system.kind \in {"lact", "mean", "lora"} /\ system.mode # "blind"
        /\ system.mode = "blind" /\ system.kind # "echo" => writes' = 0
    BY <1>1, <1>2, <1>5 DEF Keeping
  <2>4. {} \in SUBSET Now /\ 0 \in Nat /\ Len(Seen) \in Nat
    BY <1>3
  <2> QED
    BY <1>1, <1>2, <1>5, <2>1, <2>2, <2>3, <2>4, SessionOver
<1>6. CASE IngestDone(0, 0) /\ UNCHANGED <<weights, writes>>
  BY <1>1, <1>2, <1>6, NothingKept DEF memory
<1>7. CASE Exit /\ UNCHANGED <<weights, writes>>
  BY <1>1, <1>2, <1>7, ExitKeeps DEF memory
<1> QED
  BY <1>4, <1>5, <1>6, <1>7 DEF WriteWeights

\* A call for a note has returned.
LEMMA NoteKeeps ==
    ASSUME Inv, call # None, call.for = "note", NEW from, NEW c \in Nat,
           Returned(from, Len(call.frames), c),
           from \in {{}, ToSet(call.frames)}, from = {} <=> c = 0,
           UNCHANGED <<system, homes, home, paths, cache, weights, writes>>
    PROVE  Inv'
<1>1. TypeOK /\ Calling /\ Keeping /\ Retained
  BY DEF Inv, TypeOK
<1>2. /\ Generative /\ pc = "ingest" /\ system.mode = "memory" /\ shown < Len(homes[home])
      /\ call.frames # <<>> /\ call.frames \in Seq(Now)
  BY <1>1 DEF Calling, Now
<1>4. /\ notes' = Append(notes, from) /\ IngestDone(Len(call.frames), c)
      /\ UNCHANGED <<ack, asked, answer>>
  BY DEF Returned
<1>5. home \in Nat /\ Session \in Nat /\ shown \in Nat /\ Session = shown + 1
  BY <1>1 DEF TypeOK, Housed, Session
<1>6. Now \in SUBSET Frame
  BY <1>5 DEF Now, Frame
<1>7. Len(call.frames) \in Nat /\ Len(call.frames) > 0
  BY <1>2, EmptySeq
<1>8. from \in SUBSET Now
  BY <1>2, ElementOfSeq DEF ToSet
<1>9. /\ notes' \in Seq(SUBSET Frame) /\ Len(notes') = Len(notes) + 1
      /\ FramesOf(notes') = FramesOf(notes) \cup from
  <2>1. notes \in Seq(SUBSET Frame) /\ from \in SUBSET Frame
    BY <1>1, <1>6, <1>8 DEF TypeOK
  <2> QED
    BY <1>4, <2>1, FramesOfIs
<1>10. Recalled' = Recalled \cup from
  <2>1. FramesOf(notes)' = FramesOf(notes')
    BY DEF FramesOf
  <2> QED
    BY <1>9, <2>1 DEF Recalled
<1>11. Records' = Records + 1
  BY <1>2, <1>9 DEF Records, Generative
<1>12. Retained' /\ shown' = Session
  BY <1>1, <1>4, <1>5 DEF Retained, IngestDone
<1>13. ~Oracle /\ weights' \in SUBSET Frame /\ writes' \in Nat
  BY <1>1, <1>2 DEF Oracle, TypeOK
<1>14. /\ weights' # {} => system.kind \in {"lact", "mean", "lora"} /\ system.mode # "blind"
       /\ system.mode = "blind" /\ system.kind # "echo" => writes' = 0
  BY <1>1 DEF Keeping
<1>15. from # {} <=> Len(call.frames) > 0 /\ c > 0
  BY <1>7
<1> QED
  BY <1>1, <1>2, <1>4, <1>7, <1>8, <1>9, <1>10, <1>11, <1>12, <1>13, <1>14, <1>15, SessionOver

\* A call for an answer has returned, or any call that is not for a note has
\* raised: what is kept is not touched.
LEMMA AnswerKeeps ==
    ASSUME Inv, pc = "query", call' \in {None, call}, pc' = "query",
           answer' = answer \/ (answer' \subseteq Recalled /\ (system.kind = "vlm" => answer' = Recalled)),
           asked' \in Nat,
           UNCHANGED <<system, homes, home, shown, memory, stats, ack>>
    PROVE  Inv'
<1>1. TypeOK /\ Calling /\ Keeping /\ Counting /\ Answering
  BY DEF Inv
<1>2. /\ notes' = notes /\ paths' = paths /\ cache' = cache /\ weights' = weights /\ writes' = writes
      /\ system' = system /\ homes' = homes /\ home' = home /\ shown' = shown
      /\ stats' = stats /\ ack' = ack
  BY DEF memory
<1>3. /\ Recalled' = Recalled /\ Records' = Records /\ FramesOf(notes)' = FramesOf(notes)
      /\ \A x : Contributed(x)' <=> Contributed(x)
  BY <1>2 DEF Recalled, FramesOf, Records, Generative, Contributed
<1>4. /\ Oracle' <=> Oracle
      /\ OracleFails' <=> OracleFails
      /\ OracleFrames' = OracleFrames
      /\ Remembers' <=> Remembers
      /\ Generative' <=> Generative
  BY <1>2, Kept
<1>5. TypeOK'
  BY <1>1, <1>2 DEF TypeOK, Housed, Retained
<1>6. Calling'
  BY <1>1, <1>2, <1>3, <1>4 DEF Calling, Session
<1>7. Keeping'
  BY <1>1, <1>2, <1>3, <1>4 DEF Keeping
<1>8. Counting'
  BY <1>1, <1>2, <1>3, <1>4 DEF Counting
<1>9. Answering'
  BY <1>1, <1>2, <1>3, <1>4 DEF Answering
<1> QED
  BY <1>5, <1>6, <1>7, <1>8, <1>9 DEF Inv

\* A call for a note has raised: the note is missing, or the process ends.
LEMMA NoteFails ==
    ASSUME Inv, call # None, call.for = "note", Raised,
           UNCHANGED <<system, homes, home, paths, cache, weights, writes>>
    PROVE  Inv'
<1>1. /\ pc = "ingest" /\ system.mode = "memory" /\ shown < Len(homes[home])
  BY DEF Inv, Calling
<1>2. /\ IngestDone(0, 0) \/ Exit
      /\ UNCHANGED <<notes, ack, asked, answer>>
  BY DEF Raised
<1>3. ~Oracle
  BY <1>1 DEF Oracle
<1> QED
  BY <1>1, <1>2, <1>3, ExitKeeps, NothingKept DEF memory

\* However a call for a note ends.
LEMMA NoteEnds ==
    ASSUME Inv, call # None, call.for = "note",
           \/ Returned(call.from \cup ToSet(call.frames), Len(call.frames), 1)
           \/ Returned({}, Len(call.frames), 0)
           \/ Raised,
           UNCHANGED <<system, homes, home, paths, cache, weights, writes>>
    PROVE  Inv'
<1>1. call.frames # <<>> /\ call.frames \in Seq(Now) /\ call.from = {}
  BY DEF Inv, Calling, Now
<1>2. ToSet(call.frames) # {}
  <2>1. 1 \in DOMAIN call.frames
    BY <1>1, EmptySeq
  <2> QED
    BY <2>1 DEF ToSet
<1>3. CASE Returned(call.from \cup ToSet(call.frames), Len(call.frames), 1)
  <2>1. Returned(ToSet(call.frames), Len(call.frames), 1)
    <3>1. call.from \cup ToSet(call.frames) = ToSet(call.frames)
      BY <1>1
    <3> QED
      BY <1>3, <3>1
  <2>2. ToSet(call.frames) \in {{}, ToSet(call.frames)} /\ 1 \in Nat /\ 1 # 0
    OBVIOUS
  <2>3. ToSet(call.frames) = {} <=> 1 = 0
    BY <1>2
  <2> QED
    BY <2>1, <2>2, <2>3, NoteKeeps
<1>4. CASE Returned({}, Len(call.frames), 0)
  BY <1>4, NoteKeeps
<1>5. CASE Raised
  BY <1>5, NoteFails
<1> QED
  BY <1>3, <1>4, <1>5

LEMMA GenerateKeeps == Inv /\ Generate => Inv'
<1> SUFFICES ASSUME Inv, Generate PROVE Inv'
  OBVIOUS
<1>1. /\ call # None /\ system.kind = "vlm"
      /\ UNCHANGED <<system, homes, home, paths, cache, weights, writes>>
  BY DEF Generate
<1>2. TypeOK /\ Calling /\ Keeping /\ asked \in Nat
  BY DEF Inv, TypeOK
<1>3. CASE call.for = "note"
  <2>1. call.frames # <<>>
    BY <1>1, <1>2, <1>3 DEF Calling
  <2> QED
    BY <1>1, <1>3, <2>1, NoteEnds DEF Generate, Assertion
<1>4. CASE call.for = "answer"
  <2>1. /\ pc = "query"
        /\ call.frames = IF system.mode = "oracle" THEN cache ELSE <<>>
        /\ call.from = IF system.mode = "memory" THEN FramesOf(notes) ELSE {}
    BY <1>1, <1>2, <1>4 DEF Calling
  <2>2. call.from \cup ToSet(call.frames) = Recalled
    <3>1. weights = {} /\ Generative
      BY <1>1, <1>2 DEF Keeping, Generative
    <3>2. system.mode # "memory" => notes = <<>> /\ FramesOf(notes) = {}
      BY <1>2, NoFrames DEF Keeping
    <3>3. system.mode = "oracle" <=> cache # None
      BY <1>2, <2>1, <3>1 DEF Keeping, Oracle
    <3>4. ToSet(<<>>) = {}
      BY DEF ToSet
    <3> QED
      BY <2>1, <3>1, <3>2, <3>3, <3>4 DEF Recalled
  <2>3. ASSUME NEW dropped \in BOOLEAN, Assertion(dropped, call.frames)
        PROVE  call.from \cup (IF dropped THEN {} ELSE ToSet(call.frames)) = Recalled
    <3>1. dropped => ToSet(call.frames) = {}
      BY <2>3 DEF Assertion, ToSet
    <3> QED
      BY <2>2, <3>1
  <2>4. \/ /\ answer' = Recalled /\ UNCHANGED <<notes, shown, stats, pc, ack>>
           /\ asked' = asked + 1 /\ call' = None
        \/ /\ answer' = answer /\ UNCHANGED <<notes, shown, stats, pc, ack>>
           /\ asked' = asked + 1 /\ call' = None
    BY <1>4, <2>3 DEF Generate, Returned, Raised
  <2> QED
    BY <1>1, <1>2, <2>1, <2>4, AnswerKeeps DEF memory
<1> QED
  BY <1>1, <1>2, <1>3, <1>4 DEF Calling

LEMMA ChatKeeps == Inv /\ Chat => Inv'
<1> SUFFICES ASSUME Inv, Chat PROVE Inv'
  OBVIOUS
<1>1. /\ call # None /\ system.kind = "api"
      /\ UNCHANGED <<system, homes, home, paths, cache, weights, writes>>
  BY DEF Chat
<1>2. TypeOK /\ Calling /\ Keeping /\ asked \in Nat
  BY DEF Inv, TypeOK
<1>3. CASE /\ call' = [call EXCEPT !.tries = @ + 1]
           /\ UNCHANGED <<notes, shown, stats, pc, ack, asked, answer>>
  <2>1. call' = [for |-> call.for, frames |-> call.frames, from |-> call.from,
                 tries |-> call.tries + 1]
    BY <1>1, <1>2, <1>3 DEF Calling
  <2>2. FramesOf(notes)' = FramesOf(notes)
    BY <1>3 DEF FramesOf
  <2>3. Calling'
    BY <1>1, <1>2, <1>3, <2>1, <2>2 DEF Calling, Generative, Session
  <2> QED
    BY <1>1, <1>3, <2>3, CallKeeps DEF memory
<1>4. CASE /\ call.for = "note"
           /\ \/ Returned(call.from \cup ToSet(call.frames), Len(call.frames), 1)
              \/ Returned({}, Len(call.frames), 0)
              \/ Raised
  BY <1>1, <1>4, NoteEnds
<1>5. CASE call.for = "answer"
  <2>1. /\ pc = "query"
        /\ call.frames = IF system.mode = "oracle" THEN cache ELSE <<>>
        /\ call.from = IF system.mode = "memory" THEN FramesOf(notes) ELSE {}
    BY <1>1, <1>2, <1>5 DEF Calling
  <2>2. call.from \cup ToSet(call.frames) \subseteq Recalled
    <3>1. system.mode = "oracle" => cache # None
      BY <1>1, <1>2, <2>1 DEF Keeping, Oracle, Generative
    <3>2. ToSet(<<>>) = {}
      BY DEF ToSet
    <3> QED
      BY <2>1, <3>1, <3>2 DEF Recalled
  <2>3. CASE ~(call' = [call EXCEPT !.tries = @ + 1]
               /\ UNCHANGED <<notes, shown, stats, pc, ack, asked, answer>>)
    <3>1. \/ /\ answer' \subseteq Recalled /\ UNCHANGED <<notes, shown, stats, pc, ack>>
             /\ asked' = asked + 1 /\ call' = None
          \/ /\ answer' = answer /\ UNCHANGED <<notes, shown, stats, pc, ack>>
             /\ asked' = asked + 1 /\ call' = None
      BY <1>5, <2>2, <2>3 DEF Chat, Returned, Raised
    <3> QED
      BY <1>1, <1>2, <2>1, <3>1, AnswerKeeps DEF memory
  <2> QED
    BY <1>3, <2>3
<1> QED
  BY <1>1, <1>2, <1>3, <1>4, <1>5 DEF Calling, Chat

LEMMA IngestEndKeeps == Inv /\ IngestEnd => Inv'
<1> SUFFICES ASSUME Inv, IngestEnd PROVE Inv'
  OBVIOUS
<1>1. /\ pc = "ingest" /\ call = None /\ system' = system /\ homes' = homes /\ home' = home
      /\ shown' = shown /\ call' = call /\ notes' = notes /\ paths' = paths
      /\ weights' = weights /\ writes' = writes /\ stats' = stats /\ asked' = asked
      /\ answer' = answer
  BY DEF IngestEnd
<1>2. TypeOK /\ Keeping /\ Counting /\ Answering /\ Housed /\ Retained /\ home # 0
  BY <1>1 DEF Inv, TypeOK, Housed
<1>3. cache = None /\ answer = None /\ ack = None
  BY <1>1, <1>2 DEF Keeping, Answering
<1>4. /\ Oracle' <=> Oracle
      /\ OracleFails' <=> OracleFails
      /\ OracleFrames' = OracleFrames
      /\ Remembers' <=> Remembers
      /\ Generative' <=> Generative
  BY <1>1, Kept
<1>5. /\ Records' = Records /\ FramesOf(notes)' = FramesOf(notes)
      /\ \A x : Contributed(x)' <=> Contributed(x)
  BY <1>1 DEF FramesOf, Records, Generative, Contributed
<1>6. Calling'
  BY <1>1 DEF Calling
<1>7. Records \in Nat
  <2>1. Len(notes) \in Nat
    BY <1>2 DEF TypeOK
  <2> QED
    BY <1>2, <2>1 DEF Records, TypeOK
<1>8. CASE ~Oracle
  <2>1. cache' = None /\ pc' = "query" /\ ack' = [records |-> Records, frames |-> None]
    <3>1. system.kind \in {"echo", "api", "vlm", "lact", "mean", "none", "lora"}
      BY <1>2, MemoryAssumption DEF TypeOK
    <3> QED
      BY <1>3, <1>8, <3>1 DEF IngestEnd, Acknowledge, Records, Oracle, Generative
  <2>2. Recalled' = Recalled
    BY <1>1, <1>3, <1>5, <2>1 DEF Recalled
  <2>3. TypeOK'
    BY <1>1, <1>2, <1>7, <2>1 DEF TypeOK, Housed, Retained
  <2>4. Keeping'
    BY <1>1, <1>2, <1>4, <1>8, <2>1, <2>2 DEF Keeping
  <2>5. Counting'
    BY <1>1, <1>2, <1>4, <1>5, <2>1, <2>2 DEF Counting
  <2>6. Answering'
    BY <1>1, <1>3, <1>4, <1>5, <1>8, <2>1 DEF Answering
  <2> QED
    BY <1>6, <2>3, <2>4, <2>5, <2>6 DEF Inv
<1>9. CASE Oracle /\ OracleFails
  <2>1. cache' = None /\ pc' = "exited" /\ ack' = None
    BY <1>3, <1>9 DEF IngestEnd, Oracle, Generative
  <2>2. Recalled' = Recalled
    BY <1>1, <1>3, <1>5, <2>1 DEF Recalled
  <2>3. TypeOK'
    BY <1>1, <1>2, <2>1 DEF TypeOK, Housed, Retained
  <2>4. Keeping'
    BY <1>1, <1>2, <1>4, <2>1, <2>2 DEF Keeping
  <2>5. Counting' /\ Answering'
    BY <1>4, <1>9, <2>1 DEF Counting, Answering, Remembers, Oracle
  <2> QED
    BY <1>6, <2>3, <2>4, <2>5 DEF Inv
<1>10. CASE Oracle /\ ~OracleFails
  <2>1. /\ cache' = OracleFrames /\ pc' = "query"
        /\ ack' = [records |-> Len(OracleFrames), frames |-> Len(OracleFrames)]
    BY <1>10 DEF IngestEnd, Acknowledge, Oracle, Generative
  <2>2. /\ OracleFrames \in Seq(Frame)
        /\ \A i \in 1..Len(OracleFrames) : /\ OracleFrames[i].home = home
                                           /\ OracleFrames[i].session \in 1..shown
    BY <1>2, <1>10, OracleShows
  <2>3. Len(OracleFrames) \in Nat /\ DOMAIN OracleFrames = 1..Len(OracleFrames)
    BY <2>2
  <2>4. \A f \in ToSet(cache') : f.home = home /\ f.session \in 1..shown
    BY <2>1, <2>2, <2>3 DEF ToSet
  <2>5. Recalled' = Recalled \cup ToSet(cache')
    <3>1. cache' # None
      BY <2>1, <2>2, MemoryAssumption
    <3> QED
      BY <1>1, <1>3, <1>5, <3>1 DEF Recalled
  <2>6. TypeOK'
    BY <1>1, <1>2, <2>1, <2>2, <2>3 DEF TypeOK, Housed, Retained
  <2>7. Keeping'
    <3>1. \A f \in Recalled' : f.home = home' /\ f.session \in 1..shown'
      BY <1>1, <1>2, <2>4, <2>5 DEF Keeping
    <3>2. cache' # None
      BY <2>1, <2>2, MemoryAssumption
    <3> QED
      BY <1>1, <1>2, <1>4, <1>10, <2>1, <3>1, <3>2 DEF Keeping
  <2>8. Counting'
    BY <1>4, <1>10 DEF Counting, Remembers, Oracle
  <2>9. Answering'
    BY <1>1, <1>3, <1>4, <1>10, <2>1 DEF Answering
  <2> QED
    BY <1>6, <2>6, <2>7, <2>8, <2>9 DEF Inv
<1> QED
  BY <1>8, <1>9, <1>10

LEMMA AskGenerativeKeeps == Inv /\ AskGenerative => Inv'
<1> SUFFICES ASSUME Inv, AskGenerative PROVE Inv'
  OBVIOUS
<1>1. /\ pc = "query" /\ Generative
      /\ call' = [for |-> "answer",
                  frames |-> IF system.mode = "oracle" THEN cache ELSE <<>>,
                  from |-> IF system.mode = "memory" THEN FramesOf(notes) ELSE {},
                  tries |-> 1]
      /\ UNCHANGED <<system, homes, home, shown, pc, memory, stats, ack, asked, answer>>
  BY DEF AskGenerative, Querying, Generative
<1>2. FramesOf(notes)' = FramesOf(notes) /\ cache' = cache /\ (Generative' <=> Generative)
  BY <1>1 DEF FramesOf, memory, Generative
<1>3. Calling'
  BY <1>1, <1>2 DEF Calling
<1> QED
  BY <1>1, <1>3, CallKeeps

LEMMA AskWeightsKeeps == Inv /\ AskWeights => Inv'
<1> SUFFICES ASSUME Inv, AskWeights PROVE Inv'
  OBVIOUS
<1>1. /\ pc = "query" /\ system.kind # "vlm"
      /\ answer' \in {weights, {}} /\ asked' = asked + 1
      /\ UNCHANGED <<system, homes, home, shown, pc, call, memory, stats, ack>>
  BY DEF AskWeights, Querying
<1>2. answer' \subseteq Recalled /\ asked' \in Nat
  BY <1>1 DEF Recalled, Inv, TypeOK
<1> QED
  BY <1>1, <1>2, AnswerKeeps

LEMMA EnvEndKeeps == Inv /\ EnvEnd => Inv'
<1> SUFFICES ASSUME Inv, EnvEnd PROVE Inv'
  OBVIOUS
<1>1. /\ pc = "query" /\ call = None /\ pc' = "idle"
      /\ weights' = (IF system.kind = "lora" THEN {} ELSE weights)
      /\ notes' = notes /\ paths' = paths /\ cache' = cache
      /\ writes' = writes /\ system' = system /\ homes' = homes /\ home' = home
      /\ shown' = shown /\ stats' = stats /\ ack' = ack /\ call' = call /\ answer' = answer
      /\ asked' = asked
  BY DEF EnvEnd
<1>2. TypeOK /\ Keeping
  BY DEF Inv
<1>3. /\ Oracle' <=> Oracle
      /\ OracleFails' <=> OracleFails
      /\ OracleFrames' = OracleFrames
      /\ Generative' <=> Generative
  BY <1>1, Kept
<1>4. Recalled' \subseteq Recalled
  BY <1>1 DEF Recalled, FramesOf
<1>5. TypeOK'
  <2>1. weights' \in SUBSET Frame
    BY <1>1, <1>2 DEF TypeOK
  <2> QED
    BY <1>1, <1>2, <2>1 DEF TypeOK, Housed, Retained
<1>6. Calling' /\ Counting' /\ Answering'
  BY <1>1 DEF Calling, Counting, Answering
<1>7. Keeping'
  BY <1>1, <1>2, <1>3, <1>4 DEF Keeping
<1> QED
  BY <1>5, <1>6, <1>7 DEF Inv

LEMMA StutterKeeps == Inv /\ UNCHANGED vars => Inv'
<1> SUFFICES ASSUME Inv, UNCHANGED vars PROVE Inv'
  OBVIOUS
<1>1. Calling
  BY DEF Inv
<1>2. Calling'
  BY <1>1 DEF vars, memory, Calling, Generative, FramesOf, Session
<1> QED
  BY <1>2, CallKeeps DEF vars

LEMMA Invariance == Spec => []Inv
<1>1. Inv /\ [Next]_vars => Inv'
  <2> SUFFICES ASSUME Inv, [Next]_vars PROVE Inv'
    OBVIOUS
  <2> QED
    BY EnvBeginKeeps, IngestNothingKeeps, DeferKeeps, WatchInVainKeeps, WatchKeeps,
       WriteWeightsKeeps, GenerateKeeps, ChatKeeps, IngestEndKeeps, AskGenerativeKeeps,
       AskWeightsKeeps, EnvEndKeeps, StutterKeeps DEF Next
<1> QED
  BY InitInv, <1>1, PTL DEF Spec

\* In every reachable state the types are as declared, the homes and the
\* sessions within their lists, and the sessions retained the first ones.
THEOREM TypeCorrect == Spec => []TypeOK
BY Invariance, PTL DEF Inv

\* EvidenceIsTrue: what a system reports of the sessions is what it keeps of
\* them, and what it answers from.
THEOREM TrueEvidence == Spec => []EvidenceIsTrue
<1>1. Inv => EvidenceIsTrue
  <2> SUFFICES ASSUME Inv, ack # None, pc = "query" PROVE EvidenceIsTrue
    BY DEF EvidenceIsTrue
  <2>1. TypeOK /\ Housed /\ Retained /\ Keeping /\ Counting /\ Answering
    BY DEF Inv, TypeOK
  <2>2. ASSUME system.mode = "memory", system.kind \notin {"echo", "none"}
        PROVE  /\ \A x \in DOMAIN stats : Contributed(x) <=> \E f \in Recalled : f.session = x
               /\ system.kind # "lora" =>
                     ack.records = Cardinality({x \in DOMAIN stats : stats[x].frames > 0})
               /\ system.kind = "vlm" /\ answer # None =>
                     \A x \in DOMAIN stats : Contributed(x) <=> \E f \in answer : f.session = x
    <3>1. Remembers /\ ~Oracle /\ ack = [records |-> Records, frames |-> None]
      BY <2>1, <2>2 DEF Remembers, Oracle, Answering
    <3>2. system.kind = "vlm" /\ answer # None => answer = Recalled
      BY <2>1 DEF Answering
    <3> QED
      BY <2>1, <3>1, <3>2 DEF Counting
  <2>3. ASSUME Oracle
        PROVE  /\ ack.frames = Len(cache) /\ Len(cache) <= Cap
               /\ system.kind = "vlm" => answer \in {None, ToSet(cache)}
    <3>1. cache # None /\ ~OracleFails /\ cache = OracleFrames /\ notes = <<>> /\ weights = {}
      BY <2>1, <2>3 DEF Keeping, Oracle, Generative
    <3>2. Len(cache) <= Cap
      BY <2>1, <3>1, OracleShows
    <3>3. Recalled = ToSet(cache)
      BY <3>1, NoFrames DEF Recalled
    <3> QED
      BY <2>1, <2>3, <3>2, <3>3 DEF Answering
  <2>4. ASSUME system.mode = "blind", system.kind # "echo"
        PROVE  ack.records = 0 /\ answer \in {None, {}}
    <3>1. ~Oracle /\ notes = <<>> /\ weights = {} /\ cache = None /\ writes = 0
      BY <2>1, <2>4 DEF Keeping, Oracle
    <3>2. Recalled = {} /\ Records = 0
      BY <3>1, NoFrames DEF Recalled, Records
    <3> QED
      BY <2>1, <3>1, <3>2 DEF Answering
  <2> QED
    BY <2>2, <2>3, <2>4 DEF EvidenceIsTrue, Oracle
<1> QED
  BY Invariance, <1>1, PTL

\* CeilingSeesAll: the frames an oracle run is shown are in order, and those
\* of no session that is long enough have all been thinned out.
THEOREM CeilingSeen == Spec => []CeilingSeesAll
<1>1. Inv => CeilingSeesAll
  <2>1. CASE cache = None
    BY <2>1 DEF CeilingSeesAll
  <2>2. CASE cache # None
    BY <2>2, CeilingHolds DEF Inv, TypeOK, Keeping
  <2> QED
    BY <2>1, <2>2
<1> QED
  BY Invariance, <1>1, PTL

-----------------------------------------------------------------------------
(* Each system is one that recalls.                                        *)

\* It answers once it has reported.
LEMMA Sealed == ASSUME Inv, pc = "query" PROVE ack # None
<1>1. TypeOK /\ Keeping /\ Answering
  BY DEF Inv
<1>2. Len(notes) \in Nat /\ (cache # None => Len(cache) \in Nat)
  BY <1>1 DEF TypeOK
<1>3. CASE Oracle
  <2>1. [records |-> Len(cache), frames |-> Len(cache)] \in [records : Nat, frames : Nat \cup {None}]
    BY <1>1, <1>2, <1>3 DEF Keeping
  <2> QED
    BY <1>1, <1>3, <2>1, MemoryAssumption DEF Answering
<1>4. CASE ~Oracle
  <2>1. [records |-> Records, frames |-> None] \in [records : Nat, frames : Nat \cup {None}]
    BY <1>1, <1>2 DEF Records, TypeOK
  <2> QED
    BY <1>1, <1>4, <2>1, MemoryAssumption DEF Answering
<1> QED
  BY <1>3, <1>4

\* A step that keeps what there was, and adds to it before the sessions are over.
LEMMA Learns ==
    ASSUME Inv, Inv', pc = "ingest", Recalled \subseteq Recalled',
           UNCHANGED <<home, answer>>
    PROVE  R!Learn
<1>1. ack = None
  BY DEF Inv, Answering
<1>2. Recalled' \subseteq Frame
  <2>1. FramesOf(notes)' \subseteq Frame
    <3>1. notes' \in Seq(SUBSET Frame)
      BY DEF Inv, TypeOK
    <3> QED
      BY <3>1, ElementOfSeq DEF FramesOf
  <2>2. cache' # None => ToSet(cache)' \subseteq Frame
    <3>1. cache' # None => cache' \in Seq(Frame)
      BY DEF Inv, TypeOK
    <3> QED
      BY <3>1, ElementOfSeq DEF ToSet
  <2> QED
    BY <2>1, <2>2 DEF Recalled, Inv, TypeOK
<1>3. ASSUME NEW f \in Recalled' PROVE f \in R!Of(home)
  <2>1. f \in Frame /\ f.home = home
    BY <1>2, <1>3 DEF Inv, Keeping
  <2> QED
    BY <2>1 DEF R!Of, Frame
<1> QED
  BY <1>1, <1>3 DEF R!Learn

\* A step that only answers.
LEMMA Answers ==
    ASSUME Inv, Inv', pc = "query", pc' = "query", UNCHANGED <<home, memory, ack>>
    PROVE  R!Answer
<1>1. Recalled' = Recalled
  BY DEF memory, Recalled, FramesOf
<1>2. ack # None
  BY Sealed
<1>3. \/ answer' = None
      \/ answer' \subseteq Recalled
  BY <1>1 DEF Inv, Answering
<1> QED
  BY <1>1, <1>2, <1>3 DEF R!Answer

\* A step of which nothing is seen.
LEMMA Stutters ==
    ASSUME UNCHANGED <<home, memory, ack, answer>>
    PROVE  UNCHANGED R!recallVars
BY DEF memory, Recalled, FramesOf, R!recallVars

LEMMA RecallStep ==
    ASSUME Inv, Inv', Next
    PROVE  \/ R!Enter \/ R!Learn \/ R!Answer \/ R!Leave \/ UNCHANGED R!recallVars
<1>1. TypeOK /\ Keeping /\ Calling
  BY DEF Inv
<1>2. CASE EnvBegin
  <2>1. /\ home' = home + 1 /\ answer' = None /\ ack' = None
        /\ notes' = <<>> /\ weights' = {} /\ cache' = None
    BY <1>2 DEF EnvBegin, Forget
  <2>2. FramesOf(notes)' = {}
    BY <2>1, NoFrames DEF FramesOf
  <2>3. Recalled' = {}
    BY <2>1, <2>2 DEF Recalled
  <2>4. home \in Nat
    BY <1>1 DEF TypeOK, Housed
  <2> QED
    BY <2>1, <2>3, <2>4 DEF R!Enter
<1>3. CASE IngestNothing \/ Defer \/ WatchInVain
  <2>1. /\ pc = "ingest" /\ UNCHANGED <<home, notes, cache, weights, answer>>
    BY <1>3 DEF IngestNothing, Defer, WatchInVain, Watching, Ingesting, memory
  <2>2. Recalled' = Recalled
    BY <2>1 DEF Recalled, FramesOf
  <2> QED
    BY <2>1, <2>2, Learns
<1>4. CASE Watch \/ AskGenerative
  BY <1>4, Stutters DEF Watch, AskGenerative
<1>5. CASE WriteWeights
  <2>1. /\ pc = "ingest" /\ UNCHANGED <<home, notes, cache, answer>> /\ weights \subseteq weights'
    BY <1>5 DEF WriteWeights, Watching, Ingesting
  <2>2. Recalled \subseteq Recalled'
    BY <2>1 DEF Recalled, FramesOf
  <2> QED
    BY <2>1, <2>2, Learns
<1>6. CASE Generate \/ Chat
  <2>1. call # None /\ UNCHANGED <<home, paths, cache, weights, writes>>
    BY <1>6 DEF Generate, Chat
  <2>2. CASE call.for = "note"
    <3>1. pc = "ingest"
      BY <1>1, <2>1, <2>2 DEF Calling
    <3>2. /\ answer' = answer
          /\ \/ notes' = notes
             \/ \E from : /\ notes' = Append(notes, from)
                          /\ from \in {{}, call.from \cup ToSet(call.frames), call.from}
      BY <1>6, <2>2 DEF Generate, Chat, Returned, Raised
    <3>3. FramesOf(notes) \subseteq FramesOf(notes)'
      <4>1. CASE notes' = notes
        BY <4>1 DEF FramesOf
      <4>2. ASSUME NEW from, notes' = Append(notes, from) PROVE FramesOf(notes) \subseteq FramesOf(notes)'
        <5>1. notes \in Seq(SUBSET Frame) /\ notes' \in Seq(SUBSET Frame)
          BY <1>1 DEF Inv, TypeOK
        <5>2. \A x \in DOMAIN notes : x \in DOMAIN notes' /\ notes'[x] = notes[x]
          BY <4>2, <5>1, AppendProperties
        <5> QED
          BY <5>2 DEF FramesOf
      <4> QED
        BY <3>2, <4>1, <4>2
    <3>4. Recalled \subseteq Recalled'
      BY <2>1, <3>3 DEF Recalled
    <3> QED
      BY <2>1, <3>1, <3>2, <3>4, Learns
  <2>3. CASE call.for = "answer"
    <3>1. pc = "query" /\ pc' = "query" /\ UNCHANGED <<notes, ack>>
      BY <1>1, <1>6, <2>1, <2>3 DEF Calling, Generate, Chat, Returned, Raised
    <3> QED
      BY <2>1, <3>1, Answers DEF memory
  <2> QED
    BY <1>1, <2>1, <2>2, <2>3 DEF Calling
<1>7. CASE IngestEnd
  <2>1. pc = "ingest" /\ UNCHANGED <<home, notes, weights, answer>> /\ cache = None
    BY <1>1, <1>7 DEF IngestEnd, Keeping
  <2>2. FramesOf(notes)' = FramesOf(notes)
    BY <2>1 DEF FramesOf
  <2>3. Recalled \subseteq Recalled'
    BY <2>1, <2>2 DEF Recalled
  <2> QED
    BY <2>1, <2>3, Learns
<1>8. CASE AskWeights
  BY <1>8, Answers DEF AskWeights, Querying
<1>9. CASE EnvEnd
  <2>1. /\ pc = "query" /\ UNCHANGED <<home, notes, paths, cache, writes, ack, answer>>
        /\ weights' = IF system.kind = "lora" THEN {} ELSE weights
    BY <1>9 DEF EnvEnd
  <2>2. CASE system.kind = "lora"
    <3>1. notes = <<>> /\ cache = None
      BY <1>1, <2>2 DEF Keeping, Oracle, Generative
    <3>2. FramesOf(notes)' = {}
      BY <2>1, <3>1, NoFrames DEF FramesOf
    <3>3. Recalled' = {}
      BY <2>1, <2>2, <3>1, <3>2 DEF Recalled
    <3>4. ack # None
      BY <2>1, Sealed
    <3> QED
      BY <2>1, <3>3, <3>4 DEF R!Leave
  <2>3. CASE system.kind # "lora"
    BY <2>1, <2>3, Stutters DEF memory
  <2> QED
    BY <2>2, <2>3
<1> QED
  BY <1>2, <1>3, <1>4, <1>5, <1>6, <1>7, <1>8, <1>9 DEF Next

\* ImplementsRecall: whatever its kind and its mode, a system takes in the
\* sessions of one home at a time and answers from what it has taken in of them.
THEOREM RecallImplemented == Spec => ImplementsRecall
<1>1. Init => R!Init
  <2> SUFFICES ASSUME Init PROVE R!Init
    OBVIOUS
  <2>1. Recalled = {}
    BY NoFrames DEF Init, Recalled
  <2> QED
    BY <2>1 DEF Init, R!Init
<1>2. Inv /\ Inv' /\ [Next]_vars => [R!Enter \/ R!Learn \/ R!Answer \/ R!Leave]_(R!recallVars)
  BY RecallStep, Stutters DEF vars
<1> QED
  BY Invariance, <1>1, <1>2, PTL DEF Spec, ImplementsRecall, R!Spec
================================================================================
